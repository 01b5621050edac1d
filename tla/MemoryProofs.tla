---------------------------- MODULE MemoryProofs ----------------------------
(***************************************************************************)
(* The page stack, for every memory map, is a list of exactly the free     *)
(* pages and implements FrameAllocator.  Paging maps what it is asked to   *)
(* map and leaves the rest alone; windows and screen do not share pixels;  *)
(* the free list is whole as long as the graphics regions are not in it.   *)
(*                                                                         *)
(* For paging the invariant is that every table has one place: one level   *)
(* and the upper indices of the pages it is for, led to by the one entry   *)
(* for them (PlacesOK).  So where a page leads is read off its number, an  *)
(* entry written for one page is on the way to no other page that has      *)
(* something below it, and a new table, being empty, maps nothing.         *)
(***************************************************************************)
EXTENDS GraphicsHeap, SequenceTheorems, TLAPS

-----------------------------------------------------------------------------
(* The physical memory manager alone.                                      *)

\* The inductive invariant: the list is a free list of exactly the scanned
\* pages nobody holds.
IInv == TypeOK /\ FreeListIntact

-----------------------------------------------------------------------------
(* The memory map.                                                         *)

LEMMA DescriptorType ==
  ASSUME NEW d \in Descriptors
  PROVE  /\ MemMap[d].conventional \in BOOLEAN
         /\ MemMap[d].start \in Nat
         /\ MemMap[d].pages \in Nat
<1>1. MemMap[d] \in [conventional : BOOLEAN, start : Nat, pages : Nat]
  BY MemMapAssumption, ElementOfSeq DEF Descriptors
<1>. QED
  BY <1>1

LEMMA LenType == Len(MemMap) \in Nat
BY MemMapAssumption

\* Membership of Pushed, without the set map.
LEMMA PushedMember ==
  ASSUME NEW d \in Descriptors, NEW n \in Nat, NEW p
  PROVE  p \in Pushed(d, n) <=>
           /\ \E k \in 0 .. n - 1 : p = MemMap[d].start + k
           /\ p >= ReservedPages
BY DescriptorType, ReservedAssumption DEF Pushed

LEMMA UsableMember ==
  ASSUME NEW d \in Conventional, NEW k \in Nat, k < MemMap[d].pages,
         MemMap[d].start + k >= ReservedPages
  PROVE  MemMap[d].start + k \in Usable
<1>1. d \in Descriptors
  BY DEF Conventional
<1>2. MemMap[d].start + k \in Pushed(d, MemMap[d].pages)
  BY <1>1, DescriptorType, PushedMember
<1>. QED
  BY <1>2 DEF Usable

LEMMA UsableType == Usable \subseteq Nat \ {0}
<1>. SUFFICES ASSUME NEW d \in Conventional, NEW p \in Pushed(d, MemMap[d].pages)
              PROVE  p \in Nat \ {0}
  BY DEF Usable
<1>1. d \in Descriptors
  BY DEF Conventional
<1>. QED
  BY <1>1, DescriptorType, PushedMember, ReservedAssumption

LEMMA ScannedUsable == ASSUME TypeOK PROVE Scanned \subseteq Usable
<1>. SUFFICES ASSUME NEW d \in Conventional, NEW p \in ScannedIn(d)
              PROVE  p \in Usable
  BY DEF Scanned
<1>1. d \in Descriptors
  BY DEF Conventional
<1>2. CASE d = desc
  <2>1. page \in Nat /\ page <= MemMap[d].pages
    BY <1>2 DEF TypeOK
  <2>2. PICK k \in 0 .. page - 1 : p = MemMap[d].start + k
    BY <1>1, <1>2, <2>1, PushedMember DEF ScannedIn
  <2>3. p >= ReservedPages
    BY <1>1, <1>2, <2>1, PushedMember DEF ScannedIn
  <2>. QED
    BY <1>1, <2>1, <2>2, <2>3, DescriptorType, UsableMember
<1>3. CASE d # desc
  BY <1>3 DEF ScannedIn, Usable
<1>. QED
  BY <1>2, <1>3

-----------------------------------------------------------------------------
(* How the steps of init_pmm change the set of scanned pages.              *)

\* The page about to be pushed is a usable one that was not scanned yet.
LEMMA HereIsNew ==
  ASSUME TypeOK, InPageLoop, Here >= ReservedPages
  PROVE  Here \in Usable \ Scanned
<1>1. desc \in Descriptors /\ desc \in Conventional
  BY LenType DEF TypeOK, InPageLoop, Booted, Descriptors, Conventional
<1>2. page \in Nat /\ page < MemMap[desc].pages
  BY DEF TypeOK, InPageLoop
<1>3. Here \in Usable
  BY <1>1, <1>2, UsableMember DEF Here
<1>4. Here \in Pushed(desc, MemMap[desc].pages)
  BY <1>1, <1>2, DescriptorType, PushedMember DEF Here
<1>5. ASSUME NEW d \in Conventional, d <= desc, Here \in ScannedIn(d)
      PROVE  FALSE
  <2>1. CASE d = desc
    <3>1. PICK k \in 0 .. page - 1 : Here = MemMap[desc].start + k
      BY <1>1, <1>2, <1>5, <2>1, PushedMember DEF ScannedIn
    <3>. QED
      BY <1>1, <1>2, <3>1, DescriptorType DEF Here
  <2>2. CASE d # desc
    BY <1>1, <1>4, <1>5, <2>2, DisjointAssumption DEF ScannedIn
  <2>. QED
    BY <2>1, <2>2
<1>. QED
  BY <1>3, <1>5 DEF Scanned

LEMMA HereNotReserved ==
  ASSUME TypeOK, InitPush
  PROVE  Here >= ReservedPages
<1>1. desc \in Descriptors
  BY LenType DEF TypeOK, InitPush, InPageLoop, Booted, Descriptors
<1>. QED
  BY <1>1, DescriptorType, ReservedAssumption DEF TypeOK, InitPush, Reserved, Here

\* One iteration of the page loop adds the page, unless it is reserved.
LEMMA PageStepScanned ==
  ASSUME TypeOK, InPageLoop, page' = page + 1, desc' = desc
  PROVE  Scanned' = Scanned \cup ({Here} \ 0 .. ReservedPages - 1)
<1>1. desc \in Descriptors /\ desc \in Conventional
  BY LenType DEF TypeOK, InPageLoop, Booted, Descriptors, Conventional
<1>2. page \in Nat
  BY DEF TypeOK
<1>3. 0 .. (page + 1) - 1 = (0 .. page - 1) \cup {page}
  BY <1>2
<1>4. Pushed(desc, page + 1) = Pushed(desc, page) \cup ({Here} \ 0 .. ReservedPages - 1)
  BY <1>3 DEF Pushed, Here
<1>5. ScannedIn(desc)' = ScannedIn(desc) \cup ({Here} \ 0 .. ReservedPages - 1)
  BY <1>4 DEF ScannedIn, Pushed
<1>6. \A d \in Conventional : d # desc => ScannedIn(d)' = ScannedIn(d)
  BY DEF ScannedIn, Pushed
<1>7. desc \in {e \in Conventional : e <= desc}
  BY <1>1 DEF TypeOK, Descriptors
<1>. DEFINE D == {e \in Conventional : e <= desc}
<1>8. Scanned' = UNION {ScannedIn(d)' : d \in D}
  BY DEF Scanned, ScannedIn, Pushed, Conventional, Descriptors
<1>9. Scanned = UNION {ScannedIn(d) : d \in D}
  BY DEF Scanned
<1>10. desc \in D /\ D \subseteq Conventional
  BY <1>7
<1>. HIDE DEF D
<1>. QED
  BY <1>5, <1>6, <1>8, <1>9, <1>10

\* Going to the next descriptor scans nothing.
LEMMA NextDescriptorScanned ==
  ASSUME TypeOK, InitNextDescriptor
  PROVE  Scanned' = Scanned
<1>1. desc \in Nat /\ desc <= Len(MemMap) /\ desc' = desc + 1 /\ page' = 0
  BY LenType DEF TypeOK, InitNextDescriptor, Booted
<1>2. ASSUME NEW d \in Conventional, d <= desc
      PROVE  ScannedIn(d)' = ScannedIn(d)
  <2>1. d \in Descriptors /\ d \in Nat
    BY DEF Conventional, Descriptors
  <2>2. d # desc'
    BY <1>1, <1>2, <2>1
  <2>3. d = desc => page = MemMap[d].pages
    BY <2>1, DescriptorType, <1>1
       DEF InitNextDescriptor, InPageLoop, TypeOK, Conventional
  <2>. QED
    BY <2>2, <2>3 DEF ScannedIn, Pushed
<1>3. ASSUME NEW d \in Conventional, d = desc'
      PROVE  ScannedIn(d)' = {}
  <2>1. ScannedIn(d)' = Pushed(d, 0)
    BY <1>1, <1>3 DEF ScannedIn, Pushed
  <2>. QED
    BY <2>1 DEF Pushed
<1>4. \A d \in Conventional : d <= desc' <=> (d <= desc \/ d = desc')
  BY <1>1 DEF Conventional, Descriptors
<1>5. Scanned' = UNION {ScannedIn(d)' : d \in {e \in Conventional : e <= desc'}}
  BY DEF Scanned, ScannedIn, Pushed, Conventional, Descriptors
<1>. QED
  BY <1>2, <1>3, <1>4, <1>5 DEF Scanned

-----------------------------------------------------------------------------
(* The list.  Each lemma builds the new list from the old one.             *)

LEMMA PushList ==
  ASSUME IInv, NEW p \in Usable \ Unheld, Push(p), Unheld' = Unheld \cup {p}
  PROVE  FreeListIntact'
<1>1. PICK s \in [1 .. total_free_pages -> Unheld] : IsFreeList(s)
  BY DEF IInv, FreeListIntact
<1>. PICK n : n = total_free_pages
  OBVIOUS
<1>. PICK t : t = [k \in 1 .. n + 1 |-> IF k = 1 THEN p ELSE s[k - 1]]
  OBVIOUS
<1>2. n \in Nat /\ total_free_pages' = n + 1
  BY DEF IInv, TypeOK, Push
<1>3. /\ Unheld \subseteq Usable
      /\ next \in [Usable -> Nat]
  BY ScannedUsable DEF IInv, Unheld, TypeOK
<1>4. /\ free_list_head' = p
      /\ next'[p] = free_list_head
      /\ \A q \in Unheld : next'[q] = next[q]
  BY <1>3 DEF Push
<1>5. t \in [1 .. n + 1 -> Unheld']
  BY <1>1, <1>2
<1>6. \A q \in Unheld' : \E k \in 1 .. n + 1 : t[k] = q
  <2>. SUFFICES ASSUME NEW q \in Unheld'
                PROVE  \E k \in 1 .. n + 1 : t[k] = q
    OBVIOUS
  <2>1. CASE q = p
    BY <1>2, <2>1
  <2>2. CASE q # p
    <3>1. PICK j \in 1 .. n : s[j] = q
      BY <1>1, <2>2 DEF IsFreeList
    <3>. QED
      BY <1>2, <3>1, t[j + 1] = q, j + 1 \in 1 .. n + 1
  <2>. QED
    BY <2>1, <2>2
<1>7. \A j, k \in 1 .. n + 1 : t[j] = t[k] => j = k
  <2>1. \A j \in 1 .. n : s[j] \in Unheld
    BY <1>1
  <2>2. \A j, k \in 1 .. n : s[j] = s[k] => j = k
    BY <1>1 DEF IsFreeList
  <2>. QED
    BY <1>2, <2>1, <2>2
<1>8. \A k \in 1 .. n : next'[t[k]] = t[k + 1]
  <2>. SUFFICES ASSUME NEW k \in 1 .. n
                PROVE  next'[t[k]] = t[k + 1]
    OBVIOUS
  <2>1. t[k + 1] = s[k]
    BY <1>2
  <2>2. CASE k = 1
    <3>1. next'[t[k]] = free_list_head
      BY <1>2, <1>4, <2>2
    <3>. QED
      BY <1>1, <1>2, <2>1, <2>2, <3>1 DEF IsFreeList
  <2>3. CASE k # 1
    <3>1. k - 1 \in 1 .. n - 1 /\ t[k] = s[k - 1] /\ s[k - 1] \in Unheld
      BY <1>1, <1>2, <2>3
    <3>2. next[s[k - 1]] = s[(k - 1) + 1]
      BY <1>1, <3>1 DEF IsFreeList
    <3>. QED
      BY <1>2, <1>4, <2>1, <3>1, <3>2
  <2>. QED
    BY <2>2, <2>3
<1>9. next'[t[n + 1]] = NULL
  <2>1. CASE n = 0
    BY <1>1, <1>4, <2>1 DEF IsFreeList
  <2>2. CASE n # 0
    <3>1. t[n + 1] = s[n] /\ s[n] \in Unheld
      BY <1>1, <1>2, <2>2
    <3>. QED
      BY <1>1, <1>2, <1>4, <2>2, <3>1 DEF IsFreeList
  <2>. QED
    BY <2>1, <2>2
<1>10. free_list_head' = t[1]
  BY <1>2, <1>4
<1>11. (n + 1) - 1 = n /\ n + 1 > 0 /\ n + 1 # 0
  BY <1>2
<1>12. IsFreeList(t)'
  BY <1>2, <1>5, <1>6, <1>7, <1>8, <1>9, <1>10, <1>11 DEF IsFreeList
<1>. QED
  BY <1>2, <1>5, <1>12 DEF FreeListIntact

\* What a pop finds at the head of the list.
LEMMA HeadIsFree ==
  ASSUME IInv, free_list_head # NULL
  PROVE  /\ free_list_head \in Unheld
         /\ total_free_pages > 0
<1>1. PICK s \in [1 .. total_free_pages -> Unheld] : IsFreeList(s)
  BY DEF IInv, FreeListIntact
<1>. QED
  BY <1>1 DEF IInv, TypeOK, IsFreeList

\* An empty list means that no page is free.
LEMMA EmptyListNoFree ==
  ASSUME IInv, free_list_head = NULL
  PROVE  Unheld = {}
<1>1. PICK s \in [1 .. total_free_pages -> Unheld] : IsFreeList(s)
  BY DEF IInv, FreeListIntact
<1>2. Unheld \subseteq Nat \ {0}
  BY ScannedUsable, UsableType DEF IInv, Unheld
<1>3. total_free_pages = 0
  BY <1>1, <1>2 DEF IInv, TypeOK, IsFreeList, NULL
<1>. QED
  BY <1>1, <1>3 DEF IsFreeList

LEMMA PopList ==
  ASSUME IInv, Pop, Unheld' = Unheld \ {free_list_head}
  PROVE  FreeListIntact'
<1>1. PICK s \in [1 .. total_free_pages -> Unheld] : IsFreeList(s)
  BY DEF IInv, FreeListIntact
<1>. PICK n : n = total_free_pages
  OBVIOUS
<1>. PICK t : t = [k \in 1 .. n - 1 |-> s[k + 1]]
  OBVIOUS
<1>2. /\ n \in Nat /\ n > 0
      /\ total_free_pages' = n - 1
      /\ next' = next
      /\ free_list_head = s[1]
      /\ free_list_head' = next[s[1]]
  BY <1>1, HeadIsFree DEF IInv, TypeOK, Pop, IsFreeList
<1>3. \A j, k \in 1 .. n : s[j] = s[k] => j = k
  BY <1>1 DEF IsFreeList
<1>4. t \in [1 .. n - 1 -> Unheld']
  BY <1>1, <1>2, <1>3
<1>5. \A q \in Unheld' : \E k \in 1 .. n - 1 : t[k] = q
  <2>. SUFFICES ASSUME NEW q \in Unheld'
                PROVE  \E k \in 1 .. n - 1 : t[k] = q
    OBVIOUS
  <2>1. PICK j \in 1 .. n : s[j] = q
    BY <1>1 DEF IsFreeList
  <2>2. j - 1 \in 1 .. n - 1
    BY <1>2, <2>1
  <2>. QED
    BY <1>2, <2>1, <2>2
<1>6. \A j, k \in 1 .. n - 1 : t[j] = t[k] => j = k
  BY <1>2, <1>3
<1>7. \A k \in 1 .. (n - 1) - 1 : next'[t[k]] = t[k + 1]
  BY <1>1, <1>2 DEF IsFreeList
<1>8. n - 1 = 0 => free_list_head' = NULL
  BY <1>1, <1>2 DEF IsFreeList
<1>9. n - 1 > 0 => free_list_head' = t[1] /\ next'[t[n - 1]] = NULL
  BY <1>1, <1>2 DEF IsFreeList
<1>10. IsFreeList(t)'
  BY <1>2, <1>4, <1>5, <1>6, <1>7, <1>8, <1>9 DEF IsFreeList
<1>. QED
  BY <1>2, <1>4, <1>10 DEF FreeListIntact

\* A store into held pages does not touch the list.
LEMMA StoreList ==
  ASSUME IInv, UNCHANGED <<free_list_head, total_free_pages>>, Unheld' = Unheld,
         \A q \in Unheld : next'[q] = next[q]
  PROVE  FreeListIntact'
<1>1. PICK s \in [1 .. total_free_pages -> Unheld] : IsFreeList(s)
  BY DEF IInv, FreeListIntact
<1>2. \A k \in 1 .. total_free_pages : next'[s[k]] = next[s[k]]
  BY <1>1
<1>3. total_free_pages \in Nat
  BY DEF IInv, TypeOK
<1>4. IsFreeList(s)'
  BY <1>1, <1>2, <1>3 DEF IsFreeList
<1>. QED
  BY <1>1, <1>4 DEF FreeListIntact

-----------------------------------------------------------------------------
(* Initial state and steps.                                                *)

LEMMA InitScanned == ASSUME Init PROVE Scanned = {}
<1>. SUFFICES ASSUME NEW d \in Conventional, d <= desc PROVE ScannedIn(d) = {}
  BY DEF Scanned
<1>1. d = desc
  BY DEF Init, Conventional, Descriptors
<1>2. ScannedIn(d) = Pushed(d, 0)
  BY <1>1 DEF Init, ScannedIn
<1>. QED
  BY <1>2 DEF Pushed

LEMMA InitIInv == Init => IInv
<1>. SUFFICES ASSUME Init PROVE IInv
  OBVIOUS
<1>1. TypeOK
  BY InitScanned, LenType, DescriptorType DEF Init, TypeOK, Idle, NULL, Conventional
<1>2. PICK s : s = [k \in 1 .. 0 |-> 0]
  OBVIOUS
<1>3. s \in [1 .. total_free_pages -> Unheld] /\ IsFreeList(s)
  BY <1>2, InitScanned DEF Init, IsFreeList, Unheld
<1>. QED
  BY <1>1, <1>3 DEF IInv, FreeListIntact

\* The scanned pages do not depend on anything but the cursors.
LEMMA ScannedUnchanged ==
  ASSUME UNCHANGED <<desc, page>>
  PROVE  Scanned' = Scanned
BY DEF Scanned, ScannedIn, Pushed, Conventional, Descriptors

LEMMA PushStep ==
  ASSUME IInv, InitPush
  PROVE  IInv'
<1>1. Here \in Usable \ Scanned
  BY HereIsNew, HereNotReserved DEF IInv, InitPush
<1>2. Scanned' = Scanned \cup {Here}
  BY <1>1, HereNotReserved, PageStepScanned, UsableType, ReservedAssumption DEF IInv, InitPush
<1>3. Unheld' = Unheld \cup {Here}
  BY <1>1, <1>2 DEF Unheld, IInv, TypeOK, InitPush
<1>4. FreeListIntact'
  BY <1>1, <1>3, PushList DEF InitPush, Unheld
<1>5. TypeOK'
  BY <1>1, <1>2, UsableType, DescriptorType
     DEF IInv, TypeOK, InitPush, InPageLoop, Push, NULL, Conventional
<1>. QED
  BY <1>4, <1>5 DEF IInv

\* A reserved page is skipped: nothing is scanned.
LEMMA ReservedPage ==
  ASSUME TypeOK, InitReserve
  PROVE  Scanned' = Scanned
<1>1. desc \in Descriptors
  BY LenType DEF TypeOK, InitReserve, InPageLoop, Booted, Descriptors
<1>2. Here \in Nat /\ Here < ReservedPages
  BY <1>1, DescriptorType DEF TypeOK, InitReserve, Reserved, Here
<1>. QED
  BY <1>2, PageStepScanned, ReservedAssumption DEF InitReserve

LEMMA ReserveStep ==
  ASSUME IInv, InitReserve
  PROVE  IInv'
<1>1. Scanned' = Scanned
  BY ReservedPage DEF IInv
<1>2. TypeOK'
  BY <1>1, DescriptorType DEF IInv, TypeOK, InitReserve, InPageLoop, list, Conventional
<1>3. FreeListIntact'
  BY <1>1, StoreList DEF Unheld, InitReserve, list
<1>. QED
  BY <1>2, <1>3 DEF IInv

LEMMA DescriptorStep ==
  ASSUME IInv, InitNextDescriptor
  PROVE  IInv'
<1>1. Scanned' = Scanned
  BY NextDescriptorScanned DEF IInv
<1>2. TypeOK'
  BY <1>1, LenType, DescriptorType
     DEF IInv, TypeOK, InitNextDescriptor, Booted, list, Conventional
<1>3. FreeListIntact'
  BY <1>1, StoreList DEF Unheld, InitNextDescriptor, list
<1>. QED
  BY <1>2, <1>3 DEF IInv

\* A pop by any of the callers, with the cursors left alone.
LEMMA PopStep ==
  ASSUME IInv, Pop, UNCHANGED <<desc, page>>
  PROVE  /\ free_list_head \in Unheld
         /\ Unheld' = Unheld \ {free_list_head}
         /\ FreeListIntact'
         /\ multi' \in [active : BOOLEAN, first : Usable \cup {NULL}, got : Nat, want : Nat]
              => TypeOK'
<1>1. free_list_head \in Unheld /\ total_free_pages > 0
  BY HeadIsFree DEF Pop
<1>2. Scanned' = Scanned /\ Scanned \subseteq Usable
  BY ScannedUnchanged, ScannedUsable DEF IInv
<1>3. Unheld' = Unheld \ {free_list_head}
  BY <1>1, <1>2 DEF Unheld, Pop
<1>4. FreeListIntact'
  BY <1>3, PopList
<1>5. free_list_head' \in Usable \cup {NULL}
  <2>1. PICK s \in [1 .. total_free_pages' -> Unheld'] : IsFreeList(s)'
    BY <1>4 DEF FreeListIntact
  <2>2. total_free_pages' \in Nat
    BY <1>1 DEF IInv, TypeOK, Pop
  <2>. QED
    BY <1>2, <1>3, <2>1, <2>2 DEF IsFreeList, Unheld
<1>. QED
  BY <1>1, <1>2, <1>3, <1>4, <1>5 DEF IInv, TypeOK, Pop, Unheld, Conventional

LEMMA NothingStep ==
  ASSUME IInv, PopNothing, UNCHANGED <<desc, page>>
  PROVE  /\ Unheld' = Unheld
         /\ FreeListIntact'
         /\ multi' \in [active : BOOLEAN, first : Usable \cup {NULL}, got : Nat, want : Nat]
              => TypeOK'
<1>1. Scanned' = Scanned
  BY ScannedUnchanged
<1>2. FreeListIntact'
  BY <1>1, StoreList DEF PopNothing, Unheld, list
<1>. QED
  BY <1>1, <1>2 DEF IInv, TypeOK, PopNothing, Unheld, list, Conventional

LEMMA FreeStep ==
  ASSUME IInv, Free
  PROVE  IInv'
<1>1. PICK p \in held : Push(p) /\ held' = held \ {p}
  BY DEF Free
<1>2. Scanned' = Scanned /\ Scanned \subseteq Usable
  BY ScannedUnchanged, ScannedUsable DEF IInv, Free
<1>3. p \in Usable \ Unheld
  BY <1>2 DEF IInv, TypeOK, Unheld
<1>4. Unheld' = Unheld \cup {p}
  BY <1>1, <1>2 DEF IInv, TypeOK, Unheld
<1>5. FreeListIntact'
  BY <1>1, <1>3, <1>4, PushList
<1>6. next' \in [Usable -> Nat] /\ free_list_head' \in Usable /\ total_free_pages' \in Nat
  BY <1>1, <1>3, UsableType DEF IInv, TypeOK, Push, NULL
<1>7. TypeOK'
  BY <1>1, <1>2, <1>6 DEF IInv, TypeOK, Free, Conventional
<1>. QED
  BY <1>5, <1>7 DEF IInv

LEMMA OwnerStep ==
  ASSUME IInv, OwnerWrite
  PROVE  IInv'
<1>1. PICK p \in held, w \in OwnerWords : next' = [next EXCEPT ![p] = w]
  BY DEF OwnerWrite
<1>2. Scanned' = Scanned /\ Scanned \subseteq Usable
  BY ScannedUnchanged, ScannedUsable DEF IInv, OwnerWrite
<1>3. \A q \in Unheld : next'[q] = next[q]
  BY <1>1, <1>2 DEF IInv, TypeOK, Unheld
<1>4. FreeListIntact'
  BY <1>2, <1>3, StoreList DEF OwnerWrite, Unheld
<1>5. TypeOK'
  BY <1>1, <1>2, WordsAssumption DEF IInv, TypeOK, OwnerWrite, Conventional
<1>. QED
  BY <1>4, <1>5 DEF IInv

\* Steps that change neither the list, the cursors nor the holders.
LEMMA QuietStep ==
  ASSUME IInv, UNCHANGED <<list, desc, page, held, result>>,
         multi' \in [active : BOOLEAN, first : Usable \cup {NULL}, got : Nat, want : Nat]
  PROVE  IInv' /\ Unheld' = Unheld
<1>1. Scanned' = Scanned
  BY ScannedUnchanged
<1>2. FreeListIntact'
  BY <1>1, StoreList DEF Unheld, list
<1>. QED
  BY <1>1, <1>2 DEF IInv, TypeOK, Unheld, list, Conventional

LEMMA StepIInv == IInv /\ [Next]_vars => IInv'
<1>. SUFFICES ASSUME IInv, [Next]_vars PROVE IInv'
  OBVIOUS
<1>. DEFINE Calls == [active : BOOLEAN, first : Usable \cup {NULL}, got : Nat, want : Nat]
<1>1. multi \in Calls /\ Idle \in Calls
  BY DEF IInv, TypeOK, Idle
<1>2. CASE InitReserve
  BY <1>2, ReserveStep
<1>3. CASE InitPush
  BY <1>3, PushStep
<1>4. CASE InitNextDescriptor
  BY <1>4, DescriptorStep
<1>5. CASE Alloc
  BY <1>1, <1>5, PopStep, NothingStep DEF Alloc, IInv
<1>6. CASE Free
  BY <1>6, FreeStep
<1>7. CASE OwnerWrite
  BY <1>7, OwnerStep
<1>8. CASE AllocPagesBegin
  <2>1. PICK count \in 1 .. MaxCount :
          \/ /\ Pop
             /\ multi' = [active |-> TRUE, first |-> free_list_head,
                          got |-> 1, want |-> count]
          \/ PopNothing /\ UNCHANGED multi
    BY <1>8 DEF AllocPagesBegin
  <2>2. multi' \in Calls
    <3>1. count \in Nat /\ free_list_head \in Usable \cup {NULL}
      BY CountAssumption DEF IInv, TypeOK
    <3>2. ASSUME multi' = [active |-> TRUE, first |-> free_list_head,
                           got |-> 1, want |-> count]
          PROVE  multi' \in Calls
      BY <3>1, <3>2
    <3>. QED
      BY <1>1, <2>1, <3>2
  <2>. QED
    BY <1>8, <2>1, <2>2, PopStep, NothingStep DEF AllocPagesBegin, IInv
<1>9. CASE AllocPagesStep
  <2>1. multi' \in Calls
    BY <1>1, <1>9 DEF AllocPagesStep
  <2>. QED
    BY <1>9, <2>1, PopStep, NothingStep DEF AllocPagesStep, IInv
<1>10. CASE AllocPagesReturn
  BY <1>1, <1>10, QuietStep DEF AllocPagesReturn
<1>11. CASE UNCHANGED vars
  BY <1>1, <1>11, QuietStep DEF vars
<1>. QED
  BY <1>2, <1>3, <1>4, <1>5, <1>6, <1>7, <1>8, <1>9, <1>10, <1>11 DEF Next

\* The type invariant holds for every memory map: pages handed out, linked
\* or counted are usable pages (memory.cpp lines 16-54).
THEOREM TypeCorrect == Spec => []TypeOK
<1>1. IInv => TypeOK
  BY DEF IInv
<1>. QED
  BY <1>1, InitIInv, StepIInv, PTL DEF Spec

\* The free list links exactly the free pages and total_free_pages counts
\* them, for every memory map and every order of pmm_alloc, pmm_free and
\* pmm_alloc_pages (memory.cpp lines 16-31, 132-142).
THEOREM ListCorrect == Spec => []FreeListIntact
<1>1. IInv => FreeListIntact
  BY DEF IInv
<1>. QED
  BY <1>1, InitIInv, StepIInv, PTL DEF Spec

-----------------------------------------------------------------------------
(* The stack of pages implements the abstract allocator.                   *)

\* A pop, whoever makes it, is a page granted.
LEMMA PopImplements == ASSUME IInv, Pop, UNCHANGED <<desc, page>> PROVE Abstract!Next
<1>1. Scanned \subseteq Usable /\ Unheld \subseteq Usable
  BY ScannedUsable DEF IInv, Unheld
<1>2. free_list_head \in Unheld /\ Unheld' = Unheld \ {free_list_head}
  BY PopStep
<1>3. Abstract!Grant(free_list_head)
  BY <1>2 DEF Abstract!Grant, Pop
<1>. QED
  BY <1>1, <1>2, <1>3 DEF Abstract!Next

LEMMA NothingImplements == ASSUME IInv, PopNothing, UNCHANGED <<desc, page>> PROVE Abstract!Next
<1>1. Unheld = {} /\ Unheld' = Unheld
  BY NothingStep, EmptyListNoFree DEF PopNothing
<1>. QED
  BY <1>1 DEF Abstract!Next, Abstract!Refuse, PopNothing

LEMMA StepImplements == IInv /\ [Next]_vars => [Abstract!Next]_(Abstract!vars)
<1>. SUFFICES ASSUME IInv, [Next]_vars PROVE [Abstract!Next]_(Abstract!vars)
  OBVIOUS
<1>1. Scanned \subseteq Usable /\ Unheld \subseteq Usable
  BY ScannedUsable DEF IInv, Unheld
<1>2. ASSUME Pop, UNCHANGED <<desc, page>> PROVE Abstract!Next
  BY <1>2, PopImplements
<1>3. ASSUME PopNothing, UNCHANGED <<desc, page>> PROVE Abstract!Next
  BY <1>3, NothingImplements
<1>4. CASE InitReserve
  BY <1>4, ReservedPage DEF IInv, Abstract!vars, InitReserve, Unheld
<1>5. CASE InitPush
  <2>1. Here \in Usable \ Scanned
    BY <1>5, HereIsNew, HereNotReserved DEF IInv, InitPush
  <2>2. Scanned' = Scanned \cup {Here}
    BY <1>5, <2>1, HereNotReserved, PageStepScanned, UsableType, ReservedAssumption
       DEF IInv, InitPush
  <2>3. Abstract!Donate(Here)
    BY <1>5, <2>1, <2>2 DEF Abstract!Donate, Unheld, IInv, TypeOK, InitPush
  <2>. QED
    BY <2>1, <2>3 DEF Abstract!Next
<1>6. CASE InitNextDescriptor
  BY <1>6, NextDescriptorScanned DEF Abstract!vars, InitNextDescriptor, Unheld, IInv
<1>7. CASE Alloc
  BY <1>2, <1>3, <1>7 DEF Alloc
<1>8. CASE Free
  <2>1. PICK p \in held : Push(p) /\ held' = held \ {p}
    BY <1>8 DEF Free
  <2>2. Scanned' = Scanned
    BY <1>8, ScannedUnchanged DEF Free
  <2>3. Abstract!Return(p) /\ p \in Usable
    BY <1>1, <1>8, <2>1, <2>2 DEF Abstract!Return, Unheld, IInv, TypeOK, Free
  <2>. QED
    BY <2>3 DEF Abstract!Next
<1>9. CASE OwnerWrite
  BY <1>9, ScannedUnchanged DEF Abstract!vars, OwnerWrite, Unheld
<1>10. CASE AllocPagesBegin
  BY <1>2, <1>3, <1>10 DEF AllocPagesBegin
<1>11. CASE AllocPagesStep
  BY <1>2, <1>3, <1>11 DEF AllocPagesStep
<1>12. CASE AllocPagesReturn
  BY <1>12, ScannedUnchanged DEF Abstract!vars, AllocPagesReturn, Unheld
<1>13. CASE UNCHANGED vars
  BY <1>13, ScannedUnchanged DEF Abstract!vars, vars, Unheld
<1>. QED
  BY <1>4, <1>5, <1>6, <1>7, <1>8, <1>9, <1>10, <1>11, <1>12, <1>13 DEF Next

\* Every behaviour of the page stack is one of the abstract allocator: no
\* page has two holders, and nullptr is returned only when none is free.
THEOREM Implements == Spec => AllocatorSpec
<1>1. Init => Abstract!Init
  BY InitScanned DEF Init, Abstract!Init, Unheld
<1>. QED
  BY <1>1, InitIInv, StepIInv, StepImplements, PTL DEF Spec, AllocatorSpec, Abstract!Spec

-----------------------------------------------------------------------------
(* Page numbers and their indices.                                         *)

\* Quotients and remainders are what division leaves.
LEMMA DivisionIs ==
  ASSUME NEW a \in Nat, NEW b \in Nat \ {0}
  PROVE  \E q \in Nat, r \in 0 .. b - 1 : q = a \div b /\ r = a % b /\ a = q * b + r
<1>1. /\ a \div b \in Nat /\ a % b \in 0 .. b - 1
  OBVIOUS
<1>2. PICK d \in Nat, m \in 0 .. b - 1 : d = a \div b /\ m = a % b
  BY <1>1
<1>3. PICK p \in Int : p = b * d
  OBVIOUS
<1>4. a = p + m
  BY <1>2, <1>3
<1>5. a = d * b + m
  BY <1>3, <1>4
<1>. QED
  BY <1>2, <1>5

LEMMA ProductOrder ==
  ASSUME NEW b \in Nat, NEW x \in Nat, NEW y \in Nat, x < y
  PROVE  x * b + b <= y * b
<1>1. PICK z \in Nat : y = x + 1 + z
  <2>1. y - (x + 1) \in Nat /\ y = x + 1 + (y - (x + 1))
    OBVIOUS
  <2>. QED
    BY <2>1
<1>2. z * b \in Nat
  OBVIOUS
<1>3. y * b = x * b + b + z * b
  BY <1>1
<1>. QED
  BY <1>2, <1>3

LEMMA DivisionUnique ==
  ASSUME NEW b \in Nat \ {0}, NEW p \in Nat, NEW q \in Nat, NEW r \in 0 .. b - 1,
         NEW s \in 0 .. b - 1, p * b + r = q * b + s
  PROVE  p = q /\ r = s
<1>1. p * b \in Nat /\ q * b \in Nat
  OBVIOUS
<1>2. ~(p < q)
  <2>1. p < q => p * b + b <= q * b
    BY ProductOrder
  <2>. QED
    BY <1>1, <2>1
<1>3. ~(q < p)
  <2>1. q < p => q * b + b <= p * b
    BY ProductOrder
  <2>. QED
    BY <1>1, <2>1
<1>4. p = q
  BY <1>2, <1>3
<1>. QED
  BY <1>1, <1>4

\* Dividing by a product is dividing twice.
LEMMA DivideTwice ==
  ASSUME NEW v \in Nat, NEW s \in Nat \ {0}, NEW f \in Nat \ {0}
  PROVE  (v \div s) \div f = v \div (s * f)
<1>1. PICK q \in Nat, r \in 0 .. s - 1 : q = v \div s /\ v = q * s + r
  BY DivisionIs
<1>2. PICK p \in Nat, t \in 0 .. f - 1 : p = q \div f /\ q = p * f + t
  BY DivisionIs
<1>3. s * f \in Nat \ {0}
  <2>1. 0 * f + f <= s * f
    BY ProductOrder
  <2>. QED
    BY <2>1
<1>4. t * s + r \in 0 .. s * f - 1
  <2>1. t * s + s <= f * s
    BY ProductOrder
  <2>2. t * s \in Nat /\ f * s = s * f
    OBVIOUS
  <2>. QED
    BY <2>1, <2>2
<1>5. v = p * (s * f) + (t * s + r)
  <2>1. q * s = (p * f) * s + t * s
    BY <1>2
  <2>2. (p * f) * s = p * (s * f)
    OBVIOUS
  <2>. QED
    BY <1>1, <2>1, <2>2
<1>6. PICK x \in Nat, y \in 0 .. s * f - 1 : x = v \div (s * f) /\ v = x * (s * f) + y
  BY <1>3, DivisionIs
<1>7. p = x
  BY <1>3, <1>4, <1>5, <1>6, DivisionUnique
<1>. QED
  BY <1>1, <1>2, <1>6, <1>7

LEMMA SpanIs ==
  /\ Fanout \in Nat \ {0} /\ Numbers = Span[4] * Fanout
  /\ \A l \in 1 .. 4 : Span[l] \in Nat \ {0}
  /\ \A l \in 1 .. 3 : Span[l + 1] = Span[l] * Fanout
  /\ Numbers \in Nat \ {0}
<1>1. Fanout \in Nat \ {0}
  BY PagingAssumption
<1>2. ASSUME NEW x \in Nat \ {0} PROVE x * Fanout \in Nat \ {0}
  <2>1. 0 * Fanout + Fanout <= x * Fanout
    BY <1>1, ProductOrder
  <2>. QED
    BY <1>1, <2>1
<1>3. Fanout * Fanout \in Nat \ {0} /\ Fanout * Fanout * Fanout \in Nat \ {0}
  BY <1>1, <1>2
<1>4. Span[1] = 1 /\ Span[2] = Fanout /\ Span[3] = Fanout * Fanout /\ Span[4] = Fanout * Fanout * Fanout
  BY DEF Span
<1>5. \A l \in 1 .. 4 : Span[l] \in Nat \ {0}
  BY <1>1, <1>3, <1>4
<1>6. \A l \in 1 .. 3 : Span[l + 1] = Span[l] * Fanout
  BY <1>1, <1>4
<1>7. Numbers \in Nat \ {0}
  BY <1>2, <1>5 DEF Numbers
<1>. QED
  BY <1>1, <1>5, <1>6, <1>7 DEF Numbers

\* What the entries for page v in a table of that level have for upper
\* indices, and what the table has.
Upper(v, level) == v \div Span[level]
Above(v, level) == v \div (Span[level] * Fanout)

LEMMA IndexIs ==
  ASSUME NEW v \in Nat, NEW l \in 1 .. 4
  PROVE  /\ IndexOf(v, l) \in Index /\ Upper(v, l) \in Nat /\ Above(v, l) \in Nat
         /\ Upper(v, l) = Above(v, l) * Fanout + IndexOf(v, l)
<1>1. Span[l] \in Nat \ {0} /\ Fanout \in Nat \ {0} /\ Span[l] * Fanout \in Nat \ {0}
  BY SpanIs
<1>2. PICK q \in Nat, r \in 0 .. Span[l] - 1 : q = v \div Span[l]
  BY <1>1, DivisionIs
<1>3. PICK p \in Nat, t \in 0 .. Fanout - 1 : p = q \div Fanout /\ t = q % Fanout /\ q = p * Fanout + t
  BY <1>1, DivisionIs
<1>4. p = v \div (Span[l] * Fanout)
  BY <1>1, <1>2, <1>3, DivideTwice
<1>. QED
  BY <1>2, <1>3, <1>4 DEF IndexOf, Index, Upper, Above

LEMMA UpperOne == ASSUME NEW v \in Nat PROVE Upper(v, 1) = v
<1>1. PICK q \in Nat, r \in 0 .. 0 : q = v \div 1 /\ v = q * 1 + r
  BY DivisionIs
<1>. QED
  BY <1>1 DEF Upper, Span

\* What leads to the table below is what the table below is for.
LEMMA AboveBelow ==
  ASSUME NEW v \in Nat, NEW l \in 2 .. 4
  PROVE  Above(v, l - 1) = Upper(v, l)
<1>1. PICK k \in 1 .. 3 : k = l - 1 /\ l = k + 1
  OBVIOUS
<1>2. Span[k + 1] = Span[k] * Fanout
  BY SpanIs
<1>. QED
  BY <1>1, <1>2 DEF Above, Upper

LEMMA AboveTop == ASSUME NEW v \in Nat, v < Numbers PROVE Above(v, 4) = 0
<1>1. PICK n \in Nat \ {0} : n = Numbers
  BY SpanIs
<1>2. PICK q \in Nat, r \in 0 .. n - 1 : q = v \div n /\ v = q * n + r
  BY DivisionIs
<1>3. v \in 0 .. n - 1 /\ q * n + r = 0 * n + v
  BY <1>1, <1>2
<1>4. q = 0
  BY <1>3, DivisionUnique
<1>. QED
  BY <1>1, <1>2, <1>4, SpanIs DEF Above

\* The page within the part of memory an entry stands for.
LEMMA OffsetIs ==
  ASSUME NEW v \in Nat, NEW l \in 1 .. 4, NEW n, n = Upper(v, l) * Span[l]
  PROVE  n + (v % Span[l]) = v
<1>1. PICK s \in Nat \ {0} : s = Span[l]
  BY SpanIs
<1>2. PICK q \in Nat, r \in 0 .. s - 1 : q = v \div s /\ r = v % s /\ v = q * s + r
  BY DivisionIs
<1>3. Upper(v, l) = q /\ v % Span[l] = r
  BY <1>1, <1>2 DEF Upper
<1>4. n = q * s
  BY <1>1, <1>3
<1>. QED
  BY <1>2, <1>3, <1>4

-----------------------------------------------------------------------------
(* Where an address leads.                                                 *)

E4(v) == tables[CR3][IndexOf(v, 4)]
E3(v) == tables[E4(v).frame][IndexOf(v, 3)]
E2(v) == tables[E3(v).frame][IndexOf(v, 2)]
E1(v) == tables[E2(v).frame][IndexOf(v, 1)]

\* The table of a level that is looked at for page v, and whether there is one.
TableFor(v, level) == IF level = 4 THEN CR3
                      ELSE IF level = 3 THEN E4(v).frame
                      ELSE IF level = 2 THEN E3(v).frame ELSE E2(v).frame

HasTable(v, level) == /\ level < 4 => E4(v).present
                      /\ level < 3 => E3(v).present /\ ~E3(v).huge
                      /\ level < 2 => E2(v).present /\ ~E2(v).huge

Mapped(v) == \/ HasTable(v, 3) /\ E3(v).present /\ E3(v).huge
             \/ HasTable(v, 2) /\ E2(v).present /\ E2(v).huge
             \/ HasTable(v, 1) /\ E1(v).present

Number == 0 .. Numbers - 1

TablesType == tables \in [DOMAIN tables -> [Index -> EntryType]]

LEMMA NumberType == Number \subseteq Nat /\ \A v \in Number : v < Numbers
BY SpanIs DEF Number

LEMMA LevelType == 1 \in 1 .. 4 /\ 2 \in 1 .. 4 /\ 3 \in 1 .. 4 /\ 4 \in 1 .. 4
OBVIOUS

\* Where an entry for page v in the table of a level leads, if it is present.
Leads(tbls, place, v, l, e) ==
  \/ l = 1 /\ e.frame = v
  \/ l \in {2, 3} /\ e.huge /\ e.frame = Upper(v, l) * Span[l]
  \/ /\ l = 4 \/ (l \in {2, 3} /\ ~e.huge)
     /\ e.frame \in DOMAIN tbls /\ place[e.frame] = [level |-> l - 1, upper |-> Above(v, l - 1)]

\* One step down.
LEMMA Below ==
  ASSUME NEW tbls, NEW place, WellPlaced(tbls, place), NEW v \in Nat, NEW l \in 1 .. 4,
         NEW t \in DOMAIN tbls, place[t] = [level |-> l, upper |-> Above(v, l)],
         NEW e, e = tbls[t][IndexOf(v, l)], e.present
  PROVE  Leads(tbls, place, v, l, e)
<1>1. PICK i, n : i \in Index /\ i = IndexOf(v, l) /\ n = Upper(v, l)
  BY IndexIs
<1>2. n = Above(v, l) * Fanout + i
  BY <1>1, IndexIs
<1>3. place[t].level = l /\ place[t].upper = Above(v, l)
  OBVIOUS
<1>4. n = place[t].upper * Fanout + i /\ e = tbls[t][i]
  BY <1>1, <1>2, <1>3
<1>5. \/ l = 1 /\ e.frame = n
      \/ l \in {2, 3} /\ e.huge /\ e.frame = n * Span[l]
      \/ /\ l = 4 \/ (l \in {2, 3} /\ ~e.huge)
         /\ e.frame \in DOMAIN tbls /\ place[e.frame] = [level |-> l - 1, upper |-> n]
  <2>1. EntryPlaced(tbls, place, t, i)
    BY <1>1 DEF WellPlaced
  <2>. QED
    BY <1>3, <1>4, <2>1 DEF EntryPlaced
<1>6. l = 1 => n = v
  BY <1>1, UpperOne
<1>7. l \in {2, 3, 4} => Above(v, l - 1) = n
  <2>1. l \in {2, 3, 4} => l \in 2 .. 4
    OBVIOUS
  <2>. QED
    BY <1>1, <2>1, AboveBelow
<1>8. CASE l = 1
  BY <1>5, <1>6, <1>8 DEF Leads
<1>9. CASE l \in {2, 3} /\ e.huge
  BY <1>1, <1>5, <1>9 DEF Leads
<1>10. CASE l = 4 \/ (l \in {2, 3} /\ ~e.huge)
  BY <1>5, <1>7, <1>10 DEF Leads
<1>. QED
  BY <1>8, <1>9, <1>10

\* The table found for a page is the one for its upper indices.
PathPlaced(place, v) ==
  /\ CR3 \in DOMAIN tables /\ place[CR3] = [level |-> 4, upper |-> Above(v, 4)]
  /\ HasTable(v, 3) => /\ E4(v).frame \in DOMAIN tables
                       /\ place[E4(v).frame] = [level |-> 3, upper |-> Above(v, 3)]
  /\ HasTable(v, 2) => /\ E3(v).frame \in DOMAIN tables
                       /\ place[E3(v).frame] = [level |-> 2, upper |-> Above(v, 2)]
  /\ HasTable(v, 1) => /\ E2(v).frame \in DOMAIN tables
                       /\ place[E2(v).frame] = [level |-> 1, upper |-> Above(v, 1)]

LEMMA TablesAre ==
  ASSUME NEW place, WellPlaced(tables, place), NEW v \in Number
  PROVE  PathPlaced(place, v)
<1>1. v \in Nat /\ v < Numbers
  BY NumberType
<1>2. CR3 \in DOMAIN tables /\ place[CR3] = [level |-> 4, upper |-> Above(v, 4)]
  BY <1>1, AboveTop DEF WellPlaced
<1>3. ASSUME HasTable(v, 3)
      PROVE  /\ E4(v).frame \in DOMAIN tables
             /\ place[E4(v).frame] = [level |-> 3, upper |-> Above(v, 3)]
  <2>1. PICK e : e = E4(v)
    OBVIOUS
  <2>2. e = tables[CR3][IndexOf(v, 4)] /\ e.present
    BY <1>3, <2>1 DEF E4, HasTable
  <2>3. Leads(tables, place, v, 4, e)
    BY <1>1, <1>2, <2>2, LevelType, Below, Zenon
  <2>. QED
    BY <2>1, <2>3 DEF Leads
<1>4. ASSUME HasTable(v, 2)
      PROVE  /\ E3(v).frame \in DOMAIN tables
             /\ place[E3(v).frame] = [level |-> 2, upper |-> Above(v, 2)]
  <2>1. PICK e : e = E3(v)
    OBVIOUS
  <2>2. PICK t : t = E4(v).frame
    OBVIOUS
  <2>3. t \in DOMAIN tables /\ place[t] = [level |-> 3, upper |-> Above(v, 3)]
    BY <1>3, <1>4, <2>2 DEF HasTable
  <2>4. e = tables[t][IndexOf(v, 3)] /\ e.present /\ ~e.huge
    BY <1>4, <2>1, <2>2 DEF E3, HasTable
  <2>5. Leads(tables, place, v, 3, e)
    BY <1>1, <2>3, <2>4, LevelType, Below, Zenon
  <2>. QED
    BY <2>1, <2>4, <2>5 DEF Leads
<1>5. ASSUME HasTable(v, 1)
      PROVE  /\ E2(v).frame \in DOMAIN tables
             /\ place[E2(v).frame] = [level |-> 1, upper |-> Above(v, 1)]
  <2>1. PICK e : e = E2(v)
    OBVIOUS
  <2>2. PICK t : t = E3(v).frame
    OBVIOUS
  <2>3. t \in DOMAIN tables /\ place[t] = [level |-> 2, upper |-> Above(v, 2)]
    BY <1>4, <1>5, <2>2 DEF HasTable
  <2>4. e = tables[t][IndexOf(v, 2)] /\ e.present /\ ~e.huge
    BY <1>5, <2>1, <2>2 DEF E2, HasTable
  <2>5. Leads(tables, place, v, 2, e)
    BY <1>1, <2>3, <2>4, LevelType, Below, Zenon
  <2>. QED
    BY <2>1, <2>4, <2>5 DEF Leads
<1>. QED
  BY <1>2, <1>3, <1>4, <1>5 DEF PathPlaced

TableIs(place, v, l) == /\ TableFor(v, l) \in DOMAIN tables
                        /\ place[TableFor(v, l)] = [level |-> l, upper |-> Above(v, l)]

LEMMA TableForIs ==
  ASSUME NEW place, WellPlaced(tables, place), NEW v \in Number, NEW l \in 1 .. 4, HasTable(v, l)
  PROVE  TableIs(place, v, l)
<1>. PathPlaced(place, v)
  BY TablesAre, Zenon
<1>1. CASE l = 4
  BY <1>1 DEF PathPlaced, TableFor, TableIs
<1>2. CASE l = 3
  BY <1>2 DEF PathPlaced, TableFor, TableIs
<1>3. CASE l = 2
  BY <1>3 DEF PathPlaced, TableFor, TableIs
<1>4. CASE l = 1
  BY <1>4 DEF PathPlaced, TableFor, TableIs
<1>. QED
  BY <1>1, <1>2, <1>3, <1>4

\* Memory is mapped to itself or not at all.
LEMMA TranslateIs ==
  ASSUME NEW place, WellPlaced(tables, place), NEW v \in Number
  PROVE  Translate(v) = IF Mapped(v) THEN v ELSE Unmapped
<1>. PathPlaced(place, v)
  BY TablesAre, Zenon
<1>1. v \in Nat
  BY NumberType
<1>2. Translate(v) = IF ~E4(v).present \/ ~E3(v).present THEN Unmapped
                     ELSE IF E3(v).huge THEN E3(v).frame + (v % Span[3])
                     ELSE IF ~E2(v).present THEN Unmapped
                     ELSE IF E2(v).huge THEN E2(v).frame + (v % Span[2])
                     ELSE IF E1(v).present THEN E1(v).frame ELSE Unmapped
  BY DEF Translate, E4, E3, E2, E1
<1>3. ASSUME HasTable(v, 3), E3(v).present, E3(v).huge
      PROVE  E3(v).frame + (v % Span[3]) = v
  <2>1. PICK e, t : e = E3(v) /\ t = E4(v).frame
    OBVIOUS
  <2>2. t \in DOMAIN tables /\ place[t] = [level |-> 3, upper |-> Above(v, 3)]
    BY <1>3, <2>1 DEF PathPlaced
  <2>3. e = tables[t][IndexOf(v, 3)] /\ e.present /\ e.huge
    BY <1>3, <2>1 DEF E3
  <2>4. Leads(tables, place, v, 3, e)
    BY <1>1, <2>2, <2>3, LevelType, Below, Zenon
  <2>5. e.frame = Upper(v, 3) * Span[3]
    BY <2>3, <2>4 DEF Leads
  <2>. QED
    BY <1>1, <2>1, <2>5, OffsetIs
<1>4. ASSUME HasTable(v, 2), E2(v).present, E2(v).huge
      PROVE  E2(v).frame + (v % Span[2]) = v
  <2>1. PICK e, t : e = E2(v) /\ t = E3(v).frame
    OBVIOUS
  <2>2. t \in DOMAIN tables /\ place[t] = [level |-> 2, upper |-> Above(v, 2)]
    BY <1>4, <2>1 DEF PathPlaced
  <2>3. e = tables[t][IndexOf(v, 2)] /\ e.present /\ e.huge
    BY <1>4, <2>1 DEF E2
  <2>4. Leads(tables, place, v, 2, e)
    BY <1>1, <2>2, <2>3, LevelType, Below, Zenon
  <2>5. e.frame = Upper(v, 2) * Span[2]
    BY <2>3, <2>4 DEF Leads
  <2>. QED
    BY <1>1, <2>1, <2>5, OffsetIs
<1>5. ASSUME HasTable(v, 1), E1(v).present
      PROVE  E1(v).frame = v
  <2>1. PICK e, t : e = E1(v) /\ t = E2(v).frame
    OBVIOUS
  <2>2. t \in DOMAIN tables /\ place[t] = [level |-> 1, upper |-> Above(v, 1)]
    BY <1>5, <2>1 DEF PathPlaced
  <2>3. e = tables[t][IndexOf(v, 1)] /\ e.present
    BY <1>5, <2>1 DEF E1
  <2>4. Leads(tables, place, v, 1, e)
    BY <1>1, <2>2, <2>3, LevelType, Below, Zenon
  <2>. QED
    BY <2>1, <2>4 DEF Leads
<1>6. CASE HasTable(v, 3) /\ E3(v).present /\ E3(v).huge
  <2>1. Mapped(v) /\ E4(v).present
    BY <1>6 DEF Mapped, HasTable
  <2>. QED
    BY <1>2, <1>3, <1>6, <2>1, Zenon
<1>7. CASE HasTable(v, 2) /\ E2(v).present /\ E2(v).huge
  <2>1. Mapped(v) /\ E4(v).present /\ E3(v).present /\ ~E3(v).huge
    BY <1>7 DEF Mapped, HasTable
  <2>. QED
    BY <1>2, <1>4, <1>7, <2>1, Zenon
<1>8. CASE HasTable(v, 1) /\ E1(v).present
  <2>1. Mapped(v) /\ E4(v).present /\ E3(v).present /\ ~E3(v).huge /\ E2(v).present /\ ~E2(v).huge
    BY <1>8 DEF Mapped, HasTable
  <2>. QED
    BY <1>2, <1>5, <1>8, <2>1, Zenon
<1>9. CASE ~Mapped(v)
  <2>1. \/ ~E4(v).present \/ ~E3(v).present
        \/ E4(v).present /\ E3(v).present /\ ~E3(v).huge /\ ~E2(v).present
        \/ /\ E4(v).present /\ E3(v).present /\ ~E3(v).huge
           /\ E2(v).present /\ ~E2(v).huge /\ ~E1(v).present
    BY <1>9 DEF Mapped, HasTable
  <2>. QED
    BY <1>2, <1>9, <2>1, Zenon
<1>. QED
  BY <1>6, <1>7, <1>8, <1>9 DEF Mapped
-----------------------------------------------------------------------------
(* A table that is made.                                                   *)

PlacesOK == \E place : WellPlaced(tables, place)

\* One entry that was not present now leads to table r, which is empty.
TableAdded(place, t, i, r) ==
  /\ t \in DOMAIN tables /\ i \in Index /\ ~tables[t][i].present
  /\ place[t].level \in 2 .. 4 /\ r \notin DOMAIN tables
  /\ tables' = [u \in DOMAIN tables \cup {r} |->
                  IF u = r THEN Cleared(r)
                  ELSE IF u = t THEN [tables[t] EXCEPT ![i] = Present(r)]
                  ELSE tables[u]]

\* What it does to the entries.
EntriesAdded(t, i, r) ==
  /\ TablesType'
  /\ DOMAIN tables' = DOMAIN tables \cup {r}
  /\ \A j \in Index : tables'[r][j] = NoEntry
  /\ tables'[t][i] = Present(r)
  /\ \A u \in DOMAIN tables : \A j \in Index :
       (u # t \/ j # i) => tables'[u][j] = tables[u][j]

LEMMA AddedEntries ==
  ASSUME NEW place, TablesType, NEW t, NEW i, NEW r, r \in Nat, TableAdded(place, t, i, r)
  PROVE  EntriesAdded(t, i, r)
<1>1. DOMAIN tables' = DOMAIN tables \cup {r} /\ t # r
  BY DEF TableAdded
<1>2. \A j \in Index : tables'[r][j] = NoEntry
  BY DEF TableAdded, Cleared
<1>3. tables[t] \in [Index -> EntryType]
  BY DEF TableAdded, TablesType
<1>4. tables'[t] = [tables[t] EXCEPT ![i] = Present(r)]
  BY <1>1 DEF TableAdded
<1>5. tables'[t][i] = Present(r) /\ \A j \in Index : j # i => tables'[t][j] = tables[t][j]
  BY <1>3, <1>4 DEF TableAdded
<1>6. \A u \in DOMAIN tables : u # t => tables'[u] = tables[u]
  BY <1>1 DEF TableAdded
<1>7. Present(r) \in EntryType /\ NoEntry \in EntryType
  BY DEF Present, NoEntry, EntryType
<1>8. tables'[t] \in [Index -> EntryType]
  BY <1>3, <1>4, <1>7
<1>9. tables'[r] = Cleared(r) /\ Cleared(r) \in [Index -> EntryType]
  BY <1>1, <1>7 DEF TableAdded, Cleared
<1>10. \A u \in DOMAIN tables' : tables'[u] \in [Index -> EntryType]
  BY <1>1, <1>6, <1>8, <1>9 DEF TablesType
<1>11. tables' = [u \in DOMAIN tables' |-> tables'[u]]
  BY DEF TableAdded
<1>12. TablesType'
  BY <1>10, <1>11 DEF TablesType
<1>. QED
  BY <1>1, <1>2, <1>5, <1>6, <1>12 DEF EntriesAdded

\* Every table keeps its place, and the new one has one.
LEMMA AddedPlaces ==
  ASSUME NEW place, WellPlaced(tables, place), TablesType,
         NEW t, NEW i, NEW r, r \in Nat, TableAdded(place, t, i, r)
  PROVE  PlacesOK'
<1>. EntriesAdded(t, i, r)
  BY AddedEntries, Zenon
<1>1. PICK l, n : l \in 2 .. 4 /\ l = place[t].level /\ n = place[t].upper * Fanout + i
  BY DEF TableAdded
<1>2. n \in Nat
  <2>1. PICK a \in Nat : a = place[t].upper
    BY DEF TableAdded, WellPlaced
  <2>2. a * Fanout \in Nat /\ i \in Nat
    BY SpanIs DEF TableAdded, Index
  <2>. QED
    BY <1>1, <2>1, <2>2
<1>3. PICK place2 : place2 = [u \in DOMAIN tables \cup {r} |->
                                IF u = r THEN [level |-> l - 1, upper |-> n] ELSE place[u]]
  OBVIOUS
<1>4. place2[r] = [level |-> l - 1, upper |-> n] /\ \A u \in DOMAIN tables : place2[u] = place[u]
  BY <1>3 DEF TableAdded
<1>5. place2 \in [DOMAIN tables' -> [level : 1 .. 4, upper : Nat]]
  <2>1. [level |-> l - 1, upper |-> n] \in [level : 1 .. 4, upper : Nat]
    BY <1>1, <1>2
  <2>2. \A u \in DOMAIN tables : place[u] \in [level : 1 .. 4, upper : Nat]
    BY DEF WellPlaced
  <2>. QED
    BY <1>3, <2>1, <2>2 DEF EntriesAdded
<1>6. CR3 \in DOMAIN tables' /\ place2[CR3] = [level |-> 4, upper |-> 0]
  BY <1>4 DEF EntriesAdded, WellPlaced
<1>7. ASSUME NEW u \in DOMAIN tables', NEW j \in Index
      PROVE  EntryPlaced(tables', place2, u, j)
  <2>1. CASE u = r
    BY <2>1 DEF EntriesAdded, EntryPlaced, NoEntry
  <2>2. CASE u = t /\ j = i
    <3>1. tables'[u][j] = Present(r) /\ r \in DOMAIN tables'
      BY <2>2 DEF EntriesAdded
    <3>2. place2[u].level = l /\ place2[u].upper * Fanout + j = n
      BY <1>1, <1>4, <2>2 DEF TableAdded
    <3>3. Present(r).frame = r /\ ~Present(r).huge
      BY DEF Present
    <3>4. l = 4 \/ l \in {2, 3}
      BY <1>1
    <3>. QED
      BY <1>4, <3>1, <3>2, <3>3, <3>4 DEF EntryPlaced
  <2>3. CASE u \in DOMAIN tables /\ (u # t \/ j # i)
    <3>1. tables'[u][j] = tables[u][j] /\ place2[u] = place[u] /\ DOMAIN tables \subseteq DOMAIN tables'
      BY <1>4, <2>3 DEF EntriesAdded
    <3>2. EntryPlaced(tables, place, u, j)
      BY <2>3 DEF WellPlaced
    <3>3. PICK e, le, m : e = tables[u][j] /\ le = place[u].level /\ m = place[u].upper * Fanout + j
      OBVIOUS
    <3>4. e.present =>
             \/ le = 1 /\ e.frame = m
             \/ le \in {2, 3} /\ e.huge /\ e.frame = m * Span[le]
             \/ /\ le = 4 \/ (le \in {2, 3} /\ ~e.huge)
                /\ e.frame \in DOMAIN tables /\ place[e.frame] = [level |-> le - 1, upper |-> m]
      BY <3>2, <3>3 DEF EntryPlaced
    <3>5. e.present =>
             \/ le = 1 /\ e.frame = m
             \/ le \in {2, 3} /\ e.huge /\ e.frame = m * Span[le]
             \/ /\ le = 4 \/ (le \in {2, 3} /\ ~e.huge)
                /\ e.frame \in DOMAIN tables' /\ place2[e.frame] = [level |-> le - 1, upper |-> m]
      BY <1>4, <3>1, <3>4
    <3>6. e = tables'[u][j] /\ le = place2[u].level /\ m = place2[u].upper * Fanout + j
      BY <3>1, <3>3
    <3>. QED
      BY <3>5, <3>6 DEF EntryPlaced
  <2>. QED
    BY <2>1, <2>2, <2>3 DEF EntriesAdded
<1>8. WellPlaced(tables', place2)
  BY <1>5, <1>6, <1>7 DEF WellPlaced
<1>. QED
  BY <1>8 DEF PlacesOK

\* Nothing is mapped or unmapped by it: the new table is empty.
MappingKept == \A v \in Number : Mapped(v)' <=> Mapped(v)

LEMMA AddedMapping ==
  ASSUME NEW place, WellPlaced(tables, place), TablesType,
         NEW t, NEW i, NEW r, r \in Nat, TableAdded(place, t, i, r)
  PROVE  MappingKept
<1>. EntriesAdded(t, i, r)
  BY AddedEntries, Zenon
<1>. SUFFICES ASSUME NEW v \in Number PROVE Mapped(v)' <=> Mapped(v)
  BY DEF MappingKept
<1>. PathPlaced(place, v)
  BY TablesAre, Zenon
<1>. PICK i4, i3, i2, i1 : /\ i4 = IndexOf(v, 4) /\ i3 = IndexOf(v, 3)
                           /\ i2 = IndexOf(v, 2) /\ i1 = IndexOf(v, 1)
  OBVIOUS
<1>1. i4 \in Index /\ i3 \in Index /\ i2 \in Index /\ i1 \in Index
  BY NumberType, LevelType, IndexIs
<1>. PICK e4, e3, e2, e1 : e4 = E4(v) /\ e3 = E3(v) /\ e2 = E2(v) /\ e1 = E1(v)
  OBVIOUS
<1>. PICK f4, f3, f2, f1 : f4 = E4(v)' /\ f3 = E3(v)' /\ f2 = E2(v)' /\ f1 = E1(v)'
  OBVIOUS
<1>2. /\ e4 = tables[CR3][i4] /\ e3 = tables[e4.frame][i3]
      /\ e2 = tables[e3.frame][i2] /\ e1 = tables[e2.frame][i1]
  BY DEF E4, E3, E2, E1
<1>3. /\ f4 = tables'[CR3][i4] /\ f3 = tables'[f4.frame][i3]
      /\ f2 = tables'[f3.frame][i2] /\ f1 = tables'[f2.frame][i1]
  BY DEF E4, E3, E2, E1
<1>4. /\ Present(r).present /\ Present(r).frame = r /\ ~Present(r).huge /\ ~NoEntry.present
  BY DEF Present, NoEntry
<1>5. /\ CR3 \in DOMAIN tables
      /\ e4.present => e4.frame \in DOMAIN tables
      /\ e4.present /\ e3.present /\ ~e3.huge => e3.frame \in DOMAIN tables
      /\ e4.present /\ e3.present /\ ~e3.huge /\ e2.present /\ ~e2.huge =>
            e2.frame \in DOMAIN tables /\ place[e2.frame].level = 1
  BY DEF PathPlaced, HasTable
<1>6. Mapped(v) <=> /\ e4.present /\ e3.present
                    /\ e3.huge \/ (e2.present /\ (e2.huge \/ e1.present))
  BY DEF Mapped, HasTable
<1>7. Mapped(v)' <=> /\ f4.present /\ f3.present
                     /\ f3.huge \/ (f2.present /\ (f2.huge \/ f1.present))
  BY DEF Mapped, HasTable
<1>8. \A u \in DOMAIN tables : \A j \in Index :
         \/ tables'[u][j] = tables[u][j]
         \/ ~tables[u][j].present /\ tables'[u][j] = Present(r)
  BY DEF EntriesAdded, TableAdded
<1>9. \A j \in Index : ~tables'[r][j].present
  BY <1>4 DEF EntriesAdded
<1>10. f4 = e4 \/ (~e4.present /\ f4 = Present(r))
  <2>1. CR3 \in DOMAIN tables /\ f4 = tables'[CR3][i4] /\ e4 = tables[CR3][i4]
    BY <1>2, <1>3, <1>5
  <2>. QED
    BY <1>1, <1>8, <2>1
<1>11. CASE ~e4.present
  BY <1>1, <1>3, <1>4, <1>6, <1>7, <1>9, <1>10, <1>11
<1>12. CASE e4.present /\ f4 = e4
  <2>1. f3 = e3 \/ (~e3.present /\ f3 = Present(r))
    <3>1. PICK u : u = e4.frame
      OBVIOUS
    <3>2. u \in DOMAIN tables /\ f3 = tables'[u][i3] /\ e3 = tables[u][i3]
      BY <1>2, <1>3, <1>5, <1>12, <3>1
    <3>. QED
      BY <1>1, <1>8, <3>2
  <2>2. CASE ~e3.present
    BY <1>1, <1>3, <1>4, <1>6, <1>7, <1>9, <2>1, <2>2
  <2>3. CASE e3.present /\ f3 = e3 /\ e3.huge
    BY <1>6, <1>7, <1>12, <2>3
  <2>4. CASE e3.present /\ f3 = e3 /\ ~e3.huge
    <3>1. f2 = e2 \/ (~e2.present /\ f2 = Present(r))
      <4>1. PICK u : u = e3.frame
        OBVIOUS
      <4>2. u \in DOMAIN tables /\ f2 = tables'[u][i2] /\ e2 = tables[u][i2]
        BY <1>2, <1>3, <1>5, <1>12, <2>4, <4>1
      <4>. QED
        BY <1>1, <1>8, <4>2
    <3>2. CASE ~e2.present
      BY <1>1, <1>3, <1>4, <1>6, <1>7, <1>9, <2>4, <3>1, <3>2
    <3>3. CASE e2.present /\ f2 = e2 /\ e2.huge
      BY <1>6, <1>7, <1>12, <2>4, <3>3
    <3>4. CASE e2.present /\ f2 = e2 /\ ~e2.huge
      <4>1. e2.frame \in DOMAIN tables /\ e2.frame # t
        BY <1>5, <1>12, <2>4, <3>4 DEF TableAdded
      <4>2. f1 = e1
        <5>1. PICK u : u = e2.frame
          OBVIOUS
        <5>2. u \in DOMAIN tables /\ u # t /\ f1 = tables'[u][i1] /\ e1 = tables[u][i1]
          BY <1>2, <1>3, <3>4, <4>1, <5>1
        <5>. QED
          BY <1>1, <5>2 DEF EntriesAdded
      <4>. QED
        BY <1>6, <1>7, <1>12, <2>4, <3>4, <4>2
    <3>. QED
      BY <3>1, <3>2, <3>3, <3>4
  <2>. QED
    BY <2>1, <2>2, <2>3, <2>4
<1>. QED
  BY <1>10, <1>11, <1>12

\* The table that was missing on the way to a page is there afterwards.
Arrives(v, l, r) == HasTable(v, l)' /\ TableFor(v, l)' = r

LEMMA AddedPath ==
  ASSUME NEW place, WellPlaced(tables, place), TablesType, NEW v \in Number,
         NEW l \in 2 .. 4, HasTable(v, l), NEW r, r \in Nat,
         TableAdded(place, TableFor(v, l), IndexOf(v, l), r)
  PROVE  Arrives(v, l - 1, r)
<1>. EntriesAdded(TableFor(v, l), IndexOf(v, l), r)
  BY AddedEntries, Zenon
<1>. PathPlaced(place, v)
  BY TablesAre, Zenon
<1>. PICK i4, i3, i2 : i4 = IndexOf(v, 4) /\ i3 = IndexOf(v, 3) /\ i2 = IndexOf(v, 2)
  OBVIOUS
<1>1. i4 \in Index /\ i3 \in Index /\ i2 \in Index
  BY NumberType, LevelType, IndexIs
<1>. PICK e4, e3, e2 : e4 = E4(v) /\ e3 = E3(v) /\ e2 = E2(v)
  OBVIOUS
<1>. PICK f4, f3, f2 : f4 = E4(v)' /\ f3 = E3(v)' /\ f2 = E2(v)'
  OBVIOUS
<1>2. e4 = tables[CR3][i4] /\ e3 = tables[e4.frame][i3] /\ e2 = tables[e3.frame][i2]
  BY DEF E4, E3, E2
<1>3. f4 = tables'[CR3][i4] /\ f3 = tables'[f4.frame][i3] /\ f2 = tables'[f3.frame][i2]
  BY DEF E4, E3, E2
<1>4. Present(r).present /\ Present(r).frame = r /\ ~Present(r).huge
  BY DEF Present
<1>5. \A u \in DOMAIN tables : \A j \in Index :
         tables[u][j].present => tables'[u][j] = tables[u][j]
  BY DEF EntriesAdded, TableAdded
<1>6. CASE l = 4
  <2>1. f4 = Present(r)
    BY <1>3, <1>6 DEF EntriesAdded, TableFor
  <2>. QED
    BY <1>4, <1>6, <2>1 DEF Arrives, HasTable, TableFor
<1>7. CASE l = 3
  <2>1. e4.present /\ CR3 \in DOMAIN tables
    BY <1>7 DEF PathPlaced, HasTable
  <2>2. f4 = e4
    BY <1>1, <1>2, <1>3, <1>5, <2>1
  <2>3. f3 = Present(r)
    BY <1>3, <1>7, <2>2 DEF EntriesAdded, TableFor
  <2>. QED
    BY <1>4, <1>7, <2>1, <2>2, <2>3 DEF Arrives, HasTable, TableFor
<1>8. CASE l = 2
  <2>1. /\ e4.present /\ CR3 \in DOMAIN tables /\ HasTable(v, 3)
        /\ e3.present /\ ~e3.huge
    BY <1>8 DEF PathPlaced, HasTable
  <2>2. e4.frame \in DOMAIN tables
    BY <2>1 DEF PathPlaced
  <2>3. f4 = e4
    BY <1>1, <1>2, <1>3, <1>5, <2>1
  <2>4. f3 = e3
    BY <1>1, <1>2, <1>3, <1>5, <2>1, <2>2, <2>3
  <2>5. f2 = Present(r)
    BY <1>3, <1>8, <2>4 DEF EntriesAdded, TableFor
  <2>. QED
    BY <1>4, <1>8, <2>1, <2>3, <2>4, <2>5 DEF Arrives, HasTable, TableFor
<1>. QED
  BY <1>6, <1>7, <1>8

-----------------------------------------------------------------------------
(* An entry of a level-1 table that is written.                            *)

LeafWritten(v) ==
  tables' = [tables EXCEPT ![TableFor(v, 1)][IndexOf(v, 1)] = Present(v)]

LeafEffect(v) == /\ TablesType' /\ PlacesOK' /\ Mapped(v)' /\ DOMAIN tables' = DOMAIN tables
                 /\ \A w \in Number : w # v => (Mapped(w)' <=> Mapped(w))

LEMMA WrittenLeaf ==
  ASSUME NEW place, WellPlaced(tables, place), TablesType, NEW v \in Number,
         HasTable(v, 1), LeafWritten(v)
  PROVE  LeafEffect(v)
<1>. PathPlaced(place, v)
  BY TablesAre, Zenon
<1>. PICK t, i : t = TableFor(v, 1) /\ i = IndexOf(v, 1)
  OBVIOUS
<1>1. v \in Nat /\ i \in Index /\ Upper(v, 1) = v
  BY NumberType, LevelType, IndexIs, UpperOne
<1>2. t \in DOMAIN tables /\ place[t] = [level |-> 1, upper |-> Above(v, 1)]
  BY DEF PathPlaced, TableFor
<1>3. /\ DOMAIN tables' = DOMAIN tables /\ tables'[t][i] = Present(v)
      /\ \A u \in DOMAIN tables : \A j \in Index :
            (u # t \/ j # i) => tables'[u][j] = tables[u][j]
  <2>1. tables[t] \in [Index -> EntryType]
    BY <1>2 DEF TablesType
  <2>. QED
    BY <1>1, <1>2, <2>1 DEF LeafWritten, TablesType
<1>4. TablesType'
  <2>1. Present(v) \in EntryType
    BY <1>1 DEF Present, EntryType
  <2>. QED
    BY <1>1, <1>2, <2>1 DEF LeafWritten, TablesType
<1>5. Present(v).present /\ Present(v).frame = v
  BY DEF Present
<1>6. ASSUME NEW u \in DOMAIN tables', NEW j \in Index
      PROVE  EntryPlaced(tables', place, u, j)
  <2>1. CASE u = t /\ j = i
    <3>1. place[u].level = 1 /\ place[u].upper * Fanout + j = Above(v, 1) * Fanout + i
      BY <1>2, <2>1
    <3>2. Above(v, 1) * Fanout + i = v
      BY <1>1, LevelType, IndexIs
    <3>. QED
      BY <1>3, <1>5, <2>1, <3>1, <3>2 DEF EntryPlaced
  <2>2. CASE u # t \/ j # i
    <3>1. tables'[u][j] = tables[u][j] /\ EntryPlaced(tables, place, u, j)
      BY <1>3, <2>2 DEF WellPlaced
    <3>. QED
      BY <1>3, <3>1 DEF EntryPlaced
  <2>. QED
    BY <2>1, <2>2
<1>7. PlacesOK'
  <2>1. WellPlaced(tables', place)
    BY <1>3, <1>6 DEF WellPlaced
  <2>. QED
    BY <2>1 DEF PlacesOK
<1>8. ASSUME NEW w \in Number
      PROVE  /\ w # v => (Mapped(w)' <=> Mapped(w))
             /\ w = v => Mapped(w)'
  <2>. PathPlaced(place, w)
    BY TablesAre, Zenon
  <2>. PICK i4, i3, i2, i1 : /\ i4 = IndexOf(w, 4) /\ i3 = IndexOf(w, 3)
                             /\ i2 = IndexOf(w, 2) /\ i1 = IndexOf(w, 1)
    OBVIOUS
  <2>1. i4 \in Index /\ i3 \in Index /\ i2 \in Index /\ i1 \in Index
    BY NumberType, LevelType, IndexIs
  <2>. PICK e4, e3, e2, e1 : e4 = E4(w) /\ e3 = E3(w) /\ e2 = E2(w) /\ e1 = E1(w)
    OBVIOUS
  <2>. PICK f4, f3, f2, f1 : f4 = E4(w)' /\ f3 = E3(w)' /\ f2 = E2(w)' /\ f1 = E1(w)'
    OBVIOUS
  <2>2. /\ e4 = tables[CR3][i4] /\ e3 = tables[e4.frame][i3]
        /\ e2 = tables[e3.frame][i2] /\ e1 = tables[e2.frame][i1]
    BY DEF E4, E3, E2, E1
  <2>3. /\ f4 = tables'[CR3][i4] /\ f3 = tables'[f4.frame][i3]
        /\ f2 = tables'[f3.frame][i2] /\ f1 = tables'[f2.frame][i1]
    BY DEF E4, E3, E2, E1
  <2>4. /\ CR3 \in DOMAIN tables /\ place[CR3].level = 4
        /\ e4.present => e4.frame \in DOMAIN tables /\ place[e4.frame].level = 3
        /\ e4.present /\ e3.present /\ ~e3.huge =>
              e3.frame \in DOMAIN tables /\ place[e3.frame].level = 2
        /\ e4.present /\ e3.present /\ ~e3.huge /\ e2.present /\ ~e2.huge =>
              e2.frame \in DOMAIN tables /\ place[e2.frame].upper = Above(w, 1)
    BY DEF PathPlaced, HasTable
  <2>5. Mapped(w) <=> /\ e4.present /\ e3.present
                      /\ e3.huge \/ (e2.present /\ (e2.huge \/ e1.present))
    BY DEF Mapped, HasTable
  <2>6. Mapped(w)' <=> /\ f4.present /\ f3.present
                       /\ f3.huge \/ (f2.present /\ (f2.huge \/ f1.present))
    BY DEF Mapped, HasTable
  <2>7. place[t].level = 1 /\ place[t].upper = Above(v, 1)
    BY <1>2
  <2>8. \A u \in DOMAIN tables : \A j \in Index :
           place[u].level # 1 => tables'[u][j] = tables[u][j]
    BY <1>3, <2>7
  <2>13. f4 = e4
    <3>1. CR3 \in DOMAIN tables /\ place[CR3].level # 1
      BY <2>4
    <3>2. tables'[CR3][i4] = tables[CR3][i4]
      BY <2>1, <2>8, <3>1
    <3>. QED
      BY <2>2, <2>3, <3>2
  <2>9. ASSUME e4.present PROVE f3 = e3
    <3>1. PICK u : u = e4.frame
      OBVIOUS
    <3>2. f3 = tables'[u][i3] /\ e3 = tables[u][i3]
      BY <2>2, <2>3, <2>13, <3>1
    <3>3. u \in DOMAIN tables /\ place[u].level # 1
      BY <2>4, <2>9, <3>1
    <3>. QED
      BY <2>1, <2>8, <3>2, <3>3
  <2>10. ASSUME e4.present, e3.present, ~e3.huge PROVE f2 = e2
    <3>1. PICK u : u = e3.frame
      OBVIOUS
    <3>2. f2 = tables'[u][i2] /\ e2 = tables[u][i2]
      BY <2>2, <2>3, <2>9, <2>10, <3>1
    <3>3. u \in DOMAIN tables /\ place[u].level # 1
      BY <2>4, <2>10, <3>1
    <3>. QED
      BY <2>1, <2>8, <3>2, <3>3
  <2>11. ASSUME w # v PROVE Mapped(w)' <=> Mapped(w)
    <3>1. ASSUME e4.present, e3.present, ~e3.huge, e2.present, ~e2.huge PROVE f1 = e1
      <4>1. ASSUME e2.frame = t, i1 = i PROVE FALSE
        <5>1. Above(w, 1) = Above(v, 1) /\ IndexOf(w, 1) = IndexOf(v, 1)
          BY <2>4, <2>7, <3>1, <4>1
        <5>2. w \in Nat /\ Upper(w, 1) = w
          BY NumberType, UpperOne
        <5>3. w = Above(w, 1) * Fanout + IndexOf(w, 1) /\ v = Above(v, 1) * Fanout + IndexOf(v, 1)
          BY <1>1, <5>2, LevelType, IndexIs
        <5>. QED
          BY <2>11, <5>1, <5>3
      <4>2. tables'[e2.frame][i1] = tables[e2.frame][i1]
        BY <1>3, <2>1, <2>4, <3>1, <4>1
      <4>. QED
        BY <2>2, <2>3, <2>10, <3>1, <4>2
    <3>. QED
      BY <2>5, <2>6, <2>13, <2>9, <2>10, <3>1
  <2>12. ASSUME w = v PROVE Mapped(w)'
    <3>1. e4.present /\ e3.present /\ ~e3.huge /\ e2.present /\ ~e2.huge /\ e2.frame = t /\ i1 = i
      BY <2>12 DEF HasTable, TableFor
    <3>2. f1 = Present(v)
      BY <1>3, <2>3, <2>10, <3>1
    <3>. QED
      BY <1>5, <2>6, <2>13, <2>9, <2>10, <3>1, <3>2
  <2>. QED
    BY <2>11, <2>12
<1>. QED
  BY <1>3, <1>4, <1>7, <1>8 DEF LeafEffect

-----------------------------------------------------------------------------
(* The pages of the ranges.                                                *)

LEMMA RangeIs ==
  ASSUME framebuffer \in Framebuffers
  PROVE  /\ Len(Ranges) \in Nat \ {0} /\ DOMAIN Ranges = 1 .. Len(Ranges)
         /\ Ranges[1] = KernelRange
         /\ \A k \in DOMAIN Ranges : /\ Ranges[k] \in RangeType
                                     /\ Ranges[k].start + Ranges[k].size <= Numbers * PageSize
<1>1. /\ FixedRanges \in Seq(RangeType) /\ KernelRange \in RangeType /\ framebuffer \in RangeType
  BY PagingAssumption
<1>. PICK first, fixed : first = <<KernelRange, framebuffer>> /\ fixed = FixedRanges
  OBVIOUS
<1>2. first \in Seq(RangeType) /\ Len(first) = 2 /\ first[1] = KernelRange /\ first[2] = framebuffer
  BY <1>1
<1>3. fixed \in Seq(RangeType) /\ Len(fixed) \in Nat /\ DOMAIN fixed = 1 .. Len(fixed)
  BY <1>1
<1>4. Ranges = first \o fixed
  BY DEF Ranges
<1>5. /\ Len(Ranges) = 2 + Len(fixed) /\ Ranges \in Seq(RangeType)
      /\ \A k \in 1 .. 2 + Len(fixed) : Ranges[k] = IF k <= 2 THEN first[k] ELSE fixed[k - 2]
  BY <1>2, <1>3, <1>4
<1>6. DOMAIN Ranges = 1 .. Len(Ranges) /\ Len(Ranges) \in Nat \ {0}
  BY <1>3, <1>5
<1>7. ASSUME NEW k \in DOMAIN Ranges
      PROVE  Ranges[k] \in {KernelRange} \cup Framebuffers \cup {FixedRanges[j] : j \in DOMAIN FixedRanges}
  <2>1. k \in 1 .. 2 + Len(fixed)
    BY <1>5, <1>6
  <2>2. CASE k <= 2
    BY <1>2, <1>5, <2>1, <2>2
  <2>3. CASE k > 2
    <3>1. k - 2 \in DOMAIN fixed
      BY <1>3, <2>1, <2>3
    <3>. QED
      BY <1>5, <2>1, <2>3, <3>1
  <2>. QED
    BY <2>1, <2>2, <2>3
<1>8. ASSUME NEW k \in DOMAIN Ranges
      PROVE  Ranges[k].start + Ranges[k].size <= Numbers * PageSize
  BY <1>7, RangesAssumption
<1>9. \A k \in DOMAIN Ranges : Ranges[k] \in RangeType
  BY <1>5, <1>6
<1>. QED
  BY <1>2, <1>5, <1>6, <1>8, <1>9

\* Every page a range has part of is between its first and its last.
PagesOf(r) == FirstPage(r) .. EndPage(r) - 1

LEMMA PagesAre ==
  ASSUME NEW r \in RangeType, r.start + r.size <= Numbers * PageSize
  PROVE  /\ FirstPage(r) \in Nat /\ EndPage(r) \in Nat /\ EndPage(r) <= Numbers
         /\ \A a \in r.start .. r.start + r.size - 1 : a \div PageSize \in PagesOf(r)
<1>. PICK p, s, z, n : p = PageSize /\ s = r.start /\ z = r.size /\ n = Numbers
  OBVIOUS
<1>1. p \in Nat \ {0} /\ s \in Nat /\ z \in Nat /\ n \in Nat \ {0}
  BY PagingAssumption, SpanIs DEF RangeType
<1>2. PICK x \in Nat : x = s + z + p - 1
  BY <1>1
<1>8. \A y \in Nat : \E f \in Nat, g \in 0 .. p - 1 : f = y \div p /\ g = y % p /\ y = f * p + g
  BY <1>1, DivisionIs, Zenon
<1>3. PICK f \in Nat, g \in 0 .. p - 1 : f = s \div p /\ g = s % p /\ s = f * p + g
  BY <1>1, <1>8, Zenon
<1>4. PICK q \in Nat, m \in 0 .. p - 1 : q = x \div p /\ m = x % p /\ x = q * p + m
  BY <1>2, <1>8, Zenon
<1>5. FirstPage(r) = f /\ EndPage(r) = q
  BY <1>2, <1>3, <1>4 DEF FirstPage, EndPage
<1>6. q <= n
  <2>1. PICK i, j : i = q * p /\ j = n * p
    OBVIOUS
  <2>2. i \in Nat /\ j \in Nat /\ x = i + m
    BY <1>1, <1>4, <2>1
  <2>3. s + z <= j
    BY <1>1, <2>1
  <2>4. n < q => j + p <= i
    <3>1. n < q => n * p + p <= q * p
      BY <1>1, ProductOrder
    <3>. QED
      BY <2>1, <3>1
  <2>. QED
    BY <1>1, <1>2, <2>2, <2>3, <2>4
<1>7. ASSUME NEW a \in s .. s + z - 1
      PROVE  a \div p \in f .. q - 1
  <2>1. a \in Nat /\ s <= a /\ a + p <= x
    BY <1>1, <1>2
  <2>2. PICK b \in Nat, c \in 0 .. p - 1 : b = a \div p /\ c = a % p /\ a = b * p + c
    BY <1>8, <2>1, Zenon
  <2>3. PICK i, j, h : i = f * p /\ j = b * p /\ h = q * p
    OBVIOUS
  <2>4. i \in Nat /\ j \in Nat /\ h \in Nat /\ s = i + g /\ a = j + c /\ x = h + m
    <3>1. f \in Nat /\ b \in Nat /\ q \in Nat /\ s = i + g /\ a = j + c /\ x = h + m
      BY <1>3, <1>4, <2>2, <2>3
    <3>2. i \in Nat
      BY <1>1, <2>3, <3>1
    <3>3. j \in Nat
      BY <1>1, <2>3, <3>1
    <3>4. h \in Nat
      BY <1>1, <2>3, <3>1
    <3>. QED
      BY <3>1, <3>2, <3>3, <3>4
  <2>5. b < f => j + p <= i
    <3>1. b < f => b * p + p <= f * p
      BY <1>1, ProductOrder
    <3>. QED
      BY <2>3, <3>1
  <2>6. q < b => h + p <= j
    <3>1. q < b => q * p + p <= b * p
      BY <1>1, ProductOrder
    <3>. QED
      BY <2>3, <3>1
  <2>7. b = q => j = h
    BY <2>3
  <2>8. f <= b /\ b < q
    BY <1>1, <2>1, <2>4, <2>5, <2>6, <2>7
  <2>. QED
    BY <2>2, <2>8
<1>. QED
  BY <1>5, <1>6, <1>7 DEF PagesOf

-----------------------------------------------------------------------------
(* What holds while and after memory is mapped.                            *)

PagingTypes == /\ framebuffer \in Framebuffers
               /\ range \in 1 .. Len(Ranges) + 1
               /\ addr \in Nat
               /\ walk.level \in 1 .. 4
               /\ TablesType

\* map_page is at the table its address leads to.
OnPath == /\ HasTable(addr, walk.level) /\ walk.table = TableFor(addr, walk.level)
          /\ walk = Top \/ InRange

\* While the tables are made nobody else has pages, and the allocator is
\* whole: a page it gives is not a table.
TablesOwned == ~Paged => IInv /\ DOMAIN tables \subseteq DOMAIN FirmwareTables \cup held

Done(n) == n \in given_up \/ Mapped(n)

DoneSoFar == \A k \in DOMAIN Ranges : \A n \in PagesOf(Ranges[k]) :
               k < range \/ (k = range /\ n < addr) => Done(n)

PagingInv == /\ PagingTypes /\ PlacesOK /\ OnPath /\ TablesOwned /\ DoneSoFar
             /\ backbuffer # NULL => Paged

RangeFacts(k) == /\ Ranges[k] \in RangeType
                 /\ FirstPage(Ranges[k]) \in Nat /\ EndPage(Ranges[k]) \in Nat
                 /\ EndPage(Ranges[k]) <= Numbers
                 /\ PagesOf(Ranges[k]) \subseteq Number

LEMMA RangeTypes ==
  ASSUME framebuffer \in Framebuffers, NEW k \in DOMAIN Ranges
  PROVE  RangeFacts(k)
<1>1. PICK r : r = Ranges[k]
  OBVIOUS
<1>2. r \in RangeType /\ r.start + r.size <= Numbers * PageSize
  BY <1>1, RangeIs
<1>3. FirstPage(r) \in Nat /\ EndPage(r) \in Nat /\ EndPage(r) <= Numbers
  BY <1>2, PagesAre
<1>4. PagesOf(r) \subseteq Number
  BY <1>3, SpanIs DEF PagesOf, Number
<1>. QED
  BY <1>1, <1>2, <1>3, <1>4 DEF RangeFacts

\* The page map_page is called for.
LEMMA AddressIs == ASSUME PagingInv, InRange PROVE addr \in Number /\ range \in DOMAIN Ranges
<1>1. range \in DOMAIN Ranges
  BY RangeIs DEF PagingInv, PagingTypes, InRange, Paged
<1>2. RangeFacts(range)
  BY <1>1, RangeTypes DEF PagingInv, PagingTypes
<1>3. addr \in Nat /\ addr < EndPage(Ranges[range])
  BY DEF PagingInv, PagingTypes, InRange
<1>4. addr < Numbers /\ Numbers \in Nat
  BY <1>2, <1>3, SpanIs DEF RangeFacts
<1>. QED
  BY <1>1, <1>3, <1>4 DEF Number

\* The entry map_page looks at.
LEMMA EntryIs ==
  ASSUME OnPath
  PROVE  /\ walk.level = 4 => EntryHere = E4(addr)
         /\ walk.level = 3 => EntryHere = E3(addr)
         /\ walk.level = 2 => EntryHere = E2(addr)
         /\ walk.level = 1 => EntryHere = E1(addr)
<1>1. EntryHere = tables[TableFor(addr, walk.level)][IndexOf(addr, walk.level)]
  BY DEF OnPath, EntryHere
<1>2. ASSUME walk.level = 4 PROVE EntryHere = E4(addr)
  BY <1>1, <1>2 DEF TableFor, E4
<1>3. ASSUME walk.level = 3 PROVE EntryHere = E3(addr)
  BY <1>1, <1>3 DEF TableFor, E3
<1>4. ASSUME walk.level = 2 PROVE EntryHere = E2(addr)
  BY <1>1, <1>4 DEF TableFor, E2
<1>5. ASSUME walk.level = 1 PROVE EntryHere = E1(addr)
  BY <1>1, <1>5 DEF TableFor, E1
<1>. QED
  BY <1>2, <1>3, <1>4, <1>5

LEMMA TopIsOnPath == walk = Top => HasTable(addr, walk.level) /\ walk.table = TableFor(addr, walk.level)
BY DEF Top, HasTable, TableFor

LEMMA RangesKept == UNCHANGED framebuffer => Ranges' = Ranges
BY DEF Ranges

\* The next page of a range, when this one is mapped or given up.
LEMMA AddressDone ==
  ASSUME PagingInv, InRange, NextAddress, given_up \subseteq given_up',
         \A n \in Number : Mapped(n) => Mapped(n)',
         NEW a, a = addr, a \in given_up' \/ Mapped(a)'
  PROVE  DoneSoFar' /\ OnPath'
<1>1. walk' = Top /\ addr' = addr + 1 /\ range' = range /\ framebuffer' = framebuffer
  BY DEF NextAddress
<1>2. OnPath'
  BY <1>1 DEF OnPath, Top, HasTable, TableFor
<1>3. Ranges' = Ranges
  BY <1>1, RangesKept
<1>4. ASSUME NEW k \in DOMAIN Ranges, NEW n \in PagesOf(Ranges[k]),
             k < range \/ (k = range /\ n < addr + 1)
      PROVE  n \in given_up' \/ Mapped(n)'
  <2>1. RangeFacts(k)
    BY RangeTypes DEF PagingInv, PagingTypes
  <2>2. n \in Number /\ n \in Nat
    BY <2>1, NumberType DEF RangeFacts
  <2>3. CASE k < range \/ (k = range /\ n < addr)
    <3>1. Done(n)
      BY <2>3 DEF PagingInv, DoneSoFar
    <3>. QED
      BY <2>2, <3>1 DEF Done
  <2>4. CASE k = range /\ n = addr
    <3>1. n = a
      BY <2>4
    <3>. QED
      BY <3>1
  <2>. QED
    BY <1>4, <2>2, <2>3, <2>4 DEF PagingInv, PagingTypes
<1>5. DoneSoFar'
  BY <1>1, <1>3, <1>4 DEF DoneSoFar, Done, PagesOf, FirstPage, EndPage
<1>. QED
  BY <1>2, <1>5

LEMMA AlreadyMappedKeeps == ASSUME PagingInv, AlreadyMapped, UNCHANGED gfxVars PROVE PagingInv'
<1>1. /\ InRange /\ HugeHere /\ NextAddress /\ tables' = tables /\ given_up' = given_up
      /\ UNCHANGED vars /\ backbuffer' = backbuffer
  BY DEF AlreadyMapped, gfxVars
<1>2. PICK a : a = addr
  OBVIOUS
<1>3. \A n : Mapped(n)' <=> Mapped(n)
  BY <1>1 DEF Mapped, HasTable, E4, E3, E2, E1
<1>8. Mapped(a)
  BY <1>1, <1>2, EntryIs DEF PagingInv, OnPath, HugeHere, Mapped
<1>9. Mapped(a)'
  BY <1>3, <1>8
<1>10. \A n \in Number : Mapped(n) => Mapped(n)'
  BY <1>3
<1>4. DoneSoFar' /\ OnPath'
  BY <1>1, <1>2, <1>9, <1>10, AddressDone
<1>5. PagingTypes' /\ PlacesOK'
  BY <1>1, RangesKept DEF PagingInv, PagingTypes, PlacesOK, TablesType, NextAddress, Top
<1>6. Paged' <=> Paged
  BY <1>1, RangesKept DEF Paged, NextAddress
<1>7. TablesOwned'
  BY <1>1, <1>6, StepIInv DEF PagingInv, TablesOwned, vars
<1>. QED
  BY <1>1, <1>4, <1>5, <1>6, <1>7 DEF PagingInv

LEMMA DescendKeeps == ASSUME PagingInv, Descend, UNCHANGED gfxVars PROVE PagingInv'
<1>1. /\ InRange /\ walk.level > 1 /\ EntryHere.present /\ ~HugeHere
      /\ walk' = [level |-> walk.level - 1, table |-> EntryHere.frame]
      /\ UNCHANGED <<vars, framebuffer, tables, range, addr, given_up>> /\ backbuffer' = backbuffer
  BY DEF Descend, gfxVars
<1>2. walk.level \in 1 .. 4 /\ HasTable(addr, walk.level)
  BY DEF PagingInv, PagingTypes, OnPath
<1>3. HasTable(addr, walk.level - 1) /\ EntryHere.frame = TableFor(addr, walk.level - 1)
  <2>1. CASE walk.level = 4
    BY <1>1, <1>2, <2>1, EntryIs DEF PagingInv, HasTable, TableFor
  <2>2. CASE walk.level = 3
    BY <1>1, <1>2, <2>2, EntryIs DEF PagingInv, HasTable, TableFor, HugeHere
  <2>3. CASE walk.level = 2
    BY <1>1, <1>2, <2>3, EntryIs DEF PagingInv, HasTable, TableFor, HugeHere
  <2>. QED
    BY <1>1, <1>2, <2>1, <2>2, <2>3
<1>4. PICK a, l : a = addr /\ l = walk.level - 1
  OBVIOUS
<1>5. HasTable(a, l)' /\ TableFor(a, l)' = TableFor(a, l) /\ \A n : Mapped(n)' <=> Mapped(n)
  <2>1. tables' = tables /\ HasTable(a, l)
    BY <1>1, <1>3, <1>4
  <2>2. HasTable(a, l)'
    BY <2>1 DEF HasTable, E4, E3, E2
  <2>3. TableFor(a, l)' = TableFor(a, l)
    BY <2>1 DEF TableFor, E4, E3, E2
  <2>4. \A n : Mapped(n)' <=> Mapped(n)
    <3>1. tables' = tables
      BY <2>1
    <3>. QED
      BY <3>1 DEF HasTable, Mapped, E4, E3, E2, E1
  <2>. QED
    BY <2>2, <2>3, <2>4
<1>6. Ranges' = Ranges /\ (Paged' <=> Paged) /\ InRange'
  BY <1>1, RangesKept DEF Paged, InRange, EndPage, vars, Booted
<1>7. OnPath'
  <2>1. walk'.level = l /\ walk'.table = TableFor(a, l) /\ addr' = a
    BY <1>1, <1>3, <1>4
  <2>. QED
    BY <1>5, <1>6, <2>1 DEF OnPath
<1>8. PagingTypes' /\ PlacesOK'
  BY <1>1, <1>2, <1>6 DEF PagingInv, PagingTypes, PlacesOK, TablesType
<1>9. DoneSoFar'
  BY <1>1, <1>5, <1>6 DEF PagingInv, DoneSoFar, Done, PagesOf, FirstPage, EndPage
<1>10. TablesOwned'
  BY <1>1, <1>6, StepIInv DEF PagingInv, TablesOwned, vars
<1>. QED
  BY <1>1, <1>6, <1>7, <1>8, <1>9, <1>10 DEF PagingInv

\* A page the allocator gives is not a table yet.
LEMMA TableIsNew ==
  ASSUME PagingInv, ~Paged, Pop, UNCHANGED <<desc, page, multi>>
  PROVE  /\ result' \notin DOMAIN tables /\ result' \in Nat /\ result' \in held'
         /\ held' = held \cup {result'} /\ IInv'
<1>1. IInv /\ DOMAIN tables \subseteq DOMAIN FirmwareTables \cup held
  BY DEF PagingInv, TablesOwned
<1>2. free_list_head \in Unheld /\ FreeListIntact'
  BY <1>1, PopStep
<1>3. multi' \in [active : BOOLEAN, first : Usable \cup {NULL}, got : Nat, want : Nat]
  BY <1>1 DEF IInv, TypeOK
<1>4. TypeOK'
  BY <1>1, <1>3, PopStep
<1>5. result' = free_list_head /\ held' = held \cup {free_list_head}
  BY DEF Pop
<1>6. free_list_head \in Usable \ held
  BY <1>1, <1>2, ScannedUsable DEF Unheld, IInv
<1>. QED
  BY <1>1, <1>2, <1>4, <1>5, <1>6, UsableType, TablesAssumption DEF IInv

\* What making a table comes to.
TableEffect == /\ TablesType' /\ PlacesOK' /\ MappingKept
               /\ DOMAIN tables' = DOMAIN tables \cup {result'}
               /\ \E v \in Number, l \in 2 .. 4 :
                     v = addr /\ l = walk.level /\ Arrives(v, l - 1, result')

LEMMA CreateTableMakes == ASSUME PagingInv, CreateTable PROVE TableEffect
<1>1. /\ InRange /\ walk.level > 1 /\ ~EntryHere.present /\ Pop
      /\ UNCHANGED <<desc, page, multi>>
  BY DEF CreateTable, Missing
<1>2. PICK place : WellPlaced(tables, place)
  BY DEF PagingInv, PlacesOK
<1>3. PICK v \in Number, l \in 2 .. 4 : v = addr /\ l = walk.level
  BY <1>1, AddressIs DEF PagingInv, PagingTypes
<1>4. PICK r : r = result'
  OBVIOUS
<1>5. r \notin DOMAIN tables /\ r \in Nat /\ held' = held \cup {r} /\ IInv'
  BY <1>1, <1>4, TableIsNew DEF InRange
<1>6. HasTable(v, l) /\ walk.table = TableFor(v, l) /\ TablesType
  BY <1>3 DEF PagingInv, OnPath, PagingTypes
<1>7. TableAdded(place, TableFor(v, l), IndexOf(v, l), r)
  <2>. PICK t, i : t = TableFor(v, l) /\ i = IndexOf(v, l)
    OBVIOUS
  <2>1. t \in DOMAIN tables /\ place[t].level = l
    <3>1. l \in 1 .. 4
      OBVIOUS
    <3>2. TableIs(place, v, l)
      BY <1>2, <1>6, <3>1, TableForIs, Zenon
    <3>. QED
      BY <3>2 DEF TableIs
  <2>2. i \in Index
    <3>1. v \in Nat /\ l \in 1 .. 4
      BY NumberType
    <3>. QED
      BY <3>1, IndexIs
  <2>3. walk.table = t /\ IndexOf(addr, walk.level) = i /\ EntryHere = tables[t][i]
    BY <1>3, <1>6 DEF EntryHere
  <2>4. tables' = [u \in DOMAIN tables \cup {r} |->
                     IF u = r THEN Cleared(r)
                     ELSE IF u = t THEN [tables[t] EXCEPT ![i] = Present(r)]
                     ELSE tables[u]]
    BY <1>4, <2>3 DEF CreateTable
  <2>. QED
    BY <1>1, <1>3, <1>5, <2>1, <2>2, <2>3, <2>4 DEF TableAdded
<1>8. TablesType' /\ DOMAIN tables' = DOMAIN tables \cup {r}
  <2>1. EntriesAdded(TableFor(v, l), IndexOf(v, l), r)
    BY <1>5, <1>6, <1>7, AddedEntries, Zenon
  <2>. QED
    BY <2>1 DEF EntriesAdded
<1>9. PlacesOK'
  BY <1>2, <1>5, <1>6, <1>7, AddedPlaces, Zenon
<1>10. MappingKept
  BY <1>2, <1>5, <1>6, <1>7, AddedMapping, Zenon
<1>11. Arrives(v, l - 1, r)
  BY <1>2, <1>5, <1>6, <1>7, AddedPath, Zenon
<1>. QED
  BY <1>3, <1>4, <1>8, <1>9, <1>10, <1>11 DEF TableEffect

LEMMA CreateTableKeeps == ASSUME PagingInv, CreateTable, UNCHANGED gfxVars PROVE PagingInv'
<1>1. /\ InRange /\ walk.level > 1 /\ ~EntryHere.present /\ Pop
      /\ walk' = [level |-> walk.level - 1, table |-> result']
      /\ UNCHANGED <<desc, page, multi, framebuffer, range, addr, given_up>>
      /\ backbuffer' = backbuffer
  BY DEF CreateTable, Missing, gfxVars
<1>2. PICK r : r = result'
  OBVIOUS
<1>3. TableEffect
  BY CreateTableMakes
<1>4. PICK v \in Number, l \in 2 .. 4 : v = addr /\ l = walk.level /\ Arrives(v, l - 1, r)
  BY <1>2, <1>3 DEF TableEffect
<1>5. held' = held \cup {r} /\ IInv'
  BY <1>1, <1>2, TableIsNew DEF InRange
<1>12. Ranges' = Ranges /\ (Paged' <=> Paged) /\ InRange'
  BY <1>1, RangesKept DEF Paged, InRange, EndPage, Booted
<1>13. OnPath'
  <2>1. PICK m : m = l - 1
    OBVIOUS
  <2>2. walk'.level = m /\ walk'.table = r /\ addr' = v /\ HasTable(v, m)' /\ TableFor(v, m)' = r
    BY <1>1, <1>2, <1>4, <2>1 DEF Arrives
  <2>. QED
    BY <1>12, <2>2 DEF OnPath
<1>14. PagingTypes'
  BY <1>1, <1>3, <1>4, <1>12 DEF PagingInv, PagingTypes, TableEffect
<1>15. DoneSoFar'
  <2>. SUFFICES ASSUME NEW k \in DOMAIN Ranges, NEW n \in PagesOf(Ranges[k]),
                       k < range \/ (k = range /\ n < addr)
                PROVE  n \in given_up \/ Mapped(n)'
    BY <1>1, <1>12 DEF DoneSoFar, Done, PagesOf, FirstPage, EndPage
  <2>1. RangeFacts(k)
    BY RangeTypes DEF PagingInv, PagingTypes
  <2>2. n \in Number /\ Done(n)
    BY <2>1 DEF PagingInv, DoneSoFar, RangeFacts
  <2>. QED
    BY <1>3, <2>2 DEF MappingKept, Done, TableEffect
<1>16. TablesOwned'
  BY <1>1, <1>2, <1>3, <1>5 DEF PagingInv, TablesOwned, InRange, TableEffect
<1>. QED
  BY <1>1, <1>3, <1>12, <1>13, <1>14, <1>15, <1>16 DEF PagingInv, TableEffect

LEMMA GiveUpKeeps == ASSUME PagingInv, GiveUp, UNCHANGED gfxVars PROVE PagingInv'
<1>1. /\ InRange /\ PopNothing /\ given_up' = given_up \cup {addr} /\ NextAddress
      /\ UNCHANGED <<desc, page, multi, tables>> /\ backbuffer' = backbuffer
  BY DEF GiveUp, Missing, gfxVars
<1>2. PICK a : a = addr
  OBVIOUS
<1>3. \A n : Mapped(n)' <=> Mapped(n)
  BY <1>1 DEF Mapped, HasTable, E4, E3, E2, E1
<1>4. a \in given_up' /\ given_up \subseteq given_up' /\ \A n \in Number : Mapped(n) => Mapped(n)'
  BY <1>1, <1>2, <1>3
<1>5. DoneSoFar' /\ OnPath'
  BY <1>1, <1>2, <1>4, AddressDone
<1>6. PagingTypes' /\ PlacesOK'
  BY <1>1, RangesKept DEF PagingInv, PagingTypes, PlacesOK, TablesType, NextAddress, Top
<1>7. Paged' <=> Paged
  BY <1>1, RangesKept DEF Paged, NextAddress
<1>8. TablesOwned'
  <2>1. IInv /\ DOMAIN tables \subseteq DOMAIN FirmwareTables \cup held
    BY <1>1 DEF PagingInv, TablesOwned, InRange
  <2>2. multi' \in [active : BOOLEAN, first : Usable \cup {NULL}, got : Nat, want : Nat]
    BY <1>1, <2>1 DEF IInv, TypeOK
  <2>3. IInv'
    BY <1>1, <2>1, <2>2, NothingStep DEF IInv
  <2>. QED
    BY <1>1, <2>1, <2>3 DEF TablesOwned, PopNothing
<1>. QED
  BY <1>1, <1>5, <1>6, <1>7, <1>8 DEF PagingInv

LEMMA MapLeafMaps == ASSUME PagingInv, MapLeaf PROVE \E v \in Number : v = addr /\ LeafEffect(v)
<1>1. /\ InRange /\ walk.level = 1
      /\ tables' = [tables EXCEPT ![walk.table][IndexOf(addr, 1)] = Present(addr)]
  BY DEF MapLeaf
<1>2. PICK place : WellPlaced(tables, place)
  BY DEF PagingInv, PlacesOK
<1>3. PICK v \in Number : v = addr
  BY <1>1, AddressIs
<1>4. HasTable(v, 1) /\ walk.table = TableFor(v, 1) /\ TablesType
  BY <1>1, <1>3 DEF PagingInv, OnPath, PagingTypes
<1>5. LeafWritten(v)
  BY <1>1, <1>3, <1>4 DEF LeafWritten
<1>6. LeafEffect(v)
  BY <1>2, <1>4, <1>5, WrittenLeaf, Zenon
<1>. QED
  BY <1>3, <1>6

LEMMA MapLeafKeeps == ASSUME PagingInv, MapLeaf, UNCHANGED gfxVars PROVE PagingInv'
<1>1. /\ InRange /\ NextAddress /\ UNCHANGED <<vars, given_up>> /\ backbuffer' = backbuffer
  BY DEF MapLeaf, gfxVars
<1>3. PICK v \in Number : v = addr /\ LeafEffect(v)
  BY MapLeafMaps
<1>6. LeafEffect(v)
  BY <1>3
<1>7. Mapped(v)' /\ given_up \subseteq given_up' /\ \A n \in Number : Mapped(n) => Mapped(n)'
  BY <1>1, <1>6 DEF LeafEffect
<1>8. DoneSoFar' /\ OnPath'
  BY <1>1, <1>3, <1>7, AddressDone
<1>9. PagingTypes' /\ PlacesOK'
  BY <1>1, <1>6, RangesKept DEF PagingInv, PagingTypes, LeafEffect, NextAddress, Top
<1>10. Paged' <=> Paged
  BY <1>1, RangesKept DEF Paged, NextAddress
<1>11. TablesOwned'
  BY <1>1, <1>6, <1>10, StepIInv DEF PagingInv, TablesOwned, vars, LeafEffect
<1>. QED
  BY <1>1, <1>8, <1>9, <1>10, <1>11 DEF PagingInv

LEMMA NextRangeKeeps == ASSUME PagingInv, NextRange, UNCHANGED gfxVars PROVE PagingInv'
<1>1. /\ Booted /\ ~Paged /\ ~InRange /\ range' = range + 1
      /\ addr' = IF range < Len(Ranges) THEN FirstPage(Ranges[range + 1]) ELSE addr
      /\ UNCHANGED <<vars, framebuffer, tables, walk, given_up>> /\ backbuffer' = backbuffer
  BY DEF NextRange, gfxVars
<1>2. walk = Top /\ ~(addr < EndPage(Ranges[range]))
  BY <1>1 DEF PagingInv, OnPath, InRange
<1>3. Ranges' = Ranges /\ \A n : Mapped(n)' <=> Mapped(n)
  BY <1>1, RangesKept DEF Mapped, HasTable, E4, E3, E2, E1
<1>4. range \in 1 .. Len(Ranges) /\ DOMAIN Ranges = 1 .. Len(Ranges) /\ Len(Ranges) \in Nat
  BY <1>1, RangeIs DEF PagingInv, PagingTypes, Paged
<1>5. addr' \in Nat
  <2>1. ASSUME range < Len(Ranges) PROVE FirstPage(Ranges[range + 1]) \in Nat
    <3>1. PICK k \in DOMAIN Ranges : k = range + 1
      BY <1>4, <2>1
    <3>2. RangeFacts(k)
      BY RangeTypes DEF PagingInv, PagingTypes
    <3>. QED
      BY <3>1, <3>2 DEF RangeFacts
  <2>. QED
    BY <1>1, <2>1 DEF PagingInv, PagingTypes
<1>6. PagingTypes' /\ PlacesOK'
  BY <1>1, <1>3, <1>4, <1>5 DEF PagingInv, PagingTypes, PlacesOK, TablesType
<1>7. OnPath'
  BY <1>1, <1>2 DEF OnPath, Top, HasTable, TableFor
<1>8. DoneSoFar'
  <2>. SUFFICES ASSUME NEW k \in DOMAIN Ranges, NEW n \in PagesOf(Ranges[k]),
                       k < range + 1 \/ (k = range + 1 /\ n < addr')
                PROVE  Done(n)
    BY <1>1, <1>3 DEF DoneSoFar, Done, PagesOf, FirstPage, EndPage
  <2>1. RangeFacts(k)
    BY RangeTypes DEF PagingInv, PagingTypes
  <2>2. n \in Nat /\ n >= FirstPage(Ranges[k]) /\ n < EndPage(Ranges[k])
    BY <2>1 DEF RangeFacts, PagesOf
  <2>3. CASE k < range
    BY <2>3 DEF PagingInv, DoneSoFar
  <2>4. CASE k = range
    <3>1. n < addr
      BY <1>2, <2>1, <2>2, <2>4 DEF RangeFacts, PagingInv, PagingTypes
    <3>. QED
      BY <2>4, <3>1 DEF PagingInv, DoneSoFar
  <2>5. CASE k = range + 1 /\ n < addr'
    <3>1. addr' = FirstPage(Ranges[k])
      BY <1>1, <1>4, <2>5
    <3>. QED
      BY <2>1, <2>2, <2>5, <3>1 DEF RangeFacts
  <2>. QED
    BY <1>4, <2>3, <2>4, <2>5
<1>9. TablesOwned'
  BY <1>1, StepIInv DEF PagingInv, TablesOwned, vars
<1>10. ~(backbuffer' # NULL)
  BY <1>1 DEF PagingInv
<1>. QED
  BY <1>6, <1>7, <1>8, <1>9, <1>10 DEF PagingInv

\* Everything else leaves the tables alone.
LEMMA ElsewhereKeeps ==
  ASSUME PagingInv, UNCHANGED pagingVars, walk = Top, TablesOwned', backbuffer' # NULL => Paged
  PROVE  PagingInv'
<1>1. UNCHANGED <<framebuffer, tables, range, addr, walk, given_up>>
  BY DEF pagingVars
<1>2. Ranges' = Ranges /\ (Paged' <=> Paged) /\ \A n : Mapped(n)' <=> Mapped(n)
  BY <1>1, RangesKept DEF Mapped, HasTable, E4, E3, E2, E1, Paged
<1>3. PagingTypes' /\ PlacesOK'
  BY <1>1, <1>2 DEF PagingInv, PagingTypes, PlacesOK, TablesType
<1>4. OnPath'
  BY <1>1 DEF OnPath, Top, HasTable, TableFor
<1>5. DoneSoFar'
  BY <1>1, <1>2 DEF PagingInv, DoneSoFar, Done, PagesOf, FirstPage, EndPage
<1>. QED
  BY <1>2, <1>3, <1>4, <1>5 DEF PagingInv

LEMMA OthersKeep ==
  ASSUME PagingInv, Next, Booted => Paged /\ TablesKept, UNCHANGED <<pagingVars, gfxVars>>
  PROVE  PagingInv'
<1>1. walk = Top
  BY DEF PagingInv, OnPath, InRange
<1>2. backbuffer' = backbuffer /\ tables' = tables /\ (Paged' <=> Paged)
  BY RangesKept DEF gfxVars, pagingVars, Paged
<1>3. TablesOwned'
  <2>. SUFFICES ASSUME ~Paged PROVE IInv' /\ held \subseteq held'
    BY <1>2 DEF TablesOwned, PagingInv
  <2>1. IInv'
    BY StepIInv DEF PagingInv, TablesOwned
  <2>2. held \subseteq held'
    BY DEF Next, InitReserve, InitPush, InitNextDescriptor, Alloc, Free, OwnerWrite,
           AllocPagesBegin, AllocPagesStep, AllocPagesReturn, Pop, PopNothing
  <2>. QED
    BY <2>1, <2>2
<1>. QED
  BY <1>1, <1>2, <1>3, ElsewhereKeeps DEF PagingInv

LEMMA GraphicsKeeps == ASSUME PagingInv, Graphics, UNCHANGED pagingVars PROVE PagingInv'
<1>1. Paged
  BY DEF Graphics, GfxInit, GfxDraw, CreateWindow, PagingInv
<1>2. Paged' <=> Paged
  BY RangesKept DEF pagingVars, Paged
<1>3. walk = Top
  BY <1>1 DEF PagingInv, OnPath, InRange
<1>. QED
  BY <1>1, <1>2, <1>3, ElsewhereKeeps DEF TablesOwned

LEMMA PagingStarts == GraphicsInit => PagingInv
<1>. SUFFICES ASSUME GraphicsInit PROVE PagingInv
  OBVIOUS
<1>1. Init /\ PagingInit /\ backbuffer = NULL
  BY DEF GraphicsInit
<1>2. Len(Ranges) \in Nat \ {0} /\ Ranges[1] = KernelRange /\ DOMAIN Ranges = 1 .. Len(Ranges)
  BY <1>1, RangeIs DEF PagingInit
<1>3. RangeFacts(1)
  BY <1>1, <1>2, RangeTypes DEF PagingInit
<1>4. PagingTypes
  BY <1>1, <1>2, <1>3, PagingAssumption DEF PagingTypes, PagingInit, TablesType, RangeFacts, Top
<1>5. PlacesOK
  BY <1>1, TablesAssumption DEF PagingInit, PlacesOK
<1>6. OnPath
  BY <1>1 DEF OnPath, PagingInit, Top, HasTable, TableFor
<1>7. TablesOwned
  BY <1>1, InitIInv DEF TablesOwned, PagingInit
<1>8. DoneSoFar
  <2>. SUFFICES ASSUME NEW k \in DOMAIN Ranges, NEW n \in PagesOf(Ranges[k]),
                       k < range \/ (k = range /\ n < addr)
                PROVE  FALSE
    BY DEF DoneSoFar
  <2>1. k = 1 /\ n < FirstPage(Ranges[1])
    BY <1>1, <1>2 DEF PagingInit
  <2>. QED
    BY <1>3, <2>1 DEF PagesOf, RangeFacts
<1>. QED
  BY <1>1, <1>4, <1>5, <1>6, <1>7, <1>8 DEF PagingInv

LEMMA PagingSteps == PagingInv /\ [GraphicsNext]_<<vars, pagingVars, gfxVars>> => PagingInv'
<1>. SUFFICES ASSUME PagingInv, [GraphicsNext]_<<vars, pagingVars, gfxVars>> PROVE PagingInv'
  OBVIOUS
<1>1. CASE Next /\ (Booted => Paged /\ TablesKept) /\ UNCHANGED <<pagingVars, gfxVars>>
  BY <1>1, OthersKeep
<1>2. CASE PagingNext /\ UNCHANGED gfxVars
  BY <1>2, AlreadyMappedKeeps, DescendKeeps, CreateTableKeeps, GiveUpKeeps, MapLeafKeeps,
     NextRangeKeeps DEF PagingNext
<1>3. CASE Graphics /\ UNCHANGED pagingVars
  BY <1>3, GraphicsKeeps
<1>4. CASE UNCHANGED <<vars, pagingVars, gfxVars>>
  <2>1. /\ UNCHANGED <<framebuffer, tables, range, addr, walk, given_up>> /\ UNCHANGED vars
        /\ backbuffer' = backbuffer
    BY <1>4 DEF pagingVars, gfxVars
  <2>2. Ranges' = Ranges /\ (Paged' <=> Paged) /\ (InRange' <=> InRange)
    BY <2>1, RangesKept DEF Paged, InRange, Booted, EndPage, vars
  <2>3. \A n : Mapped(n)' <=> Mapped(n)
    BY <2>1 DEF Mapped, HasTable, E4, E3, E2, E1
  <2>4. OnPath'
    BY <2>1, <2>2 DEF PagingInv, OnPath, HasTable, TableFor, E4, E3, E2, E1
  <2>5. PagingTypes' /\ PlacesOK'
    BY <2>1, <2>2 DEF PagingInv, PagingTypes, PlacesOK, TablesType
  <2>6. TablesOwned'
    BY <2>1, <2>2, StepIInv DEF PagingInv, TablesOwned, vars
  <2>7. DoneSoFar'
    BY <2>1, <2>2, <2>3 DEF PagingInv, DoneSoFar, Done, PagesOf, FirstPage, EndPage
  <2>. QED
    BY <2>1, <2>2, <2>4, <2>5, <2>6, <2>7 DEF PagingInv
<1>. QED
  BY <1>1, <1>2, <1>3, <1>4 DEF GraphicsNext

-----------------------------------------------------------------------------
(* What paging promises.                                                   *)

\* Memory is mapped to itself or not at all.
TranslationOK == \A v \in Number : Translate(v) = IF Mapped(v) THEN v ELSE Unmapped

LEMMA TranslationIs == PlacesOK => TranslationOK
BY TranslateIs DEF PlacesOK, TranslationOK

LEMMA MappedAsAsked == PagingInv => RangesMapped
<1>. SUFFICES ASSUME PagingInv, Paged, NEW k \in DOMAIN Ranges,
                     NEW a \in Ranges[k].start .. Ranges[k].start + Ranges[k].size - 1,
                     (a \div PageSize) \notin given_up
              PROVE  Translate(a \div PageSize) = a \div PageSize
  BY DEF RangesMapped
<1>1. framebuffer \in Framebuffers /\ RangeFacts(k)
  BY RangeTypes DEF PagingInv, PagingTypes
<1>2. PICK r, n : r = Ranges[k] /\ n = a \div PageSize
  OBVIOUS
<1>3. r \in RangeType /\ r.start + r.size <= Numbers * PageSize
  BY <1>1, <1>2, RangeIs
<1>4. n \in PagesOf(r)
  BY <1>2, <1>3, PagesAre
<1>5. k < range
  BY <1>1, RangeIs DEF PagingInv, PagingTypes, Paged
<1>6. Done(n) /\ n \in Number
  BY <1>1, <1>2, <1>4, <1>5 DEF PagingInv, DoneSoFar, RangeFacts
<1>7. Mapped(n)
  BY <1>2, <1>6 DEF Done
<1>8. Translate(n) = n
  BY <1>6, <1>7, TranslationIs DEF PagingInv, TranslationOK
<1>. QED
  BY <1>2, <1>8

\* When paging is set up, every address of every range map_page was asked
\* for leads to itself, but in the pages memory ran out for: whatever tables
\* and huge pages the firmware left, however many tables were made on the
\* way and however the ranges share pages (memory.cpp lines 68-131).
THEOREM AllRangesMapped == GraphicsSpec => []RangesMapped
BY PagingStarts, PagingSteps, MappedAsAsked, PTL DEF GraphicsSpec

\* No step changes where a page leads, but map_page's last, for its page.
LEMMA MappingStep ==
  ASSUME PagingInv, [GraphicsNext]_<<vars, pagingVars, gfxVars>>
  PROVE  MappingKept \/ \E v \in Number : LeafEffect(v)
<1>1. ASSUME UNCHANGED tables PROVE MappingKept
  BY <1>1 DEF MappingKept, Mapped, HasTable, E4, E3, E2, E1
<1>2. CASE CreateTable
  BY <1>2, CreateTableMakes DEF TableEffect
<1>3. CASE MapLeaf
  BY <1>3, MapLeafMaps
<1>4. ASSUME ~CreateTable, ~MapLeaf PROVE UNCHANGED tables
  BY <1>4 DEF GraphicsNext, PagingNext, AlreadyMapped, Descend, GiveUp, NextRange, pagingVars
<1>. QED
  BY <1>1, <1>2, <1>3, <1>4

LEMMA SpaceStarts == PagingInv => Space!Init
<1>. SUFFICES ASSUME PagingInv, NEW v \in VirtualPage PROVE Translate(v) \in {v, Unmapped}
  BY DEF Space!Init
<1>1. v \in Number
  BY PagingAssumption DEF Number
<1>. QED
  BY <1>1, TranslationIs DEF PagingInv, TranslationOK

LEMMA SpaceSteps ==
  ASSUME PagingInv, PagingInv', [GraphicsNext]_<<vars, pagingVars, gfxVars>>
  PROVE  [Space!Next]_([v \in VirtualPage |-> Translate(v)])
<1>. DEFINE was  == [v \in VirtualPage |-> Translate(v)]
<1>1. TranslationOK /\ TranslationOK'
  <2>1. (PlacesOK => TranslationOK)'
    BY TranslationIs, PTL
  <2>. QED
    BY <2>1, TranslationIs DEF PagingInv
<1>2. VirtualPage \subseteq Number
  BY PagingAssumption DEF Number
<1>3. CASE MappingKept
  <2>1. \A v \in VirtualPage : Translate(v)' = Translate(v)
    BY <1>1, <1>2, <1>3 DEF MappingKept, TranslationOK
  <2>2. was' = was
    BY <2>1
  <2>. QED
    BY <2>2
<1>4. CASE \E v \in Number : LeafEffect(v)
  <2>1. PICK v \in Number : LeafEffect(v)
    BY <1>4
  <2>2. \A w \in VirtualPage : w # v => Translate(w)' = Translate(w)
    BY <1>1, <1>2, <2>1 DEF LeafEffect, TranslationOK
  <2>3. Translate(v)' = v
    BY <1>1, <2>1 DEF LeafEffect, TranslationOK
  <2>4. CASE v \in VirtualPage /\ Translate(v) = Unmapped
    <3>1. was' = [was EXCEPT ![v] = v]
      BY <2>2, <2>3
    <3>2. was[v] = Unmapped
      BY <2>4
    <3>. QED
      BY <2>4, <3>1, <3>2 DEF Space!Next, Space!Map
  <2>5. CASE v \notin VirtualPage \/ Translate(v) # Unmapped
    <3>1. \A w \in VirtualPage : Translate(w)' = Translate(w)
      BY <1>1, <2>1, <2>2, <2>3, <2>5 DEF TranslationOK
    <3>2. was' = was
      BY <3>1
    <3>. QED
      BY <3>2
  <2>. QED
    BY <2>4, <2>5
<1>. QED
  BY <1>3, <1>4, MappingStep

\* Paging implements the abstract address space, of every page: a page
\* leads to itself or nowhere, nothing done for one page changes where
\* another leads, and what leads somewhere keeps leading there
\* (get_or_create_table and map_page, memory.cpp lines 68-110).
THEOREM ImplementsSpace == GraphicsSpec => AddressSpaceSpec
BY PagingStarts, PagingSteps, SpaceStarts, SpaceSteps, PTL
   DEF GraphicsSpec, AddressSpaceSpec, Space!Spec

-----------------------------------------------------------------------------
(* The graphics regions.                                                   *)

\* Windows have the pages from the bottom of the heap to its next one.
HeapInv == /\ wm_heap_next \in Nat /\ wm_heap_next >= WindowHeap
           /\ windows \in Seq(SUBSET Nat)
           /\ \A i \in DOMAIN windows : windows[i] \subseteq WindowHeap .. wm_heap_next - 1
           /\ WindowBuffersDisjoint

LEMMA HeapStarts == GraphicsInit => HeapInv
BY GraphicsAssumption DEF GraphicsInit, HeapInv, WindowBuffersDisjoint

LEMMA WindowStep == ASSUME HeapInv, CreateWindow PROVE HeapInv'
<1>1. PICK size \in WindowSizes :
        /\ windows' = Append(windows, wm_heap_next .. wm_heap_next + size - 1)
        /\ wm_heap_next' = wm_heap_next + size
  BY DEF CreateWindow, HeapBump
<1>. PICK b, h, n : b = wm_heap_next .. wm_heap_next + size - 1 /\ h = wm_heap_next /\ n = Len(windows)
  OBVIOUS
<1>2. size \in Nat /\ h \in Nat /\ h >= WindowHeap /\ WindowHeap \in Nat /\ n \in Nat
  BY GraphicsAssumption DEF HeapInv
<1>3. wm_heap_next' \in Nat /\ wm_heap_next' = h + size /\ b = h .. h + size - 1
  BY <1>1, <1>2
<1>4. /\ windows' \in Seq(SUBSET Nat) /\ DOMAIN windows' = 1 .. n + 1 /\ DOMAIN windows = 1 .. n
      /\ windows'[n + 1] = b /\ \A i \in 1 .. n : windows'[i] = windows[i]
  BY <1>1, <1>2, <1>3 DEF HeapInv
<1>5. \A i \in 1 .. n : windows[i] \subseteq WindowHeap .. h - 1
  BY <1>4 DEF HeapInv
<1>6. \A i \in 1 .. n : windows[i] \cap b = {}
  BY <1>2, <1>3, <1>5
<1>7. \A i \in DOMAIN windows' : windows'[i] \subseteq WindowHeap .. wm_heap_next' - 1
  <2>. SUFFICES ASSUME NEW i \in 1 .. n + 1
                PROVE  windows'[i] \subseteq WindowHeap .. wm_heap_next' - 1
    BY <1>4
  <2>1. CASE i \in 1 .. n
    BY <1>2, <1>3, <1>4, <1>5, <2>1
  <2>2. CASE i = n + 1
    BY <1>2, <1>3, <1>4, <2>2
  <2>. QED
    BY <1>2, <2>1, <2>2
<1>8. WindowBuffersDisjoint'
  <2>. SUFFICES ASSUME NEW i \in 1 .. n + 1, NEW j \in 1 .. n + 1, i # j
                PROVE  windows'[i] \cap windows'[j] = {}
    BY <1>4 DEF WindowBuffersDisjoint
  <2>1. CASE i \in 1 .. n /\ j \in 1 .. n
    BY <1>4, <2>1 DEF HeapInv, WindowBuffersDisjoint
  <2>2. CASE i = n + 1 \/ j = n + 1
    BY <1>2, <1>4, <1>6, <2>2
  <2>. QED
    BY <1>2, <2>1, <2>2
<1>. QED
  BY <1>2, <1>3, <1>4, <1>7, <1>8 DEF HeapInv

LEMMA HeapSteps == HeapInv /\ [GraphicsNext]_<<vars, pagingVars, gfxVars>> => HeapInv'
<1>. SUFFICES ASSUME HeapInv, [GraphicsNext]_<<vars, pagingVars, gfxVars>> PROVE HeapInv'
  OBVIOUS
<1>1. ASSUME UNCHANGED <<windows, wm_heap_next>> PROVE HeapInv'
  BY <1>1 DEF HeapInv, WindowBuffersDisjoint
<1>2. CASE CreateWindow
  BY <1>2, WindowStep
<1>3. ASSUME ~CreateWindow PROVE UNCHANGED <<windows, wm_heap_next>>
  BY <1>3 DEF GraphicsNext, Graphics, GfxInit, GfxDraw, gfxVars
<1>. QED
  BY <1>1, <1>2, <1>3

\* No two windows share a pixel, however many are opened and of whatever
\* sizes (wm_create_window, wm.cpp lines 45-54).
THEOREM WindowsPrivate == GraphicsSpec => []WindowBuffersDisjoint
<1>1. HeapInv => WindowBuffersDisjoint
  BY DEF HeapInv
<1>. QED
  BY <1>1, HeapStarts, HeapSteps, PTL DEF GraphicsSpec

\* Nor does one share a pixel with the back buffer, on a screen of at most
\* the 4 MB between the two fixed addresses (gfx.cpp line 34, wm.cpp line 45).
THEOREM PixelsApart ==
  ASSUME BackBuffer + BackBufferPages <= WindowHeap
  PROVE  GraphicsSpec => []PixelsPrivate
<1>1. HeapInv => PixelsPrivate
  BY GraphicsAssumption DEF HeapInv, PixelsPrivate, WindowsAfterBuffer, Screen
<1>. QED
  BY <1>1, HeapStarts, HeapSteps, PTL DEF GraphicsSpec

-----------------------------------------------------------------------------
(* The allocator, when it manages nothing at or above the graphics regions. *)

AllBelow == \A p \in Usable : p < BackBuffer

LEMMA StoreElsewhere ==
  ASSUME AllBelow, IInv, HeapInv, Graphics
  PROVE  UNCHANGED vars
<1>1. ASSUME NEW pages, pages \subseteq Nat, \A p \in pages : p >= BackBuffer,
             NEW words, Stored(pages, words)
      PROVE  next' = next
  <2>1. PICK w \in words : next' = [p \in Usable |-> IF p \in pages THEN w ELSE next[p]]
    BY <1>1 DEF Stored
  <2>2. \A p \in Usable : p \notin pages
    BY <1>1, UsableType, GraphicsAssumption DEF AllBelow
  <2>3. next = [p \in Usable |-> next[p]]
    BY DEF IInv, TypeOK
  <2>. QED
    BY <2>1, <2>2, <2>3
<1>2. Screen \subseteq Nat /\ \A p \in Screen : p >= BackBuffer
  BY GraphicsAssumption DEF Screen
<1>3. CASE GfxInit
  BY <1>1, <1>2, <1>3 DEF GfxInit, unchangedList, vars, list
<1>4. CASE GfxDraw
  <2>1. PICK p \in Screen : Stored({p}, Pixels)
    BY <1>4 DEF GfxDraw
  <2>2. {p} \subseteq Nat /\ \A q \in {p} : q >= BackBuffer
    BY <1>2
  <2>. QED
    BY <1>1, <1>4, <2>1, <2>2 DEF GfxDraw, unchangedList, vars, list
<1>5. CASE CreateWindow
  <2>1. PICK size \in WindowSizes : Stored(wm_heap_next .. wm_heap_next + size - 1, Pixels)
    BY <1>5 DEF CreateWindow
  <2>2. PICK b : b = wm_heap_next .. wm_heap_next + size - 1
    OBVIOUS
  <2>3. b \subseteq Nat /\ \A q \in b : q >= BackBuffer
    BY <2>2, GraphicsAssumption DEF HeapInv
  <2>. QED
    BY <1>1, <1>5, <2>1, <2>2, <2>3 DEF CreateWindow, unchangedList, vars, list
<1>. QED
  BY <1>3, <1>4, <1>5 DEF Graphics

\* Making the page tables leaves the allocator whole.
LEMMA PagingKeepsList == ASSUME IInv, PagingNext PROVE IInv' /\ [Abstract!Next]_(Abstract!vars)
<1>1. CASE UNCHANGED vars
  BY <1>1, StepIInv, StepImplements
<1>2. CASE CreateTable \/ GiveUp
  <2>1. (Pop \/ PopNothing) /\ UNCHANGED <<desc, page, multi>>
    BY <1>2 DEF CreateTable, GiveUp
  <2>2. multi' \in [active : BOOLEAN, first : Usable \cup {NULL}, got : Nat, want : Nat]
    BY <2>1 DEF IInv, TypeOK
  <2>3. IInv'
    BY <2>1, <2>2, PopStep, NothingStep DEF IInv
  <2>4. Abstract!Next
    BY <2>1, PopImplements, NothingImplements
  <2>. QED
    BY <2>3, <2>4
<1>3. PagingNext => UNCHANGED vars \/ CreateTable \/ GiveUp
  BY DEF PagingNext, AlreadyMapped, Descend, MapLeaf, NextRange
<1>. QED
  BY <1>1, <1>2, <1>3

ListInv == AllBelow \/ backbuffer = NULL => IInv

LEMMA ListSteps ==
  ListInv /\ HeapInv /\ [GraphicsNext]_<<vars, pagingVars, gfxVars>> => ListInv'
<1>. SUFFICES ASSUME ListInv, HeapInv, [GraphicsNext]_<<vars, pagingVars, gfxVars>>,
                     AllBelow \/ backbuffer' = NULL
              PROVE  IInv'
  BY DEF ListInv, AllBelow
<1>1. CASE Next /\ UNCHANGED <<pagingVars, gfxVars>>
  BY <1>1, StepIInv DEF ListInv, gfxVars
<1>2. CASE PagingNext /\ UNCHANGED gfxVars
  BY <1>2, PagingKeepsList DEF ListInv, gfxVars
<1>3. CASE Graphics /\ UNCHANGED pagingVars
  <2>1. backbuffer' # NULL
    BY <1>3, GraphicsAssumption DEF Graphics, GfxInit, GfxDraw, CreateWindow, gfxVars, NULL
  <2>2. IInv /\ UNCHANGED vars
    BY <1>3, <2>1, StoreElsewhere DEF ListInv
  <2>. QED
    BY <2>2, StepIInv
<1>4. CASE UNCHANGED <<vars, pagingVars, gfxVars>>
  BY <1>4, StepIInv DEF ListInv, gfxVars
<1>. QED
  BY <1>1, <1>2, <1>3, <1>4 DEF GraphicsNext

LEMMA ListStarts == GraphicsInit => ListInv
BY InitIInv DEF GraphicsInit, ListInv

\* Until the back buffer is there, through all of init_pmm and init_paging,
\* the free list is whole on any machine (memory.cpp lines 16-131).
THEOREM ListUntilGraphics == GraphicsSpec => [](backbuffer = NULL => FreeListIntact)
<1>1. ListInv => (backbuffer = NULL => FreeListIntact)
  BY DEF ListInv, IInv
<1>. QED
  BY <1>1, HeapStarts, HeapSteps, ListStarts, ListSteps, PTL DEF GraphicsSpec

\* The fixed graphics regions are all that can break it: if the firmware
\* calls none of that memory free, the list stays whole, whatever is drawn
\* and whichever windows are opened.
THEOREM ListBesideGraphics == ASSUME AllBelow PROVE GraphicsSpec => []FreeListIntact
<1>1. ListInv => FreeListIntact
  BY DEF ListInv, IInv
<1>. QED
  BY <1>1, HeapStarts, HeapSteps, ListStarts, ListSteps, PTL DEF GraphicsSpec

LEMMA ListStepImplements ==
  ASSUME AllBelow, ListInv, HeapInv, [GraphicsNext]_<<vars, pagingVars, gfxVars>>
  PROVE  [Abstract!Next]_(Abstract!vars)
<1>1. IInv
  BY DEF ListInv
<1>2. CASE Next
  BY <1>1, <1>2, StepImplements
<1>3. CASE PagingNext
  BY <1>1, <1>3, PagingKeepsList
<1>4. CASE Graphics
  BY <1>1, <1>4, StoreElsewhere, StepImplements
<1>5. CASE UNCHANGED vars
  BY <1>1, <1>5, StepImplements
<1>. QED
  BY <1>2, <1>3, <1>4, <1>5 DEF GraphicsNext

\* On such a machine the page stack, the tables it gives to paging and the
\* graphics together implement the abstract allocator.
THEOREM ImplementsBesideGraphics == ASSUME AllBelow PROVE GraphicsSpec => AllocatorSpec
<1>1. GraphicsInit => Abstract!Init
  BY InitScanned DEF GraphicsInit, Init, Abstract!Init, Unheld
<1>2. ListInv /\ HeapInv /\ [GraphicsNext]_<<vars, pagingVars, gfxVars>>
         => [Abstract!Next]_(Abstract!vars)
  BY ListStepImplements
<1>. QED
  BY <1>1, <1>2, HeapStarts, HeapSteps, ListStarts, ListSteps, PTL
     DEF GraphicsSpec, AllocatorSpec, Abstract!Spec
=============================================================================
