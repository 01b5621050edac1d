----------------------------- MODULE SlabProofs ------------------------------
(***************************************************************************)
(* Proofs about Slab, for caches a slab of which fits its bitmap           *)
(* (SizesFit): live objects never overlap, the headers of all slabs agree  *)
(* with the pointers callers hold, and a cache grows only when it is full. *)
(***************************************************************************)
EXTENDS Slab, FiniteSetTheorems, TLAPS

Users(p) == {h \in Live : object[h].page = p}

Slots(p) == {SlotOf(object[h]) : h \in Users(p)}

\* What the header of a slab of cache c at p says, if bits and free are its
\* fields.
Booked(c, p, bits, free) ==
  /\ bits = Slots(p)
  /\ IsFiniteSet(Users(p)) /\ Cardinality(Users(p)) = Cardinality(bits)
  /\ free = Capacity(c) - Cardinality(Users(p))

\* A pointer that kmalloc could have given.
Given(ptr) ==
  /\ ptr.target <= Sizes[ptr.cache]
  /\ \E slot \in 0 .. Capacity(ptr.cache) - 1 :
       ptr = Pointer(ptr.page, slot, ptr.cache, ptr.target)

PagesOK == /\ avail \subseteq Frame /\ held \subseteq Frame /\ avail \cap held = {}
           /\ result \in Frame \cup {NULL}
           /\ slabs \in [Cache -> Seq(held)]
           /\ SlabsDistinct

ObjectsOK ==
  /\ object \in [Handle -> Objects \cup {NULL}]
  /\ \A h \in Live : object[h].page \in SlabPages(object[h].cache) /\ Given(object[h])
  /\ \A g, h \in Live : g # h /\ object[g].page = object[h].page
                          => SlotOf(object[g]) # SlotOf(object[h])

BooksOK ==
  /\ bitmap \in [Frame -> SUBSET (0 .. BitmapBits - 1)]
  /\ free_slots \in [Frame -> 0 .. CountLimit - 1]
  /\ \A c \in Cache : \A p \in SlabPages(c) : Booked(c, p, bitmap[p], free_slots[p])

IInv == PagesOK /\ ObjectsOK /\ BooksOK

-----------------------------------------------------------------------------
(* Arithmetic.                                                             *)

LEMMA Division ==
  ASSUME NEW n \in Int, NEW s \in Nat \ {0}
  PROVE  n \div s \in Int /\ s * (n \div s) <= n /\ n < s * (n \div s) + s
  OBVIOUS

LEMMA Multiples ==
  ASSUME NEW s \in Nat \ {0}, NEW i \in Int, NEW j \in Int, i < j
  PROVE  s * i + s <= s * j
<1>1. s * (j - i - 1) >= 0
  OBVIOUS
<1>2. s * (j - i - 1) = s * j - s * i - s
  OBVIOUS
<1> QED
  BY <1>1, <1>2

LEMMA Quotients ==
  ASSUME NEW s \in Nat \ {0}, NEW k \in Nat
  PROVE  (s * k) \div s = k
<1> DEFINE q == (s * k) \div s
<1>1. q \in Int /\ s * q <= s * k /\ s * k < s * q + s
  <2>1. s * k \in Int
    OBVIOUS
  <2> QED
    BY <2>1, Division
<1>2. ~(q < k)
  BY <1>1, Multiples
<1>3. ~(k < q)
  BY <1>1, Multiples
<1> HIDE DEF q
<1>4. q = k
  BY <1>1, <1>2, <1>3
<1> QED
  BY <1>4 DEF q

\* A slab's objects end before its page does.
LEMMA Capacities ==
  ASSUME NEW c \in Cache
  PROVE  /\ Sizes[c] \in Nat \ {0} /\ Capacity(c) \in Int
         /\ HeaderSize + Sizes[c] * Capacity(c) <= PageSize
<1>1. Sizes[c] \in Nat \ {0}
  BY SizesAssumption DEF Cache
<1>2. PageSize - HeaderSize \in Int
  BY LayoutAssumption
<1>3. /\ Capacity(c) \in Int
      /\ Sizes[c] * Capacity(c) <= PageSize - HeaderSize
  BY <1>1, <1>2, Division DEF Capacity
<1>4. Sizes[c] * Capacity(c) \in Int
  BY <1>1, <1>3
<1> QED
  BY <1>1, <1>3, <1>4, LayoutAssumption

\* kfree finds the slot that kmalloc took.
LEMMA SlotBack ==
  ASSUME NEW p, NEW slot \in Nat, NEW c \in Cache, NEW target
  PROVE  SlotOf(Pointer(p, slot, c, target)) = slot
<1> DEFINE ptr == Pointer(p, slot, c, target)
<1>1. Sizes[c] \in Nat \ {0}
  BY Capacities
<1>2. ptr.offset = HeaderSize + slot * Sizes[c] /\ ptr.cache = c
  BY DEF Pointer
<1> HIDE DEF ptr
<1>3. ptr.offset - HeaderSize = Sizes[c] * slot
  BY <1>1, <1>2, LayoutAssumption
<1>4. SlotOf(ptr) = (Sizes[c] * slot) \div Sizes[c]
  BY <1>2, <1>3 DEF SlotOf
<1>5. SlotOf(ptr) = slot
  BY <1>1, <1>4, Quotients
<1> QED
  BY <1>5 DEF ptr

LEMMA SlotOfGiven ==
  ASSUME NEW ptr \in Objects, Given(ptr)
  PROVE  /\ SlotOf(ptr) \in 0 .. Capacity(ptr.cache) - 1
         /\ ptr.offset = HeaderSize + Sizes[ptr.cache] * SlotOf(ptr)
<1>1. PICK slot \in 0 .. Capacity(ptr.cache) - 1 :
        ptr = Pointer(ptr.page, slot, ptr.cache, ptr.target)
  BY DEF Given
<1>2. ptr.cache \in Cache
  BY DEF Objects
<1>3. slot \in Nat /\ Sizes[ptr.cache] \in Nat
  BY <1>1, <1>2, Capacities
<1>4. SlotOf(ptr) = slot
  BY <1>1, <1>2, <1>3, SlotBack
<1>5. ptr.offset = HeaderSize + slot * Sizes[ptr.cache]
  BY <1>1 DEF Pointer
<1> QED
  BY <1>1, <1>3, <1>4, <1>5

\* The lowest clear bit of a header with a free slot is one of its slots.
LEMMA FreeSlot ==
  ASSUME SizesFit, NEW c \in Cache, NEW bits \in SUBSET Nat, NEW slot \in ClearBit(bits),
         IsFiniteSet(bits), Cardinality(bits) < Capacity(c)
  PROVE  /\ slot \in 0 .. Capacity(c) - 1 /\ slot \notin bits
         /\ slot % BitmapBits = slot
<1> DEFINE all == 0 .. Capacity(c) - 1
<1>1. Capacity(c) \in 1 .. BitmapBits /\ BitmapBits \in Nat
  BY LayoutAssumption DEF SizesFit
<1>2. IsFiniteSet(all) /\ Cardinality(all) = Capacity(c)
  BY <1>1, FS_Interval
<1>3. ~(all \subseteq bits)
  <2>1. all \subseteq bits => Cardinality(all) <= Cardinality(bits)
    BY FS_Subset
  <2> QED
    BY <1>1, <1>2, <2>1, FS_CardinalityType
<1>4. PICK b \in all : b \notin bits
  BY <1>3
<1>5. bits # 0 .. BitmapBits - 1
  BY <1>1, <1>4
<1>6. slot \in 0 .. BitmapBits - 1 /\ slot \notin bits /\ 0 .. slot - 1 \subseteq bits
  BY <1>5 DEF ClearBit
<1>7. ~(b < slot)
  BY <1>4, <1>6
<1> QED
  BY <1>1, <1>4, <1>6, <1>7

-----------------------------------------------------------------------------
(* Lists of slabs.                                                         *)

LEMMA Concat ==
  ASSUME NEW S, NEW s \in Seq(S), NEW p
  PROVE  /\ <<p>> \o s \in Seq(S \cup {p})
         /\ Len(<<p>> \o s) = Len(s) + 1
         /\ (<<p>> \o s)[1] = p
         /\ \A k \in 1 .. Len(s) : (<<p>> \o s)[k + 1] = s[k]
  OBVIOUS

LEMMA OneCache ==
  ASSUME SlabsDistinct, NEW c \in Cache, NEW d \in Cache, NEW p \in SlabPages(c), p \in SlabPages(d)
  PROVE  c = d
BY DEF SlabsDistinct, SlabPages

\* A page that was free becomes a slab: it is in the list of one cache, and
\* everything else stays.
LEMMA NewSlab ==
  ASSUME PagesOK, NEW c \in Cache, NEW p \in Frame, TakePage(p),
         slabs' = [slabs EXCEPT ![c] = <<p>> \o @]
  PROVE  /\ PagesOK'
         /\ \A d \in Cache : SlabPages(d)' = IF d = c THEN SlabPages(c) \cup {p} ELSE SlabPages(d)
         /\ \A d \in Cache : p \notin SlabPages(d)
<1>1. /\ p \in avail /\ avail' = avail \ {p} /\ held' = held \cup {p} /\ result' = p
  BY DEF TakePage, Frames!Grant
<1>2. \A d \in Cache : slabs[d] \in Seq(held)
  BY DEF PagesOK
<1>3. \A d \in Cache : \A k \in DOMAIN slabs[d] : slabs[d][k] \in held
  BY <1>2
<1>4. \A d \in Cache : p \notin SlabPages(d)
  BY <1>1, <1>3 DEF PagesOK, SlabPages
<1>5. /\ slabs'[c] = <<p>> \o slabs[c]
      /\ \A d \in Cache \ {c} : slabs'[d] = slabs[d]
      /\ DOMAIN slabs' = Cache
      /\ slabs' \in [Cache -> {slabs'[d] : d \in Cache}]
  BY DEF PagesOK
<1>6. /\ slabs'[c] \in Seq(held') /\ Len(slabs'[c]) = Len(slabs[c]) + 1 /\ slabs'[c][1] = p
      /\ \A k \in 1 .. Len(slabs[c]) : slabs'[c][k + 1] = slabs[c][k]
  BY <1>1, <1>2, <1>5, Concat
<1>7. /\ \A d \in Cache : Len(slabs[d]) \in Nat /\ DOMAIN slabs[d] = 1 .. Len(slabs[d])
      /\ DOMAIN slabs'[c] = 1 .. Len(slabs[c]) + 1
  BY <1>2, <1>6
<1>8. \A k \in DOMAIN slabs'[c] : \/ k = 1 /\ slabs'[c][k] = p
                                  \/ k - 1 \in DOMAIN slabs[c] /\ slabs'[c][k] = slabs[c][k - 1]
  <2> SUFFICES ASSUME NEW k \in DOMAIN slabs'[c], k # 1
               PROVE  k - 1 \in DOMAIN slabs[c] /\ slabs'[c][k] = slabs[c][k - 1]
    BY <1>6
  <2>1. k - 1 \in 1 .. Len(slabs[c]) /\ (k - 1) + 1 = k
    BY <1>7
  <2> QED
    BY <1>6, <1>7, <2>1
<1>9. \A d \in Cache : SlabPages(d)' = IF d = c THEN SlabPages(c) \cup {p} ELSE SlabPages(d)
  <2>1. \A d \in Cache \ {c} : SlabPages(d)' = SlabPages(d)
    BY <1>5 DEF SlabPages
  <2>2. SlabPages(c)' \subseteq SlabPages(c) \cup {p}
    BY <1>8 DEF SlabPages
  <2>3. p \in SlabPages(c)'
    BY <1>6, <1>7 DEF SlabPages
  <2>4. SlabPages(c) \subseteq SlabPages(c)'
    <3> SUFFICES ASSUME NEW k \in DOMAIN slabs[c] PROVE slabs[c][k] \in SlabPages(c)'
      BY DEF SlabPages
    <3>1. k + 1 \in DOMAIN slabs'[c] /\ slabs'[c][k + 1] = slabs[c][k]
      BY <1>6, <1>7
    <3> QED
      BY <3>1 DEF SlabPages
  <2> QED
    BY <2>1, <2>2, <2>3, <2>4
<1>10. slabs' \in [Cache -> Seq(held')]
  <2>1. \A d \in Cache \ {c} : slabs'[d] \in Seq(held')
    BY <1>1, <1>2, <1>5
  <2> QED
    BY <1>5, <1>6, <2>1
<1>11. SlabsDistinct'
  <2> SUFFICES ASSUME NEW d \in Cache, NEW e \in Cache,
                      NEW j \in DOMAIN slabs'[d], NEW k \in DOMAIN slabs'[e],
                      slabs'[d][j] = slabs'[e][k]
               PROVE  d = e /\ j = k
    BY DEF SlabsDistinct
  <2>1. \A f \in Cache : \A i \in DOMAIN slabs'[f] :
          \/ f = c /\ i = 1 /\ slabs'[f][i] = p
          \/ f = c /\ i - 1 \in DOMAIN slabs[c] /\ slabs'[f][i] = slabs[c][i - 1]
          \/ f # c /\ i \in DOMAIN slabs[f] /\ slabs'[f][i] = slabs[f][i]
    BY <1>5, <1>8
  <2>2. \A f \in Cache : \A i \in DOMAIN slabs[f] : slabs[f][i] # p
    BY <1>4 DEF SlabPages
  <2>3. j \in Int /\ k \in Int
    BY <1>5, <1>7
  <2> QED
    BY <2>1, <2>2, <2>3 DEF PagesOK, SlabsDistinct
<1> QED
  BY <1>1, <1>4, <1>9, <1>10, <1>11 DEF PagesOK
-----------------------------------------------------------------------------
(* kmalloc.                                                                *)

\* A slot of slab p is taken for the unused handle h.  p may be a page that
\* has just become a slab: what its header is taken for is what it should
\* say.
LEMMA Taken ==
  ASSUME SizesFit, ObjectsOK, BooksOK, SlabsDistinct',
         NEW h \in Handle, object[h] = NULL, NEW c \in Cache, NEW p \in Frame,
         NEW target \in Nat, target <= Sizes[c],
         NEW bits, NEW free, Booked(c, p, bits, free), free # 0,
         \A g \in Users(p) : object[g].cache = c,
         TakeSlot(h, p, c, target, bits, free),
         p \in SlabPages(c)',
         \A d \in Cache : /\ SlabPages(d) \subseteq SlabPages(d)'
                         /\ SlabPages(d)' \subseteq SlabPages(d) \cup {p}
  PROVE  ObjectsOK' /\ BooksOK'
<1>1. /\ Capacity(c) \in 1 .. BitmapBits /\ BitmapBits \in Nat \ {0}
      /\ CountLimit \in Nat /\ CountLimit > BitmapBits
  BY LayoutAssumption DEF SizesFit
<1>2. \A g \in Users(p) : SlotOf(object[g]) \in 0 .. Capacity(c) - 1
  BY SlotOfGiven DEF ObjectsOK, Users, Live
<1>3. bits \in SUBSET (0 .. Capacity(c) - 1)
  BY <1>2 DEF Booked, Slots
<1> DEFINE all == 0 .. Capacity(c) - 1
<1>4. /\ IsFiniteSet(bits) /\ Cardinality(bits) \in Nat
      /\ Cardinality(bits) <= Capacity(c)
  <2>1. Capacity(c) - 1 \in Int /\ ~(0 > Capacity(c) - 1) /\ Capacity(c) - 1 - 0 + 1 = Capacity(c)
    BY <1>1
  <2>2. IsFiniteSet(all) /\ Cardinality(all) = Capacity(c)
    BY <2>1, FS_Interval
  <2>3. bits \in SUBSET all
    BY <1>3
  <2> HIDE DEF all
  <2> QED
    BY <2>2, <2>3, FS_Subset, FS_CardinalityType
<1>5. Cardinality(bits) < Capacity(c) /\ free = Capacity(c) - Cardinality(bits)
  BY <1>1, <1>4 DEF Booked
<1>6. PICK slot \in ClearBit(bits) :
        /\ bitmap' = [bitmap EXCEPT ![p] = bits \cup {slot % BitmapBits}]
        /\ object' = [object EXCEPT ![h] = Pointer(p, slot, c, target)]
  BY DEF TakeSlot
<1>7. slot \in 0 .. Capacity(c) - 1 /\ slot \notin bits /\ slot % BitmapBits = slot
  <2>1. bits \in SUBSET Nat
    BY <1>3
  <2> QED
    BY <1>4, <1>5, <2>1, FreeSlot
<1>8. free_slots' = [free_slots EXCEPT ![p] = free - 1] /\ free - 1 \in 0 .. CountLimit - 1
  <2>1. free \in 1 .. CountLimit - 1
    BY <1>1, <1>4, <1>5
  <2>2. (free - 1) % CountLimit = free - 1
    BY <1>1, <2>1
  <2>3. free_slots' = [free_slots EXCEPT ![p] = (free - 1) % CountLimit]
    BY DEF TakeSlot
  <2>4. free_slots' = [free_slots EXCEPT ![p] = free - 1]
    BY <2>2, <2>3, Zenon
  <2>5. free - 1 \in 0 .. CountLimit - 1
    BY <1>1, <2>1
  <2> QED
    BY <2>4, <2>5
<1> DEFINE ptr == Pointer(p, slot, c, target)
<1>9. /\ ptr \in Objects /\ ptr # NULL
      /\ ptr.page = p /\ ptr.cache = c /\ ptr.target = target
      /\ SlotOf(ptr) = slot /\ Given(ptr)
  <2>1. HeaderSize + slot * Sizes[c] \in Nat
    BY <1>1, <1>7, Capacities, LayoutAssumption
  <2>2. ptr \in Objects
    BY <2>1 DEF Pointer, Objects
  <2>3. ptr.page = p /\ ptr.cache = c /\ ptr.target = target
    BY DEF Pointer
  <2>4. SlotOf(ptr) = slot
    BY <1>7, SlotBack
  <2> QED
    BY <1>7, <2>2, <2>3, <2>4, NullAssumption DEF Given
<1> HIDE DEF ptr
<1>10. /\ object'[h] = ptr /\ \A g \in Handle \ {h} : object'[g] = object[g]
       /\ object' \in [Handle -> Objects \cup {NULL}]
  BY <1>6, <1>9 DEF ObjectsOK, ptr
<1>11. Live' = Live \cup {h} /\ h \notin Live
  BY <1>9, <1>10 DEF Live
<1>12. /\ Users(p)' = Users(p) \cup {h} /\ h \notin Users(p)
       /\ \A q : q # p => Users(q)' = Users(q)
  BY <1>9, <1>10, <1>11 DEF Users, Live
<1>13. \A g \in Live : object'[g] = object[g]
  BY <1>10, <1>11 DEF Live
<1>14. ObjectsOK'
  <2>1. \A g \in Live' : (object[g].page \in SlabPages(object[g].cache) /\ Given(object[g]))'
    <3> SUFFICES ASSUME NEW g \in Live'
                 PROVE  (object[g].page \in SlabPages(object[g].cache) /\ Given(object[g]))'
      OBVIOUS
    <3>1. CASE g = h
      BY <1>9, <1>10, <3>1
    <3>2. CASE g # h
      <4>1. g \in Live /\ object'[g] = object[g] /\ object[g] \in Objects
        BY <1>11, <1>13, <3>2 DEF ObjectsOK, Live
      <4> QED
        BY <4>1 DEF ObjectsOK, Objects
    <3> QED
      BY <3>1, <3>2
  <2>2. \A g \in Users(p) : SlotOf(object[g]) # slot
    BY <1>7 DEF Booked, Slots
  <2>3. \A f, g \in Live' : f # g /\ object'[f].page = object'[g].page
                            => SlotOf(object'[f]) # SlotOf(object'[g])
    BY <1>9, <1>10, <1>11, <1>13, <2>2 DEF ObjectsOK, Users
  <2> QED
    BY <1>10, <2>1, <2>3 DEF ObjectsOK, Given, Pointer
<1>15. \A q : q # p => Slots(q)' = Slots(q)
  BY <1>12, <1>13 DEF Slots, Users, SlotOf
<1>16. Slots(p)' = bits \cup {slot}
  <2>1. \A g \in Users(p) : SlotOf(object'[g]) = SlotOf(object[g])
    BY <1>13 DEF Users
  <2>2. Slots(p)' = {SlotOf(object'[g]) : g \in Users(p) \cup {h}}
    BY <1>12 DEF Slots, SlotOf
  <2> QED
    BY <1>9, <1>10, <2>1, <2>2 DEF Booked, Slots
<1>17. bitmap'[p] = bits \cup {slot} /\ free_slots'[p] = free - 1
  BY <1>6, <1>7, <1>8 DEF BooksOK
<1>18. Booked(c, p, bitmap[p], free_slots[p])'
  <2>1. /\ IsFiniteSet(Users(p) \cup {h})
        /\ Cardinality(Users(p) \cup {h}) = Cardinality(Users(p)) + 1
    BY <1>12, FS_AddElement DEF Booked
  <2>2. Cardinality(bits \cup {slot}) = Cardinality(bits) + 1
    BY <1>4, <1>7, FS_AddElement
  <2> QED
    BY <1>1, <1>4, <1>5, <1>12, <1>16, <1>17, <2>1, <2>2 DEF Booked, Capacity
<1>19. BooksOK'
  <2>1. bitmap' \in [Frame -> SUBSET (0 .. BitmapBits - 1)]
    <3>1. bits \cup {slot} \in SUBSET (0 .. BitmapBits - 1)
      BY <1>1, <1>3, <1>7
    <3>2. bitmap' = [bitmap EXCEPT ![p] = bits \cup {slot}]
      BY <1>6, <1>7
    <3> QED
      BY <3>1, <3>2 DEF BooksOK
  <2>3. free_slots' \in [Frame -> 0 .. CountLimit - 1]
    BY <1>8 DEF BooksOK
  <2>2. ASSUME NEW d \in Cache, NEW q \in SlabPages(d)'
        PROVE  Booked(d, q, bitmap[q], free_slots[q])'
    <3>1. CASE q = p
      <4>1. d = c
        BY <2>2, <3>1 DEF SlabsDistinct, SlabPages
      <4> QED
        BY <1>18, <3>1, <4>1
    <3>2. CASE q # p
      <4>1. q \in SlabPages(d) /\ Booked(d, q, bitmap[q], free_slots[q])
        BY <2>2, <3>2 DEF BooksOK
      <4>2. bitmap'[q] = bitmap[q] /\ free_slots'[q] = free_slots[q]
        BY <1>6, <1>8, <3>2 DEF BooksOK
      <4> QED
        BY <1>12, <1>15, <3>2, <4>1, <4>2 DEF Booked, Capacity
    <3> QED
      BY <3>1, <3>2
  <2> QED
    BY <2>1, <2>2, <2>3 DEF BooksOK
<1> QED
  BY <1>14, <1>19
-----------------------------------------------------------------------------
(* kfree.                                                                  *)

LEMMA Freed ==
  ASSUME SizesFit, PagesOK, ObjectsOK, BooksOK, NEW h \in Handle, object[h] # NULL,
         bitmap' = [bitmap EXCEPT ![object[h].page] = @ \ {SlotOf(object[h]) % BitmapBits}],
         free_slots' = [free_slots EXCEPT ![object[h].page] = (@ + 1) % CountLimit],
         object' = [object EXCEPT ![h] = NULL],
         UNCHANGED <<frameVars, slabs>>
  PROVE  ObjectsOK' /\ BooksOK'
<1> PICK ptr, p, c, slot :
      ptr = object[h] /\ p = ptr.page /\ c = ptr.cache /\ slot = SlotOf(ptr)
  OBVIOUS
<1>1. /\ BitmapBits \in Nat \ {0} /\ CountLimit \in Nat /\ CountLimit > BitmapBits
  BY LayoutAssumption
<1>2. /\ h \in Live /\ ptr \in Objects /\ p \in Frame /\ c \in Cache
      /\ p \in SlabPages(c) /\ Given(ptr)
  BY DEF ObjectsOK, Live, Objects
<1>3. Capacity(c) \in 1 .. BitmapBits
  BY <1>2 DEF SizesFit
<1>4. slot \in 0 .. Capacity(c) - 1 /\ slot % BitmapBits = slot
  <2>1. slot \in 0 .. Capacity(c) - 1
    BY <1>2, SlotOfGiven
  <2> QED
    BY <1>1, <1>3, <2>1
<1>5. Booked(c, p, bitmap[p], free_slots[p])
  BY <1>2 DEF BooksOK
<1>6. h \in Users(p) /\ slot \in bitmap[p]
  BY <1>2, <1>5 DEF Users, Booked, Slots
<1>7. /\ bitmap' = [bitmap EXCEPT ![p] = bitmap[p] \ {slot}]
      /\ free_slots' = [free_slots EXCEPT ![p] = (free_slots[p] + 1) % CountLimit]
  BY <1>4 DEF BooksOK
<1>8. \A g \in Users(p) : g # h => SlotOf(object[g]) # slot
  BY <1>2 DEF ObjectsOK, Users
<1>9. /\ object' \in [Handle -> Objects \cup {NULL}]
      /\ Live' = Live \ {h} /\ \A g \in Live \ {h} : object'[g] = object[g]
  BY DEF ObjectsOK, Live
<1>10. /\ Users(p)' = Users(p) \ {h}
       /\ \A q : q # p => Users(q)' = Users(q)
  BY <1>9 DEF Users, Live
<1>11. ObjectsOK'
  <2>1. \A g \in Live' : (object[g].page \in SlabPages(object[g].cache) /\ Given(object[g]))'
    <3> SUFFICES ASSUME NEW g \in Live'
                 PROVE  (object[g].page \in SlabPages(object[g].cache) /\ Given(object[g]))'
      OBVIOUS
    <3>1. g \in Live /\ object'[g] = object[g]
      BY <1>9
    <3>2. object[g].page \in SlabPages(object[g].cache) /\ Given(object[g])
      BY <3>1 DEF ObjectsOK
    <3> QED
      BY <3>1, <3>2 DEF SlabPages, Given, Pointer
  <2> QED
    BY <1>9, <2>1 DEF ObjectsOK, SlotOf
<1>12. \A q : q # p => Slots(q)' = Slots(q)
  BY <1>9, <1>10 DEF Slots, Users, SlotOf
<1>13. Slots(p)' = bitmap[p] \ {slot}
  <2>1. \A g \in Users(p) \ {h} : SlotOf(object'[g]) = SlotOf(object[g])
    BY <1>9 DEF Users
  <2>2. Slots(p)' = {SlotOf(object'[g]) : g \in Users(p) \ {h}}
    BY <1>10 DEF Slots, SlotOf
  <2>3. Slots(p) = {SlotOf(object[g]) : g \in Users(p) \ {h}} \cup {slot}
    BY <1>6 DEF Slots
  <2> QED
    BY <1>5, <1>8, <2>1, <2>2, <2>3 DEF Booked
<1>14. /\ IsFiniteSet(bitmap[p]) /\ Cardinality(bitmap[p]) \in 1 .. Capacity(c)
       /\ Cardinality(bitmap[p] \ {slot}) = Cardinality(bitmap[p]) - 1
  <2>1. bitmap[p] \in SUBSET (0 .. BitmapBits - 1)
    BY <1>2 DEF BooksOK
  <2>2. IsFiniteSet(bitmap[p])
    <3>1. BitmapBits - 1 \in Int
      BY <1>1
    <3>2. IsFiniteSet(0 .. BitmapBits - 1)
      BY <3>1, FS_Interval
    <3>3. bitmap[p] \subseteq 0 .. BitmapBits - 1
      BY <2>1, Zenon
    <3> QED
      BY <3>2, <3>3, FS_Subset
  <2>3. /\ Cardinality(bitmap[p] \ {slot}) = Cardinality(bitmap[p]) - 1
        /\ IsFiniteSet(bitmap[p] \ {slot})
    BY <1>6, <2>2, FS_RemoveElement
  <2>4. Cardinality(bitmap[p]) \in Nat /\ Cardinality(bitmap[p] \ {slot}) \in Nat
    BY <2>2, <2>3, FS_CardinalityType
  <2>5. free_slots[p] \in 0 .. CountLimit - 1
    BY <1>2 DEF BooksOK
  <2> QED
    BY <1>3, <1>5, <2>2, <2>3, <2>4, <2>5 DEF Booked
<1>15. free_slots' = [free_slots EXCEPT ![p] = free_slots[p] + 1] /\ free_slots[p] + 1 \in 0 .. CountLimit - 1
  <2>1. free_slots[p] \in 0 .. CountLimit - 2
    BY <1>1, <1>3, <1>5, <1>14 DEF Booked
  <2>2. (free_slots[p] + 1) % CountLimit = free_slots[p] + 1
    BY <1>1, <2>1
  <2>3. free_slots' = [free_slots EXCEPT ![p] = free_slots[p] + 1]
    BY <1>7, <2>2, Zenon
  <2>4. free_slots[p] + 1 \in 0 .. CountLimit - 1
    BY <1>1, <2>1
  <2> QED
    BY <2>3, <2>4
<1>16. Booked(c, p, bitmap[p], free_slots[p])'
  <2>1. /\ IsFiniteSet(Users(p) \ {h})
        /\ Cardinality(Users(p) \ {h}) = Cardinality(Users(p)) - 1
    BY <1>5, <1>6, FS_RemoveElement DEF Booked
  <2>2. bitmap'[p] = bitmap[p] \ {slot} /\ free_slots'[p] = free_slots[p] + 1
    BY <1>2, <1>7, <1>15 DEF BooksOK
  <2>3. Users(p)' = Users(p) \ {h} /\ Slots(p)' = bitmap'[p]
    BY <1>10, <1>13, <2>2
  <2>4. Cardinality(Users(p)) = Cardinality(bitmap[p])
        /\ free_slots[p] = Capacity(c) - Cardinality(Users(p))
    BY <1>5 DEF Booked
  <2>5. /\ Cardinality(Users(p) \ {h}) = Cardinality(bitmap'[p])
        /\ free_slots'[p] = Capacity(c) - Cardinality(Users(p) \ {h})
    <3> DEFINE n == Cardinality(Users(p))
    <3>1. Capacity(c) \in Int /\ n \in Int
      BY <1>3, <1>14, <2>4
    <3>2. Cardinality(Users(p) \ {h}) = n - 1 /\ Cardinality(bitmap'[p]) = n - 1
      BY <1>14, <2>1, <2>2, <2>4
    <3>3. free_slots'[p] = Capacity(c) - n + 1
      BY <2>2, <2>4
    <3> HIDE DEF n
    <3>4. free_slots'[p] = Capacity(c) - (n - 1)
      BY <3>1, <3>3
    <3> QED
      BY <3>2, <3>4
  <2> QED
    BY <2>1, <2>3, <2>5 DEF Booked
<1>17. BooksOK'
  <2>1. bitmap' \in [Frame -> SUBSET (0 .. BitmapBits - 1)]
    <3>1. bitmap \in [Frame -> SUBSET (0 .. BitmapBits - 1)]
      BY DEF BooksOK
    <3>2. bitmap[p] \ {slot} \in SUBSET (0 .. BitmapBits - 1)
      BY <1>2, <3>1, Zenon
    <3> QED
      BY <1>7, <3>1, <3>2, Zenon
  <2>2. free_slots' \in [Frame -> 0 .. CountLimit - 1]
    BY <1>15 DEF BooksOK
  <2>3. ASSUME NEW d \in Cache, NEW q \in SlabPages(d)'
        PROVE  Booked(d, q, bitmap[q], free_slots[q])'
    <3>1. q \in SlabPages(d) /\ Booked(d, q, bitmap[q], free_slots[q])
      BY <2>3 DEF BooksOK, SlabPages
    <3>2. CASE q = p
      <4>1. d = c
        BY <1>2, <3>1, <3>2, OneCache DEF PagesOK
      <4> QED
        BY <1>16, <3>2, <4>1
    <3>3. CASE q # p
      <4>1. bitmap'[q] = bitmap[q] /\ free_slots'[q] = free_slots[q]
        BY <1>7, <1>15, <3>3 DEF BooksOK
      <4> QED
        BY <1>10, <1>12, <3>1, <3>3, <4>1 DEF Booked, Capacity
    <3> QED
      BY <3>2, <3>3
  <2> QED
    BY <2>1, <2>2, <2>3 DEF BooksOK
<1> QED
  BY <1>11, <1>17

-----------------------------------------------------------------------------
(* The invariant.                                                          *)

LEMMA InitIInv == Init => IInv
<1> SUFFICES ASSUME Init PROVE IInv
  OBVIOUS
<1>1. Live = {}
  BY DEF Init, Live
<1>2. \A c \in Cache : SlabPages(c) = {} /\ slabs[c] = <<>>
  BY DEF Init, SlabPages
<1>3. PagesOK
  BY <1>2 DEF Init, PagesOK, SlabsDistinct
<1>4. ObjectsOK
  BY <1>1 DEF Init, ObjectsOK
<1>5. BooksOK
  <2>1. {} \in SUBSET (0 .. BitmapBits - 1) /\ 0 \in 0 .. CountLimit - 1
    BY LayoutAssumption
  <2> QED
    BY <1>2, <2>1 DEF Init, BooksOK
<1> QED
  BY <1>3, <1>4, <1>5 DEF IInv

\* A page whose slab is in cache c holds objects of c only.
LEMMA UsersOfCache ==
  ASSUME PagesOK, ObjectsOK, NEW c \in Cache, NEW p \in SlabPages(c)
  PROVE  \A g \in Users(p) : object[g].cache = c
<1> SUFFICES ASSUME NEW g \in Users(p) PROVE object[g].cache = c
  OBVIOUS
<1>1. object[g] \in Objects /\ object[g].page = p /\ p \in SlabPages(object[g].cache)
  BY DEF Users, ObjectsOK, Live
<1>2. object[g].cache \in Cache
  BY <1>1 DEF Objects
<1> QED
  BY <1>1, <1>2, OneCache DEF PagesOK

\* A step that leaves slabs and handles alone.
LEMMA Untouched ==
  ASSUME ObjectsOK, BooksOK, UNCHANGED <<slabs, bitmap, free_slots, object>>
  PROVE  ObjectsOK' /\ BooksOK'
<1>1. ObjectsOK'
  BY DEF ObjectsOK, Live, SlabPages, Given, Pointer, SlotOf
<1>2. \A p : Users(p)' = Users(p)
  BY DEF Users, Live
<1>3. \A p : Slots(p)' = Slots(p)
  BY <1>2 DEF Slots
<1>4. ASSUME NEW c \in Cache, NEW p \in SlabPages(c)'
      PROVE  Booked(c, p, bitmap[p], free_slots[p])'
  <2>1. p \in SlabPages(c) /\ Booked(c, p, bitmap[p], free_slots[p])
    BY <1>4 DEF SlabPages, BooksOK
  <2> QED
    BY <1>2, <1>3, <2>1 DEF Booked
<1>5. /\ bitmap' \in [Frame -> SUBSET (0 .. BitmapBits - 1)]
      /\ free_slots' \in [Frame -> 0 .. CountLimit - 1]
  BY DEF BooksOK
<1> QED
  BY <1>1, <1>4, <1>5 DEF BooksOK

LEMMA StepIInv == ASSUME SizesFit, IInv, [Next]_vars PROVE IInv'
<1>1. CASE UNCHANGED vars
  <2>1. PagesOK'
    BY <1>1 DEF IInv, vars, frameVars, PagesOK, SlabsDistinct
  <2>2. ObjectsOK' /\ BooksOK'
    BY <1>1, Untouched DEF IInv, vars
  <2> QED
    BY <2>1, <2>2 DEF IInv
\* Steps that change nothing but the frame allocator's state.
<1>2. ASSUME PagesOK', UNCHANGED <<slabs, bitmap, free_slots, object>> PROVE IInv'
  BY <1>2, Untouched DEF IInv
<1>3. ASSUME NEW h \in Handle, NEW target \in Targets, object[h] = NULL, target > 0,
             KmallocFromSlab(h, target)
      PROVE  IInv'
  <2>1. PICK c \in Cache : \E k \in DOMAIN slabs[c] :
          /\ Serves(c, target)
          /\ StopsAt(c, k)
          /\ TakeSlot(h, slabs[c][k], c, target, bitmap[slabs[c][k]], free_slots[slabs[c][k]])
          /\ UNCHANGED <<frameVars, slabs>>
    BY <1>3 DEF KmallocFromSlab
  <2>2. PICK k \in DOMAIN slabs[c] :
          /\ Serves(c, target)
          /\ StopsAt(c, k)
          /\ TakeSlot(h, slabs[c][k], c, target, bitmap[slabs[c][k]], free_slots[slabs[c][k]])
          /\ UNCHANGED <<frameVars, slabs>>
    BY <2>1
  <2> DEFINE p == slabs[c][k]
  <2>3. p \in SlabPages(c) /\ p \in Frame
    BY DEF SlabPages, IInv, PagesOK
  <2>4. free_slots[p] # 0 /\ Booked(c, p, bitmap[p], free_slots[p])
    BY <2>2, <2>3 DEF StopsAt, IInv, BooksOK
  <2>5. \A g \in Users(p) : object[g].cache = c
    BY <2>3, UsersOfCache DEF IInv
  <2>6. target \in Nat /\ target <= Sizes[c]
    BY <2>2, LayoutAssumption, Capacities DEF Serves
  <2>7. \A d \in Cache : SlabPages(d)' = SlabPages(d)
    BY <2>2 DEF SlabPages
  <2>8. PagesOK' /\ SlabsDistinct'
    BY <2>2 DEF IInv, frameVars, PagesOK, SlabsDistinct
  <2> HIDE DEF p
  <2>9. TakeSlot(h, p, c, target, bitmap[p], free_slots[p])
    BY <2>2 DEF p
  <2>10. ObjectsOK' /\ BooksOK'
    BY <1>3, <2>3, <2>4, <2>5, <2>6, <2>7, <2>8, <2>9, Taken DEF IInv
  <2> QED
    BY <2>8, <2>10 DEF IInv
<1>4. ASSUME NEW h \in Handle, NEW target \in Targets, object[h] = NULL, target > 0,
             KmallocNewSlab(h, target)
      PROVE  IInv'
  <2>1. PICK c \in Cache, p \in Frame :
          /\ Serves(c, target)
          /\ TakePage(p)
          /\ slabs' = [slabs EXCEPT ![c] = <<p>> \o @]
          /\ TakeSlot(h, p, c, target, {}, Capacity(c))
    BY <1>4 DEF KmallocNewSlab
  <2>2. /\ PagesOK' /\ SlabsDistinct'
        /\ \A d \in Cache : SlabPages(d)' = IF d = c THEN SlabPages(c) \cup {p} ELSE SlabPages(d)
        /\ \A d \in Cache : p \notin SlabPages(d)
    BY <2>1, NewSlab DEF IInv, PagesOK
  <2>3. Users(p) = {}
    BY <2>2 DEF Users, Live, IInv, ObjectsOK, Objects
  <2>4. Capacity(c) \in 1 .. BitmapBits
    BY DEF SizesFit
  <2>5. Booked(c, p, {}, Capacity(c)) /\ Capacity(c) # 0
    BY <2>3, <2>4, FS_EmptySet, LayoutAssumption DEF Booked, Slots
  <2>6. target \in Nat /\ target <= Sizes[c]
    BY <2>1, LayoutAssumption, Capacities DEF Serves
  <2>7. /\ p \in SlabPages(c)'
        /\ \A d \in Cache : /\ SlabPages(d) \subseteq SlabPages(d)'
                            /\ SlabPages(d)' \subseteq SlabPages(d) \cup {p}
    BY <2>2
  <2>8. \A g \in Users(p) : object[g].cache = c
    BY <2>3
  <2>9. ObjectsOK' /\ BooksOK'
    BY <1>4, <2>1, <2>2, <2>5, <2>6, <2>7, <2>8, Taken DEF IInv
  <2> QED
    BY <2>2, <2>9 DEF IInv
<1>5. ASSUME NEW target \in Targets, KmallocNoMemory(target) PROVE IInv'
  <2>1. Frames!Refuse /\ UNCHANGED <<slabs, bitmap, free_slots, object>>
    BY <1>5 DEF KmallocNoMemory
  <2>2. PagesOK'
    BY <2>1 DEF Frames!Refuse, IInv, PagesOK, SlabsDistinct
  <2> QED
    BY <1>2, <2>1, <2>2
<1>6. CASE Kmalloc
  BY <1>3, <1>4, <1>5, <1>6 DEF Kmalloc
<1>7. CASE KmallocRejected
  BY <1>1, <1>7 DEF KmallocRejected
<1>8. CASE Kfree
  <2>1. PICK h \in Handle :
          /\ object[h] # NULL
          /\ bitmap' = [bitmap EXCEPT ![object[h].page] = @ \ {SlotOf(object[h]) % BitmapBits}]
          /\ free_slots' = [free_slots EXCEPT ![object[h].page] = (@ + 1) % CountLimit]
          /\ object' = [object EXCEPT ![h] = NULL]
          /\ UNCHANGED <<frameVars, slabs>>
    BY <1>8 DEF Kfree
  <2>2. PagesOK'
    BY <2>1 DEF IInv, frameVars, PagesOK, SlabsDistinct
  <2>3. ObjectsOK' /\ BooksOK'
    BY <2>1, Freed DEF IInv
  <2> QED
    BY <2>2, <2>3 DEF IInv
<1>9. CASE OtherAlloc
  <2>1. PICK p \in Frame : Frames!Grant(p)
    BY <1>9 DEF OtherAlloc
  <2>2. UNCHANGED <<slabs, bitmap, free_slots, object>>
    BY <1>9 DEF OtherAlloc
  <2>3. \A d \in Cache : slabs[d] \in Seq(held')
    BY <2>1 DEF Frames!Grant, IInv, PagesOK
  <2>4. PagesOK'
    BY <2>1, <2>2, <2>3 DEF Frames!Grant, IInv, PagesOK, SlabsDistinct
  <2> QED
    BY <1>2, <2>2, <2>4
<1> QED
  BY <1>1, <1>6, <1>7, <1>8, <1>9 DEF Next

-----------------------------------------------------------------------------
(* Theorems.                                                               *)

\* No two live pointers share a byte, none reaches into a header or past its
\* page, for every order of kmalloc and kfree and all sizes of pages and
\* caches of which a slab fits its bitmap (memory.cpp lines 154-196).
THEOREM Disjoint == ASSUME SizesFit PROVE Spec => []LiveDisjoint
<1>1. IInv => LiveDisjoint
  <2> SUFFICES ASSUME IInv PROVE LiveDisjoint
    OBVIOUS
  <2>1. \A h \in Live :
          /\ object[h] \in Objects /\ object[h].cache \in Cache
          /\ object[h].page \in SlabPages(object[h].cache)
          /\ Given(object[h])
    BY DEF IInv, ObjectsOK, Live, Objects
  <2>2. \A h \in Live :
          LET c == object[h].cache IN
          /\ SlotOf(object[h]) \in 0 .. Capacity(c) - 1
          /\ object[h].offset = HeaderSize + Sizes[c] * SlotOf(object[h])
          /\ object[h].target \in Nat /\ object[h].target <= Sizes[c]
    BY <2>1, SlotOfGiven DEF Given, Objects
  <2>3. ASSUME NEW h \in Live PROVE Bytes(object[h]) \subseteq HeaderSize .. PageSize - 1
    <3> DEFINE c == object[h].cache
               s == SlotOf(object[h])
    <3>1. Sizes[c] \in Nat \ {0} /\ Capacity(c) \in Int /\ HeaderSize + Sizes[c] * Capacity(c) <= PageSize
      BY <2>1, Capacities
    <3>2. /\ s \in 0 .. Capacity(c) - 1
          /\ object[h].offset = HeaderSize + Sizes[c] * s
          /\ object[h].target \in Nat /\ object[h].target <= Sizes[c]
      BY <2>2
    <3> HIDE DEF c, s
    <3>3. Sizes[c] * s + Sizes[c] <= Sizes[c] * Capacity(c)
      BY <3>1, <3>2, Multiples
    <3>4. Sizes[c] * s \in Nat /\ Sizes[c] * Capacity(c) \in Int
      BY <3>1, <3>2
    <3> QED
      BY <3>1, <3>2, <3>3, <3>4, LayoutAssumption DEF Bytes
  <2>4. ASSUME NEW g \in Live, NEW h \in Live, object[g].page = object[h].page,
               SlotOf(object[g]) < SlotOf(object[h])
        PROVE  Bytes(object[g]) \cap Bytes(object[h]) = {}
    <3> DEFINE c == object[h].cache
               i == SlotOf(object[g])
               j == SlotOf(object[h])
    <3>1. object[g].cache = c
      BY <2>1, <2>4, OneCache DEF IInv, PagesOK
    <3>2. Sizes[c] \in Nat \ {0}
      BY <2>1, Capacities
    <3>3. /\ i \in Int /\ j \in Int /\ i < j
          /\ object[g].offset = HeaderSize + Sizes[c] * i
          /\ object[h].offset = HeaderSize + Sizes[c] * j
          /\ object[g].target \in Nat /\ object[g].target <= Sizes[c]
      BY <2>2, <2>4, <3>1
    <3> HIDE DEF c, i, j
    <3>4. Sizes[c] * i + Sizes[c] <= Sizes[c] * j
      BY <3>2, <3>3, Multiples
    <3>5. Sizes[c] * i \in Int /\ Sizes[c] * j \in Int
      BY <3>2, <3>3
    <3>6. object[g].offset + object[g].target <= object[h].offset
      BY <3>2, <3>3, <3>4, <3>5, LayoutAssumption
    <3>7. object[g].offset \in Int /\ object[h].offset \in Int /\ object[g].target \in Int
          /\ object[h].target \in Int
      BY <2>1 DEF Objects
    <3> QED
      BY <3>6, <3>7 DEF Bytes
  <2>5. ASSUME NEW g \in Live, NEW h \in Live, g # h, object[g].page = object[h].page
        PROVE  Bytes(object[g]) \cap Bytes(object[h]) = {}
    <3>1. SlotOf(object[g]) # SlotOf(object[h])
      BY <2>5 DEF IInv, ObjectsOK
    <3>2. SlotOf(object[g]) \in Int /\ SlotOf(object[h]) \in Int
      BY <2>2
    <3>3. SlotOf(object[g]) < SlotOf(object[h]) \/ SlotOf(object[h]) < SlotOf(object[g])
      BY <3>1, <3>2
    <3> QED
      BY <2>4, <2>5, <3>3
  <2> QED
    BY <2>3, <2>5 DEF LiveDisjoint
<1> QED
  BY <1>1, InitIInv, StepIInv, PTL DEF Spec

\* Bitmap, counter and the pointers callers hold tell the same, in every
\* slab and after any calls (memory.cpp lines 170-194).
THEOREM Accounting == ASSUME SizesFit PROVE Spec => []SlotAccounting
<1>1. IInv => SlotAccounting
  <2> SUFFICES ASSUME IInv PROVE SlotAccounting
    OBVIOUS
  <2>1. TypeOK /\ SlabsDistinct
    BY DEF IInv, PagesOK, ObjectsOK, BooksOK, TypeOK
  <2>2. \A c \in Cache : \A p \in SlabPages(c) : Booked(c, p, bitmap[p], free_slots[p])
    BY DEF IInv, BooksOK
  <2> QED
    BY <2>1, <2>2 DEF SlotAccounting, Booked, Slots, Users
<1> QED
  BY <1>1, InitIInv, StepIInv, PTL DEF Spec

-----------------------------------------------------------------------------
(* Caches grow only when they are full.                                    *)

\* In a slab without a free slot every slot has a pointer.
LEMMA FullSlab ==
  ASSUME SizesFit, IInv, NEW c \in Cache, NEW p \in SlabPages(c), free_slots[p] = 0
  PROVE  Slots(p) = 0 .. Capacity(c) - 1
<1>1. Booked(c, p, bitmap[p], free_slots[p])
  BY DEF IInv, BooksOK
<1>2. Slots(p) \subseteq 0 .. Capacity(c) - 1
  <2>. SUFFICES ASSUME NEW h \in Users(p) PROVE SlotOf(object[h]) \in 0 .. Capacity(c) - 1
    BY DEF Slots
  <2>1. object[h] \in Objects /\ Given(object[h]) /\ object[h].cache = c
    BY UsersOfCache DEF IInv, ObjectsOK, Users, Live
  <2>. QED
    BY <2>1, SlotOfGiven
<1>3. Capacity(c) \in Nat \ {0}
  BY LayoutAssumption DEF SizesFit
<1>4. IsFiniteSet(0 .. Capacity(c) - 1) /\ Cardinality(0 .. Capacity(c) - 1) = Capacity(c)
  <2>1. Capacity(c) - 1 \in Int /\ ~(0 > Capacity(c) - 1) /\ Capacity(c) - 1 - 0 + 1 = Capacity(c)
    BY <1>3
  <2>. QED
    BY <2>1, FS_Interval
<1>5. Cardinality(Slots(p)) \in Nat
  BY <1>2, <1>4, FS_Subset, FS_CardinalityType
<1>6. Cardinality(Slots(p)) = Capacity(c)
  BY <1>1, <1>3, <1>5 DEF Booked
<1>. QED
  BY <1>2, <1>4, <1>6, FS_Subset

LEMMA FullCache ==
  ASSUME SizesFit, IInv, NEW c \in Cache, AllFull(c)
  PROVE  Cardinality(LiveIn(c)) = Len(slabs[c]) * Capacity(c)
<1>. DEFINE places == (1 .. Len(slabs[c])) \X (0 .. Capacity(c) - 1)
            At(h, x) == object[h].page = slabs[c][x[1]] /\ SlotOf(object[h]) = x[2]
            filled == [x \in places |-> CHOOSE h \in LiveIn(c) : At(h, x)]
<1>1. slabs[c] \in Seq(Frame) /\ DOMAIN slabs[c] = 1 .. Len(slabs[c]) /\ Len(slabs[c]) \in Nat
  BY DEF IInv, PagesOK
<1>2. \A x \in places : slabs[c][x[1]] \in SlabPages(c) /\ Slots(slabs[c][x[1]]) = 0 .. Capacity(c) - 1
  BY <1>1, FullSlab DEF AllFull, SlabPages
<1>3. \A x \in places : \E h \in LiveIn(c) : At(h, x)
  <2>. SUFFICES ASSUME NEW x \in places PROVE \E h \in LiveIn(c) : At(h, x)
    OBVIOUS
  <2>1. x[2] \in Slots(slabs[c][x[1]])
    BY <1>2
  <2>2. PICK h \in Users(slabs[c][x[1]]) : SlotOf(object[h]) = x[2]
    BY <2>1 DEF Slots
  <2>3. h \in LiveIn(c)
    BY <1>2, UsersOfCache DEF IInv, Users, LiveIn
  <2>. QED
    BY <2>2, <2>3 DEF Users
<1>4. \A x \in places : filled[x] \in LiveIn(c) /\ At(filled[x], x)
  BY <1>3
<1>5. \A x, y \in places : filled[x] = filled[y] => x = y
  <2>. SUFFICES ASSUME NEW x \in places, NEW y \in places, filled[x] = filled[y] PROVE x = y
    OBVIOUS
  <2>1. slabs[c][x[1]] = slabs[c][y[1]] /\ x[2] = y[2]
    <3>1. At(filled[x], x) /\ At(filled[y], y)
      BY <1>4
    <3>. HIDE DEF filled, places
    <3>. QED
      BY <3>1
  <2>2. x[1] \in DOMAIN slabs[c] /\ y[1] \in DOMAIN slabs[c]
    BY <1>1
  <2>3. x[1] = y[1]
    BY <2>1, <2>2 DEF IInv, PagesOK, SlabsDistinct
  <2>. QED
    BY <2>1, <2>3
<1>6. \A h \in LiveIn(c) : \E x \in places : filled[x] = h
  <2>. SUFFICES ASSUME NEW h \in LiveIn(c) PROVE \E x \in places : filled[x] = h
    OBVIOUS
  <2>1. /\ h \in Live /\ object[h] \in Objects /\ object[h].cache = c
        /\ object[h].page \in SlabPages(c) /\ Given(object[h])
    BY DEF LiveIn, Live, IInv, ObjectsOK
  <2>2. PICK k \in 1 .. Len(slabs[c]) : object[h].page = slabs[c][k]
    BY <1>1, <2>1 DEF SlabPages
  <2>3. SlotOf(object[h]) \in 0 .. Capacity(c) - 1
    BY <2>1, SlotOfGiven
  <2>4. PICK x \in places : x = <<k, SlotOf(object[h])>>
    BY <2>2, <2>3
  <2>5. At(filled[x], x) /\ filled[x] \in Live
    BY <1>4 DEF LiveIn
  <2>6. object[filled[x]].page = object[h].page /\ SlotOf(object[filled[x]]) = SlotOf(object[h])
    BY <2>2, <2>4, <2>5
  <2>7. filled[x] = h
    BY <2>1, <2>5, <2>6 DEF IInv, ObjectsOK
  <2>. QED
    BY <2>7
<1>. HIDE DEF filled, At
<1>7. filled \in Bijection(places, LiveIn(c))
  <2>1. filled = [x \in places |-> filled[x]]
    BY DEF filled
  <2>. HIDE DEF places
  <2>. QED
    BY <1>4, <1>5, <1>6, <2>1 DEF Bijection, Injection, Surjection, IsInjective
<1>8. /\ IsFiniteSet(1 .. Len(slabs[c])) /\ Cardinality(1 .. Len(slabs[c])) = Len(slabs[c])
      /\ IsFiniteSet(0 .. Capacity(c) - 1) /\ Cardinality(0 .. Capacity(c) - 1) = Capacity(c)
  <2>1. Capacity(c) \in Nat \ {0}
    BY LayoutAssumption DEF SizesFit
  <2>2. Capacity(c) - 1 \in Int /\ ~(0 > Capacity(c) - 1) /\ Capacity(c) - 1 - 0 + 1 = Capacity(c)
    BY <2>1
  <2>3. IsFiniteSet(0 .. Capacity(c) - 1) /\ Cardinality(0 .. Capacity(c) - 1) = Capacity(c)
    BY <2>2, FS_Interval
  <2>4. IsFiniteSet(1 .. Len(slabs[c])) /\ Cardinality(1 .. Len(slabs[c])) = Len(slabs[c])
    BY <1>1, FS_Interval
  <2>. QED
    BY <2>3, <2>4
<1>9. IsFiniteSet(places) /\ Cardinality(places) = Len(slabs[c]) * Capacity(c)
  BY <1>8, FS_Product, ZenonT(30)
<1>. HIDE DEF places
<1>. QED
  BY <1>7, <1>9, FS_Bijection DEF ExistsBijection

\* A cache never takes a page while one of its slots is free, for every
\* order of calls (memory.cpp lines 160-174).
THEOREM Grows == ASSUME SizesFit PROVE Spec => GrowsOnlyWhenFull
<1>1. ASSUME IInv, [Next]_vars, NEW c \in Cache, slabs'[c] # slabs[c]
      PROVE  Cardinality(LiveIn(c)) = Len(slabs[c]) * Capacity(c)
  <2>1. PICK h \in Handle, target \in Targets : KmallocNewSlab(h, target)
    BY <1>1 DEF Next, Kmalloc, KmallocFromSlab, KmallocNoMemory, KmallocRejected, Kfree, OtherAlloc, vars
  <2>2. PICK d \in Cache, p \in Frame : AllFull(d) /\ slabs' = [slabs EXCEPT ![d] = <<p>> \o @]
    BY <2>1 DEF KmallocNewSlab
  <2>3. d = c
    BY <1>1, <2>2 DEF IInv, PagesOK
  <2>. QED
    BY <1>1, <2>2, <2>3, FullCache
<1>2. IInv /\ [Next]_vars => [\A c \in Cache : slabs'[c] # slabs[c]
                                => Cardinality(LiveIn(c)) = Len(slabs[c]) * Capacity(c)]_vars
  BY <1>1
<1>. QED
  BY <1>2, InitIInv, StepIInv, PTL DEF Spec, GrowsOnlyWhenFull
=============================================================================
