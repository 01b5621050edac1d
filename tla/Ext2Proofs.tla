----------------------------- MODULE Ext2Proofs -----------------------------
(***************************************************************************)
(* What Ext2 guarantees for any disk, any names and any sound image, with  *)
(* power losses anywhere: proofs.                                          *)
(*                                                                         *)
(* The inductive invariant IInv speaks of every directory whose block has  *)
(* been written, also of one mkdir has not linked yet or that a power loss *)
(* left without a name: each is tiled, starts with . and .. and has each   *)
(* name once (GoodDir); each name leads to an allocated inode of its type  *)
(* that has no other name (GoodName); everything that a name leads to and  *)
(* every directory owns its blocks alone (BlocksOK); and OpOK says what    *)
(* the command in progress holds before each of its writes.  ReachOK adds  *)
(* that a command only works in directories that can be reached from the   *)
(* root, LeakOK counts what is allocated and leads to no name, and         *)
(* PromptOK says that the shown path is the names along a trail of         *)
(* directories from the root to the current one.                           *)
(*                                                                         *)
(* The order below: sequences and sums; the invariant; paths; each step    *)
(* keeps the invariant; the steps keep the reach; what follows from the    *)
(* invariant; the tree of names; the theorems; the leaks; the prompt.      *)
(***************************************************************************)
EXTENDS Ext2, FiniteSetTheorems, SequenceTheorems, WellFoundedInduction, TLAPS

-----------------------------------------------------------------------------
(* Numbers and sums.                                                       *)

\* A set of numbers that is not empty has a least one.
LEMMA LowestIs ==
  ASSUME NEW S, S \subseteq Nat, S # {}
  PROVE  Lowest(S) \in S /\ \A y \in S : Lowest(S) <= y
<1>1. PICK x \in S : \A y \in S : ~(<<y, x>> \in OpToRel(<, Nat))
  BY NatLessThanWellFounded, WFMin
<1>2. \A y \in S : x <= y
  <2>. SUFFICES ASSUME NEW y \in S, ~(x <= y) PROVE FALSE
    OBVIOUS
  <2>1. y < x /\ x \in Nat /\ y \in Nat
    OBVIOUS
  <2>2. <<y, x>> \in OpToRel(<, Nat)
    BY <2>1 DEF OpToRel
  <2>. QED
    BY <1>1, <2>2
<1>. QED
  BY <1>2 DEF Lowest

\* A function given by its first value and each next one exists.
Follows(n, S, a, next, f) ==
  /\ f \in [1 .. n + 1 -> S] /\ f[1] = a
  /\ \A k \in 1 .. n : f[k + 1] = next[<<k, f[k]>>]

\* A function defined step by step exists.
LEMMA Recursion ==
  ASSUME NEW n \in Nat, NEW S, NEW a \in S, NEW next \in [(1 .. n) \X S -> S]
  PROVE  \E f : Follows(n, S, a, next, f)
<1> DEFINE Upto(m, f) == /\ f \in [1 .. m + 1 -> S] /\ f[1] = a
                         /\ \A k \in 1 .. m : f[k + 1] = next[<<k, f[k]>>]
           bad == {m \in 0 .. n : ~\E f : Upto(m, f)}
<1>1. SUFFICES ASSUME bad # {} PROVE FALSE
  <2>1. n \in 0 .. n
    OBVIOUS
  <2>. QED
    BY <2>1 DEF Follows
<1>2. PICK m \in bad : \A j \in bad : m <= j
  <2>1. bad \subseteq Nat
    OBVIOUS
  <2>. QED
    BY <1>1, <2>1, LowestIs
<1>3. CASE m = 0
  <2> DEFINE g == [k \in 1 .. 1 |-> a]
  <2>1. Upto(0, g)
    OBVIOUS
  <2>. QED
    BY <1>2, <1>3, <2>1
<1>4. CASE m # 0
  <2>1. m - 1 \in 0 .. n /\ m - 1 \notin bad /\ m \in Nat \ {0} /\ m \in 1 .. n
    <3>1. m \in 0 .. n
      OBVIOUS
    <3>. HIDE DEF bad
    <3>. QED
      BY <1>2, <1>4, <3>1
  <2>2. PICK f : Upto(m - 1, f)
    BY <2>1
  <2> DEFINE g == [k \in 1 .. m + 1 |-> IF k = m + 1 THEN next[<<m, f[m]>>] ELSE f[k]]
  <2>3. f[m] \in S /\ next[<<m, f[m]>>] \in S
    BY <2>1, <2>2
  <2>4. g \in [1 .. m + 1 -> S] /\ g[1] = a
    BY <2>1, <2>2, <2>3
  <2>5. \A k \in 1 .. m : g[k + 1] = next[<<k, g[k]>>]
    <3>. SUFFICES ASSUME NEW k \in 1 .. m PROVE g[k + 1] = next[<<k, g[k]>>]
      OBVIOUS
    <3>1. g[k] = f[k]
      BY <2>1
    <3>2. CASE k = m
      <4>1. m + 1 \in 1 .. m + 1
        BY <2>1
      <4>2. g[m + 1] = next[<<m, f[m]>>]
        BY <4>1
      <4>. QED
        BY <3>1, <3>2, <4>2
    <3>3. CASE k # m
      <4>1. k \in 1 .. m - 1 /\ g[k + 1] = f[k + 1]
        BY <2>1, <3>3
      <4>. QED
        BY <2>2, <3>1, <4>1
    <3>. QED
      BY <3>2, <3>3
  <2>. QED
    BY <1>2, <2>4, <2>5
<1>. QED
  BY <1>3, <1>4

\* What the definition of Starts says of the function it chooses.
StartsAre(es, f) ==
  f = [k \in 1 .. Len(es) + 1 |-> IF k = 1 THEN 0 ELSE f[k - 1] + es[k - 1].rec_len]

LEMMA StartsChosen == ASSUME NEW es PROVE Starts(es) = CHOOSE f : StartsAre(es, f)
BY Zenon DEF Starts, StartsAre

\* The entries of a block tile it: they have places within it, in order.
Tiled(es) ==
  \E at \in [1 .. Len(es) + 1 -> 0 .. DirSize] :
     /\ at[1] = 0 /\ at[Len(es) + 1] = DirSize
     /\ \A k \in 1 .. Len(es) : at[k + 1] = at[k] + es[k].rec_len

\* Tiled says what Starts computes, without its recursion.
LEMMA TiledStarts ==
  ASSUME NEW es, Len(es) \in Nat, Tiled(es)
  PROVE  Starts(es)[Len(es) + 1] = DirSize
<1> DEFINE n == Len(es)
<1>1. PICK at \in [1 .. n + 1 -> 0 .. DirSize] :
        /\ at[1] = 0 /\ at[n + 1] = DirSize
        /\ \A k \in 1 .. n : at[k + 1] = at[k] + es[k].rec_len
  BY DEF Tiled
<1>2. \A k \in 1 .. n + 1 : k # 1 => k - 1 \in 1 .. n /\ (k - 1) + 1 = k
  OBVIOUS
<1>3. StartsAre(es, at)
  <2>1. \A k \in 1 .. n + 1 : at[k] = IF k = 1 THEN 0 ELSE at[k - 1] + es[k - 1].rec_len
    BY <1>1, <1>2
  <2>. QED
    BY <2>1 DEF StartsAre
<1>4. StartsAre(es, Starts(es))
  BY <1>3, StartsChosen
<1>5. ASSUME NEW f, StartsAre(es, f) PROVE \A k \in 1 .. n + 1 : f[k] = at[k]
  <2> DEFINE bad == {k \in 1 .. n + 1 : f[k] # at[k]}
  <2>1. SUFFICES ASSUME bad # {} PROVE FALSE
    OBVIOUS
  <2>2. PICK k \in bad : \A j \in bad : k <= j
    <3>1. bad \subseteq Nat
      OBVIOUS
    <3>. QED
      BY <2>1, <3>1, LowestIs
  <2>3. k \in 1 .. n + 1 /\ f[k] = IF k = 1 THEN 0 ELSE f[k - 1] + es[k - 1].rec_len
    BY <1>5 DEF StartsAre
  <2>4. at[k] = IF k = 1 THEN 0 ELSE at[k - 1] + es[k - 1].rec_len
    BY <1>1, <1>2
  <2>5. k = 1 \/ (k - 1 \in 1 .. n + 1 /\ k - 1 \notin bad)
    BY <2>2
  <2>. QED
    BY <2>2, <2>3, <2>4, <2>5
<1>. QED
  BY <1>1, <1>4, <1>5

\* Conversely, of entries that end where the block does.
LEMMA StartsTiled ==
  ASSUME NEW es \in Seq(EntryType), Starts(es)[Len(es) + 1] = DirSize
  PROVE  Tiled(es)
<1> DEFINE n == Len(es)
<1>0. n \in Nat /\ \A k \in 1 .. n : es[k].rec_len \in Nat
  <2>1. \A k \in 1 .. n : es[k] \in EntryType
    OBVIOUS
  <2>. QED
    BY <2>1, SizeAssumption DEF EntryType
<1>1. \E f : StartsAre(es, f)
  <2> DEFINE next == [p \in (1 .. n) \X Nat |-> p[2] + es[p[1]].rec_len]
  <2>1. next \in [(1 .. n) \X Nat -> Nat]
    BY <1>0
  <2>2. PICK f \in [1 .. n + 1 -> Nat] :
          f[1] = 0 /\ \A k \in 1 .. n : f[k + 1] = next[<<k, f[k]>>]
    <3>. HIDE DEF next
    <3>1. n \in Nat /\ 0 \in Nat
      BY <1>0
    <3>. HIDE DEF n
    <3>2. \E f : Follows(n, Nat, 0, next, f)
      BY <2>1, <3>1, Recursion
    <3>. QED
      BY <3>2 DEF Follows
  <2>3. \A k \in 1 .. n : f[k + 1] = f[k] + es[k].rec_len
    <3>. SUFFICES ASSUME NEW k \in 1 .. n PROVE f[k + 1] = f[k] + es[k].rec_len
      OBVIOUS
    <3>1. f[k] \in Nat
      BY <1>0, <2>2
    <3>. QED
      BY <2>2, <3>1
  <2>4. \A k \in 1 .. n + 1 : k # 1 => k - 1 \in 1 .. n /\ (k - 1) + 1 = k
    BY <1>0
  <2>5. \A k \in 1 .. n + 1 : f[k] = IF k = 1 THEN 0 ELSE f[k - 1] + es[k - 1].rec_len
    BY <2>2, <2>3, <2>4
  <2>. QED
    BY <2>2, <2>5 DEF StartsAre
<1> DEFINE f == Starts(es)
<1>2. StartsAre(es, f)
  BY <1>1, StartsChosen
<1>7. f[n + 1] = DirSize
  OBVIOUS
<1>. HIDE DEF f
<1>3. /\ \A k \in 1 .. n + 1 : f[k] = IF k = 1 THEN 0 ELSE f[k - 1] + es[k - 1].rec_len
      /\ DOMAIN f = 1 .. n + 1 /\ f = [k \in 1 .. n + 1 |-> f[k]]
  BY <1>2 DEF StartsAre
<1>4. \A k \in 1 .. n + 1 : f[k] \in Nat
  <2> DEFINE bad == {k \in 1 .. n + 1 : f[k] \notin Nat}
  <2>1. SUFFICES ASSUME bad # {} PROVE FALSE
    OBVIOUS
  <2>2. PICK k \in bad : \A j \in bad : k <= j
    <3>1. bad \subseteq Nat
      OBVIOUS
    <3>. QED
      BY <2>1, <3>1, LowestIs
  <2>3. k = 1 \/ (k - 1 \in 1 .. n + 1 /\ k - 1 \in 1 .. n /\ k - 1 \notin bad)
    BY <2>2, <1>0
  <2>4. f[k] = IF k = 1 THEN 0 ELSE f[k - 1] + es[k - 1].rec_len
    BY <1>3
  <2>5. k # 1 => f[k - 1] \in Nat /\ es[k - 1].rec_len \in Nat
    BY <1>0, <2>3
  <2>. QED
    BY <2>2, <2>4, <2>5
<1>5. \A k \in 1 .. n + 1 : f[k] <= DirSize
  <2> DEFINE bad == {m \in 0 .. n : ~(f[n + 1 - m] <= DirSize)}
  <2>1. SUFFICES ASSUME bad # {} PROVE FALSE
    <3>1. \A k \in 1 .. n + 1 : n + 1 - k \in 0 .. n /\ n + 1 - (n + 1 - k) = k
      BY <1>0
    <3>. QED
      BY <3>1
  <2>2. PICK m \in bad : \A j \in bad : m <= j
    <3>1. bad \subseteq Nat
      BY <1>0
    <3>. QED
      BY <2>1, <3>1, LowestIs
  <2>3. m # 0 /\ m \in 0 .. n
    <3>1. n + 1 - 0 = n + 1
      BY <1>0
    <3>2. DirSize <= DirSize
      BY SizeAssumption
    <3>. QED
      BY <1>0, <2>2, <3>1, <3>2, <1>7
  <2>4. m - 1 \in 0 .. n /\ m - 1 \notin bad
    BY <2>2, <2>3, <1>0
  <2> DEFINE k == n + 1 - m
  <2>5. k \in 1 .. n /\ k + 1 = n + 1 - (m - 1) /\ (k + 1) - 1 = k /\ k + 1 # 1
    BY <2>3, <1>0
  <2>6. f[k + 1] = f[k] + es[k].rec_len /\ f[k + 1] <= DirSize
    <3>1. k + 1 \in 1 .. n + 1
      BY <1>0, <2>5
    <3>2. f[k + 1] = IF k + 1 = 1 THEN 0 ELSE f[(k + 1) - 1] + es[(k + 1) - 1].rec_len
      BY <1>3, <3>1
    <3>. QED
      BY <2>4, <2>5, <3>2
  <2>7. f[k] \in Nat
    BY <1>4, <2>5, <1>0
  <2>8. f[k] <= DirSize
    BY <2>5, <2>6, <2>7, <1>0, SizeAssumption
  <2>. QED
    BY <2>2, <2>8
<1>6. f \in [1 .. n + 1 -> 0 .. DirSize]
  BY <1>3, <1>4, <1>5, SizeAssumption
<1>8. \A k \in 1 .. n : f[k + 1] = f[k] + es[k].rec_len
  <2>. SUFFICES ASSUME NEW k \in 1 .. n PROVE f[k + 1] = f[k] + es[k].rec_len
    OBVIOUS
  <2>1. k + 1 \in 1 .. n + 1 /\ k + 1 # 1 /\ (k + 1) - 1 = k
    BY <1>0
  <2>. QED
    BY <1>3, <2>1
<1>. QED
  <2>1. 1 \in 1 .. n + 1
    BY <1>0
  <2>2. f[1] = 0
    BY <1>3, <2>1
  <2>. QED
    BY <1>6, <1>7, <1>8, <2>2 DEF Tiled

-----------------------------------------------------------------------------
(* The invariant: the tree of names, the blocks, the command in progress.  *)

DiskTypes == /\ inode_bitmap \subseteq Inode /\ block_bitmap \subseteq Block
             /\ inode \in [Inode -> InodeType] /\ content \in [Block -> Seq(EntryType)]
             /\ losses \in Nat /\ cut \in Nat

\* Where a directory has the names the user made: after . and ..
Places(d) == 3 .. Len(Entries(d))

GoodDir(d) ==
  /\ Len(Entries(d)) > 1 /\ Tiled(Entries(d))
  /\ \A j, k \in DOMAIN Entries(d) : Entries(d)[j].name = Entries(d)[k].name => j = k
  /\ Entries(d)[1].name = Dot /\ Entries(d)[1].ino = d
  /\ Entries(d)[2].name = DotDot /\ Entries(d)[2].ino \in Formatted

GoodName(d, k) ==
  LET e == Entries(d)[k] IN
  /\ e.ino # Root /\ e.ino \in inode_bitmap
  /\ inode[e.ino].mode = e.type
  /\ e.type = "dir" => e.ino \in Formatted /\ Entries(e.ino)[2].ino = d
  /\ \A c \in Formatted : \A l \in Places(c) : Entries(c)[l].ino = e.ino => c = d /\ l = k

TreeOK == /\ Root \in Formatted
          /\ \A d \in Dirs : inode[d].blocks # <<>>
          /\ \A d \in Formatted : GoodDir(d) /\ \A k \in Places(d) : GoodName(d, k)

Named(i) == \E d \in Formatted : \E k \in Places(d) : Entries(d)[k].ino = i

\* Directories, reached by a name or not, and what a name leads to.
Owner(i) == i \in Dirs \/ Named(i)

Removing(i) == op.kind = "rm" /\ op.ino = i

BlocksOK ==
  /\ Dirs \subseteq inode_bitmap
  /\ \A i \in Inode : Owner(i) /\ ~Removing(i) => Blocks(i) \subseteq block_bitmap
  /\ \A i, j \in Inode : Owner(i) /\ Owner(j) /\ i # j => Blocks(i) \cap Blocks(j) = {}
  /\ \A b \in Block : content[b] # <<>> => \E d \in Dirs : b = inode[d].blocks[1]
  /\ losses > 0 => \A i \in Inode : inode[i].mode = "reg" => inode[i].blocks = <<>>

\* A number that is taken and stands for nothing yet.
Fresh(i) == i \in inode_bitmap /\ ~Owner(i) /\ i # Root

Creating(kinds) ==
  /\ op.kind \in kinds /\ op.parent \in Formatted /\ op.name \in Name
  /\ \A k \in DOMAIN Entries(op.parent) : Entries(op.parent)[k].name # op.name

\* The name that is being removed is still there.
Condemned ==
  /\ op.kind = "rm" /\ op.parent \in Formatted
  /\ \E k \in Places(op.parent) : /\ Entries(op.parent)[k].name = op.name
                                  /\ Entries(op.parent)[k].ino = op.ino
  /\ inode[op.ino].mode # "dir"
  /\ op.blocks \in Seq(Blocks(op.ino))

OpType == op \in [pc : {"idle", "alloc_inode", "alloc_block", "write_inode", "write_dir",
                        "link", "free_blocks", "free_inode"},
                  kind : {"none", "mkdir", "touch", "rm"}, parent : Inode \cup {0},
                  name : Name \cup {Dot, DotDot}, ino : Inode \cup {0}, blocks : Seq(Block)]

OpOK ==
  /\ OpType
  /\ At("idle") => op = Idle
  /\ At("alloc_inode") => Creating({"mkdir", "touch"}) /\ op.blocks = <<>> /\ op.ino = 0
  /\ At("alloc_block") => Creating({"mkdir"}) /\ op.blocks = <<>> /\ Fresh(op.ino)
  /\ At("write_inode") =>
       /\ Creating({"mkdir", "touch"}) /\ Fresh(op.ino)
       /\ op.kind = "touch" => op.blocks = <<>>
       /\ op.kind = "mkdir" => \E b \in block_bitmap :
            op.blocks = <<b>> /\ \A i \in Inode : Owner(i) => b \notin Blocks(i)
  /\ At("write_dir") =>
       /\ Creating({"mkdir"}) /\ op.ino \in Dirs \ {Root, op.parent} /\ ~Named(op.ino)
       /\ \E b \in Block : op.blocks = <<b>> /\ inode[op.ino].blocks = <<b>>
       /\ op.ino \notin Formatted
  /\ At("link") =>
       /\ Creating({"mkdir", "touch"}) /\ op.ino \in inode_bitmap /\ ~Named(op.ino)
       /\ op.ino # Root /\ op.ino # op.parent
       /\ op.kind = "mkdir" => op.ino \in Formatted /\ Entries(op.ino)[2].ino = op.parent
       /\ op.kind = "touch" => inode[op.ino].mode = "reg" /\ inode[op.ino].blocks = <<>>
  /\ At("free_blocks") => Condemned
  /\ At("free_inode") =>
       /\ op.kind = "rm" /\ op.parent \in Formatted /\ op.ino \in Inode
       /\ ~Owner(op.ino) /\ op.blocks = <<>>

ShellOK == g_current_dir \in Formatted /\ g_current_path \in Seq(Name \cup {Dot, DotDot})

IInv == DiskTypes /\ TreeOK /\ BlocksOK /\ OpOK /\ ShellOK

-----------------------------------------------------------------------------
(* What is found in a directory, and where a path leads.                   *)

\* What the invariant says of one directory.
LEMMA DirFacts ==
  ASSUME DiskTypes, TreeOK, NEW d \in Formatted
  PROVE  /\ d \in Inode /\ inode[d].mode = "dir" /\ inode[d].blocks[1] \in Blocks(d)
         /\ inode[d].blocks[1] \in Block
         /\ Entries(d) \in Seq(EntryType) /\ Len(Entries(d)) \in Nat /\ Len(Entries(d)) > 1
         /\ DOMAIN Entries(d) = 1 .. Len(Entries(d))
         /\ \A k \in DOMAIN Entries(d) :
              /\ Entries(d)[k] \in EntryType /\ Entries(d)[k].ino # 0
              /\ k = 1 \/ k = 2 \/ k \in Places(d)
         /\ GoodDir(d) /\ \A k \in Places(d) : k \in DOMAIN Entries(d) /\ GoodName(d, k)
<1>1. d \in Inode /\ inode[d].mode = "dir" /\ d \in Dirs
  BY DEF Formatted, Dirs
<1>2. inode[d] \in InodeType /\ inode[d].blocks # <<>>
  BY <1>1 DEF DiskTypes, TreeOK
<1>3. inode[d].blocks \in Seq(Block)
  BY <1>2 DEF InodeType
<1>4. 1 \in DOMAIN inode[d].blocks /\ inode[d].blocks[1] \in Block
  BY <1>2, <1>3
<1>5. Entries(d) \in Seq(EntryType) /\ Len(Entries(d)) \in Nat
  BY <1>4 DEF DiskTypes, Entries
<1>6. DOMAIN Entries(d) = 1 .. Len(Entries(d)) /\ \A k \in DOMAIN Entries(d) : Entries(d)[k] \in EntryType
  BY <1>5
<1>7. GoodDir(d) /\ \A k \in Places(d) : GoodName(d, k)
  BY DEF TreeOK
<1>8. Len(Entries(d)) > 1
  BY <1>7 DEF GoodDir
<1>9. \A k \in DOMAIN Entries(d) : k = 1 \/ k = 2 \/ k \in Places(d)
  BY <1>5, <1>6 DEF Places
<1>10. \A k \in Places(d) : k \in DOMAIN Entries(d)
  BY <1>5, <1>6 DEF Places
<1>11. \A i \in Inode : i # 0
  BY NumberAssumption
<1>12. \A k \in DOMAIN Entries(d) : Entries(d)[k].ino # 0
  <2>. SUFFICES ASSUME NEW k \in DOMAIN Entries(d) PROVE Entries(d)[k].ino # 0
    OBVIOUS
  <2>1. CASE k = 1
    BY <1>1, <1>7, <1>11, <2>1 DEF GoodDir
  <2>2. CASE k = 2
    <3>1. Entries(d)[2].ino \in Inode
      BY <1>7 DEF GoodDir, Formatted, Dirs
    <3>. QED
      BY <1>11, <2>2, <3>1
  <2>3. CASE k \in Places(d)
    <3>1. Entries(d)[k].ino \in Inode
      BY <1>7, <2>3 DEF GoodName, DiskTypes
    <3>. QED
      BY <1>11, <3>1
  <2>. QED
    BY <1>9, <2>1, <2>2, <2>3
<1>. QED
  BY <1>1, <1>4, <1>5, <1>6, <1>7, <1>8, <1>9, <1>10, <1>12 DEF Blocks

\* A name is found where it is, and only there.
LEMMA FindIs ==
  ASSUME DiskTypes, TreeOK, NEW d \in Formatted, NEW n
  PROVE  /\ \A k \in DOMAIN Entries(d) : Entries(d)[k].name = n => Find(d, n) = Entries(d)[k]
         /\ \/ \E k \in DOMAIN Entries(d) : Entries(d)[k].name = n /\ Find(d, n) = Entries(d)[k]
            \/ /\ Find(d, n) = Entry(0, n, "none", 0)
               /\ \A k \in DOMAIN Entries(d) : Entries(d)[k].name # n
<1>1. /\ Len(Entries(d)) \in Nat /\ DOMAIN Entries(d) = 1 .. Len(Entries(d))
      /\ \A k \in DOMAIN Entries(d) : Entries(d)[k].ino # 0
      /\ GoodDir(d)
  BY DirFacts
<1>2. \A k \in DOMAIN Entries(d) : \A j \in 1 .. k : Entries(d)[j].ino # 0
  BY <1>1
<1>3. \A k \in DOMAIN Entries(d) : Entries(d)[k].name = n => Find(d, n) = Entries(d)[k]
  <2>. SUFFICES ASSUME NEW k \in DOMAIN Entries(d), Entries(d)[k].name = n
                PROVE  Find(d, n) = Entries(d)[k]
    OBVIOUS
  <2>1. Matches(d, n) = {k}
    BY <1>1, <1>2 DEF Matches, GoodDir
  <2>2. Lowest({k}) \in {k}
    <3>1. {k} \subseteq Nat
      BY <1>1
    <3>. QED
      BY <3>1, LowestIs
  <2>. QED
    BY <2>1, <2>2 DEF Find
<1>4. (\A k \in DOMAIN Entries(d) : Entries(d)[k].name # n) => Find(d, n) = Entry(0, n, "none", 0)
  BY DEF Find, Matches
<1>. QED
  BY <1>3, <1>4

\* A directory that is found is one, and has been written.
LEMMA FindDir ==
  ASSUME DiskTypes, TreeOK, NEW d \in Formatted, NEW n
  PROVE  /\ Find(d, n).type = "dir" => Find(d, n).ino \in Formatted
         /\ Find(d, n).ino \in Inode \cup {0}
         /\ Find(d, n).ino # 0 /\ inode[Find(d, n).ino].mode = "dir" => Find(d, n).ino \in Formatted
<1>1. CASE Find(d, n) = Entry(0, n, "none", 0)
  BY <1>1 DEF Entry
<1>2. ASSUME NEW k \in DOMAIN Entries(d), Find(d, n) = Entries(d)[k]
      PROVE  /\ Entries(d)[k].type = "dir" => Entries(d)[k].ino \in Formatted
             /\ Entries(d)[k].ino \in Inode
             /\ inode[Entries(d)[k].ino].mode = "dir" => Entries(d)[k].ino \in Formatted
  <2>1. GoodDir(d) /\ (k = 1 \/ k = 2 \/ k \in Places(d)) /\ \A j \in Places(d) : GoodName(d, j)
    BY DirFacts
  <2>2. Formatted \subseteq Inode
    BY DEF Formatted, Dirs
  <2>3. CASE k \in Places(d)
    BY <2>1, <2>3 DEF GoodName, DiskTypes
  <2>. QED
    BY <2>1, <2>2, <2>3 DEF GoodDir
<1>. QED
  BY <1>1, <1>2, FindIs

\* What the definition of Walk says of the function it chooses.
WalkIs(path, cwd, w) ==
  w = [k \in 1 .. Len(path.comps) + 1 |->
         IF k = 1 THEN IF path.abs THEN Root ELSE cwd
         ELSE IF w[k - 1] = 0 THEN 0
         ELSE LET e == Find(w[k - 1], path.comps[k - 1]) IN IF e.type = "dir" THEN e.ino ELSE 0]

LEMMA WalkChosen == ASSUME NEW path, NEW cwd PROVE Walk(path, cwd) = CHOOSE w : WalkIs(path, cwd, w)
BY Zenon DEF Walk, WalkIs

\* Where a path leads from one directory, for each component.
WalkStep(x, c) == IF x = 0 THEN 0
                  ELSE LET e == Find(x, c) IN IF e.type = "dir" THEN e.ino ELSE 0

\* Walk is what its definition says: from the start one component at a time.
LEMMA WalkGoes ==
  ASSUME NEW path, NEW cwd, Len(path.comps) \in Nat, NEW F, Root \in F, cwd \in F,
         \A d \in F : \A c : Find(d, c).type = "dir" => Find(d, c).ino \in F
  PROVE  \A k \in 1 .. Len(path.comps) + 1 :
            Walk(path, cwd)[k] = IF k = 1 THEN IF path.abs THEN Root ELSE cwd
                                 ELSE WalkStep(Walk(path, cwd)[k - 1], path.comps[k - 1])
<1> DEFINE n == Len(path.comps)
           start == IF path.abs THEN Root ELSE cwd
           S == F \cup {0}
           w == Walk(path, cwd)
<1>1. n \in Nat /\ start \in S
  OBVIOUS
<1>2. \A x \in S : \A c : WalkStep(x, c) \in S
  BY DEF WalkStep
<1>3. WalkIs(path, cwd, w)
  <2> DEFINE next == [p \in (1 .. n) \X S |-> WalkStep(p[2], path.comps[p[1]])]
  <2>1. next \in [(1 .. n) \X S -> S]
    BY <1>2
  <2>2. PICK f \in [1 .. n + 1 -> S] :
          f[1] = start /\ \A k \in 1 .. n : f[k + 1] = next[<<k, f[k]>>]
    <3>. HIDE DEF next, S, start, n
    <3>1. \E f : Follows(n, S, start, next, f)
      BY <1>1, <2>1, Recursion
    <3>. QED
      BY <3>1 DEF Follows
  <2>3. \A k \in 1 .. n : f[k + 1] = WalkStep(f[k], path.comps[k])
    <3>. HIDE DEF S
    <3>1. \A k \in 1 .. n : k \in 1 .. n + 1
      BY <1>1
    <3>. QED
      BY <1>1, <2>2, <3>1
  <2>4. \A k \in 1 .. n + 1 : k # 1 => k - 1 \in 1 .. n /\ (k - 1) + 1 = k
    BY <1>1
  <2>5. \A k \in 1 .. n + 1 : f[k] = IF k = 1 THEN start ELSE WalkStep(f[k - 1], path.comps[k - 1])
    <3>. HIDE DEF S, start
    <3>. QED
      BY <2>2, <2>3, <2>4
  <2>6. WalkIs(path, cwd, f)
    BY <2>2, <2>5, Zenon DEF WalkIs, WalkStep
  <2>. QED
    BY <2>6, WalkChosen
<1>. HIDE DEF w
<1>4. \A k \in 1 .. n + 1 : w[k] = IF k = 1 THEN start ELSE WalkStep(w[k - 1], path.comps[k - 1])
  BY <1>3 DEF WalkIs, WalkStep
<1>. QED
  BY <1>4 DEF w

\* Directories that lead only to one another are not left by a path.
LEMMA WalkStays ==
  ASSUME NEW path \in Paths, NEW F, Root \in F, NEW cwd \in F,
         \A d \in F : \A c : Find(d, c).type = "dir" => Find(d, c).ino \in F,
         0 \notin F
  PROVE  \A k \in 1 .. Len(path.comps) + 1 : Walk(path, cwd)[k] \in F \cup {0}
<1> DEFINE n == Len(path.comps)
           start == IF path.abs THEN Root ELSE cwd
           S == F \cup {0}
           w == Walk(path, cwd)
<1>1. n \in Nat /\ start \in S
  <2>1. path.comps \in Seq(Name \cup {Dot, DotDot})
    BY PathAssumption
  <2>. QED
    BY <2>1
<1>2. \A x \in S : \A c : WalkStep(x, c) \in S
  BY DEF WalkStep
<1>. HIDE DEF w
<1>3. \A k \in 1 .. n + 1 : w[k] = IF k = 1 THEN start ELSE WalkStep(w[k - 1], path.comps[k - 1])
  BY <1>1, WalkGoes DEF w
<1>. HIDE DEF S, start
<1> DEFINE bad == {k \in 1 .. n + 1 : w[k] \notin S}
<1>4. SUFFICES ASSUME bad # {} PROVE FALSE
  BY DEF S, w
<1>5. PICK k \in bad : \A j \in bad : k <= j
  <2>1. bad \subseteq Nat
    OBVIOUS
  <2>. QED
    BY <1>4, <2>1, LowestIs
<1>6. k = 1 \/ (k - 1 \in 1 .. n + 1 /\ k - 1 \notin bad)
  BY <1>1, <1>5
<1>. QED
  BY <1>1, <1>2, <1>3, <1>5, <1>6

\* What a command finds out about the path it is given.
LEMMA PathFacts ==
  ASSUME IInv, NEW path \in Paths
  PROVE  /\ ParentOf(path) \in Formatted \cup {0}
         /\ NameOf(path) \in Name \cup {Dot, DotDot}
         /\ Target(path) \in Inode \cup {0}
         /\ Target(path) # 0 /\ inode[Target(path)].mode = "dir" => Target(path) \in Formatted
         /\ Target(path) # 0 /\ inode[Target(path)].mode # "dir" =>
              /\ ParentOf(path) \in Formatted
              /\ \E k \in Places(ParentOf(path)) :
                    /\ Entries(ParentOf(path))[k].name = NameOf(path)
                    /\ Entries(ParentOf(path))[k].ino = Target(path)
         /\ Target(path) = 0 /\ ParentOf(path) # 0 =>
              /\ ParentOf(path) \in Formatted
              /\ NameOf(path) \in Name
              /\ \A k \in DOMAIN Entries(ParentOf(path)) :
                    Entries(ParentOf(path))[k].name # NameOf(path)
<1> DEFINE d == ParentOf(path)
           n == NameOf(path)
<1>1. path.comps \in Seq(Name \cup {Dot, DotDot}) /\ Root \in Formatted /\ Root \in Inode
  BY PathAssumption, NumberAssumption DEF IInv, TreeOK
<1>2. d \in Formatted \cup {0}
  <2>1. CASE path.comps = <<>>
    BY <1>1, <2>1 DEF ParentOf
  <2>2. CASE path.comps # <<>>
    <3>1. Len(path.comps) \in 1 .. Len(path.comps) + 1
      BY <1>1, <2>2
    <3>2. g_current_dir \in Formatted /\ 0 \notin Formatted
      BY NumberAssumption DEF IInv, ShellOK, Formatted, Dirs
    <3>3. \A c \in Formatted : \A x : Find(c, x).type = "dir" => Find(c, x).ino \in Formatted
      BY FindDir DEF IInv
    <3>4. Walk(path, g_current_dir)[Len(path.comps)] \in Formatted \cup {0}
      BY <1>1, <3>1, <3>2, <3>3, WalkStays
    <3>. QED
      BY <2>2, <3>4 DEF ParentOf
  <2>. QED
    BY <2>1, <2>2
<1>3. n \in Name \cup {Dot, DotDot}
  <2>1. path.comps # <<>> => Last(path.comps) \in Name \cup {Dot, DotDot}
    BY <1>1 DEF Last
  <2>. QED
    BY <2>1 DEF NameOf
<1>4. CASE path.comps = <<>>
  <2>1. Target(path) = Root /\ d = Root /\ inode[Root].mode = "dir" /\ Root # 0
    BY <1>4, <1>1, NumberAssumption DEF Target, ParentOf, Formatted, Dirs
  <2>. QED
    BY <1>1, <1>2, <1>3, <2>1
<1>5. CASE path.comps # <<>> /\ d = 0
  <2>1. Target(path) = 0
    BY <1>5 DEF Target
  <2>. QED
    BY <1>2, <1>3, <1>5, <2>1
<1>6. CASE path.comps # <<>> /\ d # 0
  <2>1. Target(path) = Find(d, n).ino /\ d \in Formatted
    BY <1>2, <1>6 DEF Target
  <2>2. /\ Target(path) \in Inode \cup {0}
        /\ Target(path) # 0 /\ inode[Target(path)].mode = "dir" => Target(path) \in Formatted
    BY <2>1, FindDir DEF IInv
  <2>3. /\ \A k \in DOMAIN Entries(d) : Entries(d)[k].name = n => Find(d, n) = Entries(d)[k]
        /\ \/ \E k \in DOMAIN Entries(d) : Entries(d)[k].name = n /\ Find(d, n) = Entries(d)[k]
           \/ Find(d, n) = Entry(0, n, "none", 0)
    BY <2>1, FindIs DEF IInv
  <2>4. /\ GoodDir(d) /\ 1 \in DOMAIN Entries(d) /\ 2 \in DOMAIN Entries(d)
        /\ \A k \in DOMAIN Entries(d) : /\ Entries(d)[k].ino # 0
                                        /\ k = 1 \/ k = 2 \/ k \in Places(d)
    <3>. HIDE DEF d
    <3>. QED
      BY <2>1, DirFacts DEF IInv
  <2>5. ASSUME Target(path) # 0, inode[Target(path)].mode # "dir"
        PROVE  \E k \in Places(d) : Entries(d)[k].name = n /\ Entries(d)[k].ino = Target(path)
    <3>1. PICK k \in DOMAIN Entries(d) : Entries(d)[k].name = n /\ Find(d, n) = Entries(d)[k]
      BY <2>1, <2>3, <2>5 DEF Entry
    <3>2. inode[d].mode = "dir" /\ \A c \in Formatted : inode[c].mode = "dir"
      BY <2>1 DEF Formatted, Dirs
    <3>3. k # 1 /\ k # 2
      BY <2>1, <2>4, <2>5, <3>1, <3>2 DEF GoodDir
    <3>. QED
      BY <2>1, <2>4, <3>1, <3>3
  <2>6. ASSUME Target(path) = 0
        PROVE  n \in Name /\ \A k \in DOMAIN Entries(d) : Entries(d)[k].name # n
    <3>1. \A k \in DOMAIN Entries(d) : Entries(d)[k].name # n
      BY <2>1, <2>3, <2>4, <2>6
    <3>. QED
      BY <1>3, <2>4, <3>1 DEF GoodDir
  <2>. QED
    BY <1>2, <1>3, <2>1, <2>2, <2>5, <2>6
<1>. QED
  BY <1>4, <1>5, <1>6

-----------------------------------------------------------------------------
(* Steps that write no inode and no directory.                             *)

\* A step that writes neither an inode nor a directory changes no name.
LEMMA SameTree ==
  ASSUME inode' = inode, content' = content
  PROVE  /\ Formatted' = Formatted /\ Dirs' = Dirs
         /\ \A d : Entries(d)' = Entries(d) /\ Places(d)' = Places(d) /\ Blocks(d)' = Blocks(d)
         /\ \A i : (Named(i)' <=> Named(i)) /\ (Owner(i)' <=> Owner(i))
BY DEF Formatted, Dirs, Entries, Places, Blocks, Named, Owner

\* Such a step keeps TreeOK if it frees no inode that has a name.
LEMMA TreeStays ==
  ASSUME DiskTypes, TreeOK, inode' = inode, content' = content,
         \A i \in inode_bitmap : Named(i) => i \in inode_bitmap'
  PROVE  TreeOK'
<1>1. /\ Formatted' = Formatted /\ Dirs' = Dirs
      /\ \A d : Entries(d)' = Entries(d) /\ Places(d)' = Places(d)
  BY SameTree
<1>2. \A d \in Formatted : GoodDir(d)'
  BY <1>1 DEF TreeOK, GoodDir
<1>3. \A d \in Formatted : \A k \in Places(d) : GoodName(d, k)'
  BY <1>1 DEF TreeOK, GoodName, Named
<1>. QED
  BY <1>1, <1>2, <1>3 DEF TreeOK

\* What such a step has to see to: the blocks of the owners stay allocated.
LEMMA BlocksStay ==
  ASSUME BlocksOK, inode' = inode, content' = content, losses' > 0 => losses > 0,
         Dirs \subseteq inode_bitmap',
         \A i \in Inode : Owner(i) /\ ~Removing(i)' => Blocks(i) \subseteq block_bitmap'
  PROVE  BlocksOK'
<1>1. /\ Dirs' = Dirs
      /\ \A i : Blocks(i)' = Blocks(i) /\ (Owner(i)' <=> Owner(i))
  BY SameTree
<1>. QED
  BY <1>1 DEF BlocksOK

\* The kind of command a step belongs to.
LEMMA KindIs ==
  ASSUME OpOK
  PROVE  /\ op.kind = "rm" <=> op.pc \in {"free_blocks", "free_inode"}
         /\ At("idle") => op = Idle
BY DEF OpOK, OpType, At, Creating, Condemned, Idle

\* Between commands nothing is held.
LEMMA IdleOK == ASSUME op' = Idle PROVE OpOK'
<1>1. <<>> \in Seq(Block)
  OBVIOUS
<1>. QED
  BY <1>1 DEF OpOK, OpType, Idle, At
\* The name to create is free: Target(path) is 0.
LEMMA BeginCreateKeeps == ASSUME IInv, BeginCreate PROVE IInv'
<1>1. PICK kind \in {"mkdir", "touch"}, path \in Paths :
        /\ Accepts(kind, path)
        /\ op' = [Idle EXCEPT !.pc = "alloc_inode", !.kind = kind,
                              !.parent = ParentOf(path), !.name = NameOf(path)]
  BY DEF BeginCreate
<1>2. /\ op = Idle /\ UNCHANGED <<inode_bitmap, block_bitmap, inode, content>>
      /\ UNCHANGED <<g_current_dir, g_current_path, losses, cut>>
  BY KindIs DEF BeginCreate, disk, shell, IInv
<1>3. /\ ParentOf(path) \in Formatted /\ NameOf(path) \in Name
      /\ \A k \in DOMAIN Entries(ParentOf(path)) : Entries(ParentOf(path))[k].name # NameOf(path)
  BY <1>1, PathFacts DEF Accepts
<1>4. op' = [pc |-> "alloc_inode", kind |-> kind, parent |-> ParentOf(path),
             name |-> NameOf(path), ino |-> 0, blocks |-> <<>>]
  BY <1>1 DEF Idle
<1>5. DiskTypes' /\ TreeOK'
  BY <1>2, TreeStays DEF IInv, DiskTypes
<1>6. BlocksOK'
  <2>1. ~Removing(op.ino) /\ \A i : ~Removing(i)
    BY <1>2 DEF Removing, Idle
  <2>. QED
    BY <1>2, <2>1, BlocksStay DEF IInv, BlocksOK
<1>7. /\ Formatted' = Formatted /\ \A d : Entries(d)' = Entries(d)
  BY <1>2, SameTree
<1>8. OpOK'
  <2>1. /\ op'.pc = "alloc_inode" /\ op'.kind = kind /\ op'.parent = ParentOf(path)
        /\ op'.name = NameOf(path) /\ op'.blocks = <<>> /\ op'.ino = 0
    BY <1>4
  <2>2. OpType'
    <3>1. ParentOf(path) \in Inode /\ <<>> \in Seq(Block)
      BY <1>3 DEF Formatted, Dirs
    <3>. QED
      BY <1>3, <1>4, <3>1 DEF OpType
  <2>3. Creating({"mkdir", "touch"})'
    BY <1>3, <1>7, <2>1 DEF Creating
  <2>. QED
    BY <2>1, <2>2, <2>3 DEF OpOK, At
<1>9. ShellOK'
  BY <1>2, <1>7 DEF IInv, ShellOK
<1>. QED
  BY <1>5, <1>6, <1>8, <1>9 DEF IInv

\* The name to remove is there and is no directory.
LEMMA BeginRemoveKeeps == ASSUME IInv, BeginRemove PROVE IInv'
<1>1. PICK path \in Paths :
        /\ Accepts("rm", path)
        /\ op' = [Idle EXCEPT !.pc = "free_blocks", !.kind = "rm",
                              !.parent = ParentOf(path), !.name = NameOf(path),
                              !.ino = Target(path), !.blocks = inode[Target(path)].blocks]
  BY DEF BeginRemove
<1>2. /\ op = Idle /\ UNCHANGED <<inode_bitmap, block_bitmap, inode, content>>
      /\ UNCHANGED <<g_current_dir, g_current_path, losses, cut>>
  BY KindIs DEF BeginRemove, disk, shell, IInv
<1> DEFINE d == ParentOf(path)
           n == NameOf(path)
           i == Target(path)
<1>3. /\ i # 0 /\ inode[i].mode # "dir" /\ i \in Inode
      /\ d \in Formatted /\ n \in Name \cup {Dot, DotDot}
      /\ \E k \in Places(d) : Entries(d)[k].name = n /\ Entries(d)[k].ino = i
  BY <1>1, PathFacts DEF Accepts
<1>4. /\ op'.pc = "free_blocks" /\ op'.kind = "rm" /\ op'.parent = d /\ op'.name = n
      /\ op'.ino = i /\ op'.blocks = inode[i].blocks
      /\ op' = [pc |-> "free_blocks", kind |-> "rm", parent |-> d, name |-> n,
                ino |-> i, blocks |-> inode[i].blocks]
  BY <1>1 DEF Idle
<1>5. DiskTypes' /\ TreeOK'
  BY <1>2, TreeStays DEF IInv, DiskTypes
<1>6. BlocksOK'
  <2>1. \A j : ~Removing(j)
    BY <1>2 DEF Removing, Idle
  <2>. QED
    BY <1>2, <2>1, BlocksStay DEF IInv, BlocksOK
<1>7. /\ Formatted' = Formatted
      /\ \A c : Entries(c)' = Entries(c) /\ Places(c)' = Places(c) /\ Blocks(c)' = Blocks(c)
  BY <1>2, SameTree
<1>8. OpOK'
  <2>1. inode[i].blocks \in Seq(Block)
    BY <1>3 DEF IInv, DiskTypes, InodeType
  <2>2. inode[i].blocks \in Seq(Blocks(i))
    BY <2>1 DEF Blocks
  <2>3. OpType'
    BY <1>3, <1>4, <2>1 DEF OpType, Formatted, Dirs
  <2>4. Condemned'
    BY <1>2, <1>3, <1>4, <1>7, <2>2 DEF Condemned
  <2>. QED
    BY <1>4, <2>3, <2>4 DEF OpOK, At
<1>9. ShellOK'
  BY <1>2, <1>7 DEF IInv, ShellOK
<1>. QED
  BY <1>5, <1>6, <1>8, <1>9 DEF IInv

LEMMA CdKeeps == ASSUME IInv, Cd PROVE IInv'
<1>1. PICK path \in Paths :
        /\ Accepts("cd", path)
        /\ g_current_dir' = Target(path)
        /\ g_current_path' = PathAfter(path)
  BY DEF Cd
<1>2. op' = op /\ op = Idle /\ UNCHANGED <<inode_bitmap, block_bitmap, inode, content, losses, cut>>
  BY KindIs DEF Cd, disk, IInv
<1>3. DiskTypes' /\ TreeOK'
  BY <1>2, TreeStays DEF IInv, DiskTypes
<1>4. BlocksOK'
  <2>1. \A i : ~Removing(i)
    BY <1>2 DEF Removing, Idle
  <2>. QED
    BY <1>2, <2>1, BlocksStay DEF IInv, BlocksOK
<1>5. OpOK'
  BY <1>2, IdleOK
<1>6. Target(path) \in Formatted /\ Formatted' = Formatted
  BY <1>1, <1>2, PathFacts, SameTree DEF Accepts
<1>7. PathAfter(path) \in Seq(Name \cup {Dot, DotDot})
  <2>1. path.comps \in Seq(Name \cup {Dot, DotDot})
    BY PathAssumption
  <2>2. g_current_path \in Seq(Name \cup {Dot, DotDot})
    BY DEF IInv, ShellOK
  <2>3. g_current_path \o path.comps \in Seq(Name \cup {Dot, DotDot})
    BY <2>1, <2>2
  <2>4. g_current_path # <<>> => Front(g_current_path) \in Seq(Name \cup {Dot, DotDot})
    BY <2>2 DEF Front
  <2>5. <<>> \in Seq(Name \cup {Dot, DotDot})
    OBVIOUS
  <2>. QED
    BY <2>1, <2>2, <2>3, <2>4, <2>5, Zenon DEF PathAfter
<1>8. ShellOK'
  BY <1>1, <1>6, <1>7 DEF ShellOK
<1>. QED
  BY <1>3, <1>4, <1>5, <1>8 DEF IInv

\* A command that ends without writing, with or without an error.
LEMMA GiveUpKeeps ==
  ASSUME IInv, op' = Idle, UNCHANGED <<disk, shell, losses>>, cut' \in Nat,
         ~At("free_blocks")
  PROVE  IInv'
<1>1. UNCHANGED <<inode_bitmap, block_bitmap, inode, content>>
  BY DEF disk
<1>2. DiskTypes' /\ TreeOK'
  BY <1>1, TreeStays DEF IInv, DiskTypes
<1>3. BlocksOK'
  <2>1. \A i \in Inode : Owner(i) => ~Removing(i)
    BY KindIs DEF IInv, OpOK, At, Removing
  <2>. QED
    BY <1>1, <2>1, BlocksStay DEF IInv, BlocksOK
<1>4. ShellOK'
  BY <1>1, SameTree DEF IInv, ShellOK, shell
<1>. QED
  BY <1>2, <1>3, <1>4, IdleOK DEF IInv

\* Off and on again: a file that was being removed has no blocks.
LEMMA CrashKeeps == ASSUME IInv, Crash PROVE IInv'
<1>1. /\ losses > 0 /\ losses' = losses - 1 /\ op' = Idle
      /\ cut' = IF At("idle") THEN cut ELSE cut + 1
      /\ g_current_dir' = Root /\ g_current_path' = <<>>
      /\ UNCHANGED <<inode_bitmap, block_bitmap, inode, content>>
  BY DEF Crash, disk
<1>2. TreeOK'
  BY <1>1, TreeStays DEF IInv
<1>3. DiskTypes'
  BY <1>1 DEF IInv, DiskTypes
<1>4. \A i \in Inode : Owner(i) => Blocks(i) \subseteq block_bitmap
  <2>. SUFFICES ASSUME NEW i \in Inode, Owner(i), Removing(i) PROVE Blocks(i) = {}
    BY DEF IInv, BlocksOK
  <2>1. op.pc = "free_blocks" /\ op.ino = i
    BY KindIs DEF IInv, OpOK, At, Removing
  <2>2. inode[i].mode # "dir" /\ Named(i)
    BY <2>1 DEF IInv, OpOK, Condemned, At, Named
  <2>3. inode[i].mode = "reg"
    <3>1. PICK d \in Formatted : \E k \in Places(d) : Entries(d)[k].ino = i
      BY <2>2 DEF Named
    <3>2. PICK k \in Places(d) : Entries(d)[k].ino = i
      BY <3>1
    <3>3. Entries(d)[k] \in EntryType /\ GoodName(d, k)
      BY DirFacts DEF IInv
    <3>. QED
      BY <2>2, <3>2, <3>3 DEF GoodName, EntryType
  <2>4. inode[i].blocks = <<>>
    BY <1>1, <2>3 DEF IInv, BlocksOK
  <2>. QED
    BY <2>4 DEF Blocks
<1>5. BlocksOK'
  <2>1. losses' > 0 => losses > 0
    BY <1>1 DEF IInv, DiskTypes
  <2>. QED
    BY <1>1, <1>4, <2>1, BlocksStay DEF IInv, BlocksOK
<1>6. ShellOK'
  BY <1>1, SameTree DEF IInv, TreeOK, ShellOK
<1>. QED
  BY <1>1, <1>2, <1>3, <1>5, <1>6, IdleOK DEF IInv
\* A new directory entry's file stays without one while others are written.
LEMMA CreatingStays ==
  ASSUME NEW kinds, Creating(kinds), inode' = inode, content' = content,
         op'.kind = op.kind, op'.parent = op.parent, op'.name = op.name
  PROVE  Creating(kinds)'
BY SameTree DEF Creating

\* The new inode was free, so nothing leads to it.
LEMMA AllocInodeKeeps == ASSUME IInv, AllocInode PROVE IInv'
<1> DEFINE i == Lowest(FreeInodes)
<1>1. At("alloc_inode") /\ op.pc = "alloc_inode" /\ OpType
  BY DEF AllocInode, At, IInv, OpOK
<1>2. CASE FreeInodes = {} /\ op' = Idle /\ UNCHANGED <<disk, shell, losses, cut>>
  BY <1>1, <1>2, GiveUpKeeps DEF IInv, DiskTypes, At
<1>3. CASE /\ FreeInodes # {}
           /\ inode_bitmap' = MarkInode(inode_bitmap, i)
           /\ op' = [op EXCEPT !.pc = IF op.kind = "mkdir" THEN "alloc_block" ELSE "write_inode",
                               !.ino = i]
           /\ UNCHANGED <<block_bitmap, inode, content, shell, losses, cut>>
  <2>1. i \in Inode /\ i \notin inode_bitmap
    <3>1. FreeInodes \subseteq Nat
      BY NumberAssumption DEF FreeInodes
    <3>2. i \in FreeInodes
      BY <1>3, <3>1, LowestIs
    <3>. QED
      BY <3>2 DEF FreeInodes
  <2>2. inode_bitmap' = inode_bitmap \cup {i}
    BY <1>3 DEF MarkInode
  <2>3. Creating({"mkdir", "touch"}) /\ op.blocks = <<>>
    BY <1>1 DEF IInv, OpOK
  <2>4. ~Owner(i) /\ i # Root
    <3>1. i \notin Dirs /\ Root \in Dirs
      BY <2>1 DEF IInv, BlocksOK, TreeOK, Formatted
    <3>2. ~Named(i)
      BY <2>1 DEF Named, IInv, TreeOK, GoodName
    <3>. QED
      BY <2>1, <3>1, <3>2 DEF Owner
  <2>5. DiskTypes'
    BY <1>3, <2>1, <2>2 DEF IInv, DiskTypes
  <2>6. TreeOK'
    BY <1>3, <2>2, TreeStays DEF IInv
  <2>7. op.kind # "rm" /\ op'.kind = op.kind
    BY <1>1, <1>3, KindIs DEF IInv, OpType
  <2>8. BlocksOK'
    BY <1>3, <2>2, <2>7, BlocksStay DEF IInv, BlocksOK, Removing
  <2>9. Creating({"mkdir", "touch"})'
    BY <1>1, <1>3, <2>3, CreatingStays DEF OpType
  <2>10. Fresh(op.ino)'
    BY <1>1, <1>3, <2>2, <2>4, SameTree DEF Fresh, OpType
  <2>11. OpType' /\ op'.blocks = <<>>
    BY <1>1, <1>3, <2>1, <2>3 DEF OpType
  <2>12. CASE op.kind = "mkdir"
    <3>1. op'.pc = "alloc_block" /\ op'.kind = "mkdir"
      BY <1>1, <1>3, <2>12 DEF OpType
    <3>2. Creating({"mkdir"})'
      BY <2>9, <3>1 DEF Creating
    <3>3. OpOK'
      BY <2>10, <2>11, <3>1, <3>2 DEF OpOK, At
    <3>. QED
      BY <1>3, <2>5, <2>6, <2>8, <3>3, SameTree DEF IInv, ShellOK, shell
  <2>13. CASE op.kind = "touch"
    <3>1. op'.pc = "write_inode" /\ op'.kind = "touch"
      BY <1>1, <1>3, <2>13 DEF OpType
    <3>2. OpOK'
      BY <2>9, <2>10, <2>11, <3>1 DEF OpOK, At
    <3>. QED
      BY <1>3, <2>5, <2>6, <2>8, <3>2, SameTree DEF IInv, ShellOK, shell
  <2>. QED
    BY <2>3, <2>12, <2>13 DEF Creating
<1>. QED
  BY <1>2, <1>3 DEF AllocInode

\* The new block was free, so nothing owns it.
LEMMA AllocBlockKeeps == ASSUME IInv, AllocBlock PROVE IInv'
<1> DEFINE b == Lowest(FreeBlocks)
<1>1. At("alloc_block") /\ op.pc = "alloc_block" /\ OpType
  BY DEF AllocBlock, At, IInv, OpOK
<1>2. CASE FreeBlocks = {} /\ Fail
  <2>1. op' = Idle /\ UNCHANGED <<disk, shell, losses>> /\ cut' \in Nat
    BY <1>2 DEF Fail, IInv, DiskTypes
  <2>. QED
    BY <1>1, <2>1, GiveUpKeeps DEF At
<1>3. CASE /\ FreeBlocks # {}
           /\ block_bitmap' = MarkBlock(block_bitmap, b)
           /\ op' = [op EXCEPT !.pc = "write_inode", !.blocks = <<b>>]
           /\ UNCHANGED <<inode_bitmap, inode, content, shell, losses, cut>>
  <2>1. b \in Block /\ b \notin block_bitmap
    <3>1. FreeBlocks \subseteq Nat
      BY NumberAssumption DEF FreeBlocks
    <3>2. b \in FreeBlocks
      BY <1>3, <3>1, LowestIs
    <3>. QED
      BY <3>2 DEF FreeBlocks
  <2>2. block_bitmap' = block_bitmap \cup {b}
    BY <1>3 DEF MarkBlock
  <2>3. Creating({"mkdir"}) /\ Fresh(op.ino)
    BY <1>1 DEF IInv, OpOK
  <2>4. DiskTypes'
    BY <1>3, <2>1, <2>2 DEF IInv, DiskTypes
  <2>5. TreeOK'
    BY <1>3, TreeStays DEF IInv
  <2>6. op.kind = "mkdir" /\ op'.kind = "mkdir" /\ op'.pc = "write_inode" /\ op'.ino = op.ino
    BY <1>1, <1>3, <2>3 DEF OpType, Creating
  <2>7. \A i \in Inode : Owner(i) => Blocks(i) \subseteq block_bitmap
    BY <2>6 DEF IInv, BlocksOK, Removing
  <2>8. BlocksOK'
    BY <1>3, <2>2, <2>7, BlocksStay DEF IInv, BlocksOK
  <2>9. Creating({"mkdir", "touch"})'
    <3>1. Creating({"mkdir"})'
      BY <1>1, <1>3, <2>3, CreatingStays DEF OpType
    <3>. QED
      BY <3>1 DEF Creating
  <2>10. Fresh(op.ino)'
    BY <1>3, <2>3, <2>6, SameTree DEF Fresh
  <2>11. OpType' /\ op'.blocks = <<b>>
    <3>1. <<b>> \in Seq(Block)
      BY <2>1
    <3>. HIDE DEF b
    <3>. QED
      BY <1>1, <1>3, <3>1 DEF OpType
  <2>12. \A i \in Inode : Owner(i)' => b \notin Blocks(i)'
    BY <1>3, <2>1, <2>7, SameTree
  <2>13. OpOK'
    BY <2>2, <2>6, <2>9, <2>10, <2>11, <2>12 DEF OpOK, At
  <2>. QED
    BY <1>3, <2>4, <2>5, <2>8, <2>13, SameTree DEF IInv, ShellOK, shell
<1>. QED
  BY <1>2, <1>3 DEF AllocBlock

\* Only the file that goes loses its block.
LEMMA FreeBlockKeeps == ASSUME IInv, FreeBlock PROVE IInv'
<1>1. /\ op.pc = "free_blocks" /\ op.blocks # <<>>
      /\ block_bitmap' = block_bitmap \ {Head(op.blocks)}
      /\ op' = [op EXCEPT !.blocks = Tail(@)]
      /\ UNCHANGED <<inode_bitmap, inode, content, shell, losses, cut>>
  BY DEF FreeBlock, At, ClearBit
<1>2. Condemned /\ OpType
  BY <1>1 DEF IInv, OpOK, At
<1>3. Head(op.blocks) \in Blocks(op.ino) /\ Tail(op.blocks) \in Seq(Blocks(op.ino))
  <2>1. op.blocks \in Seq(Blocks(op.ino)) /\ op.blocks # <<>>
    BY <1>1, <1>2 DEF Condemned
  <2>. QED
    BY <2>1, HeadTailProperties
<1>4. op.ino \in Inode /\ Owner(op.ino)
  <2>1. Named(op.ino)
    BY <1>2 DEF Condemned, Named
  <2>2. op.ino \in inode_bitmap
    BY <1>2 DEF Condemned, IInv, TreeOK, GoodName
  <2>. QED
    BY <2>1, <2>2 DEF Owner, IInv, DiskTypes
<1>5. DiskTypes'
  BY <1>1 DEF IInv, DiskTypes
<1>6. TreeOK'
  BY <1>1, TreeStays DEF IInv
<1>7. /\ op'.pc = op.pc /\ op'.kind = op.kind /\ op'.parent = op.parent /\ op'.name = op.name
      /\ op'.ino = op.ino /\ op'.blocks = Tail(op.blocks)
  BY <1>1, <1>2 DEF OpType
<1>8. BlocksOK'
  <2>1. ASSUME NEW i \in Inode, Owner(i), ~Removing(i)' PROVE Blocks(i) \subseteq block_bitmap'
    <3>1. i # op.ino /\ ~Removing(i)
      BY <1>2, <1>7, <2>1 DEF Condemned, Removing
    <3>2. Blocks(i) \cap Blocks(op.ino) = {} /\ Blocks(i) \subseteq block_bitmap
      BY <1>4, <2>1, <3>1 DEF IInv, BlocksOK
    <3>. QED
      BY <1>1, <1>3, <3>2
  <2>. QED
    BY <1>1, <2>1, BlocksStay DEF IInv, BlocksOK
<1>9. Condemned'
  BY <1>1, <1>2, <1>3, <1>7, SameTree DEF Condemned
<1>10. OpType'
  <2>1. Tail(op.blocks) \in Seq(Block)
    BY <1>1, <1>2 DEF OpType
  <2>. QED
    BY <1>1, <1>2, <2>1 DEF OpType
<1>11. OpOK'
  BY <1>1, <1>7, <1>9, <1>10 DEF OpOK, At
<1>. QED
  BY <1>1, <1>5, <1>6, <1>8, <1>11, SameTree DEF IInv, ShellOK, shell

\* Nothing leads to an inode that is freed.
LEMMA FreeInodeKeeps == ASSUME IInv, FreeInode PROVE IInv'
<1>1. /\ op.pc = "free_inode" /\ op' = Idle
      /\ inode_bitmap' = inode_bitmap \ {op.ino}
      /\ UNCHANGED <<block_bitmap, inode, content, shell, losses, cut>>
  BY DEF FreeInode, At, ClearBit
<1>2. ~Owner(op.ino)
  BY <1>1 DEF IInv, OpOK, At
<1>3. DiskTypes'
  BY <1>1 DEF IInv, DiskTypes
<1>4. TreeOK'
  BY <1>1, <1>2, TreeStays DEF IInv, Owner
<1>5. BlocksOK'
  <2>1. \A i \in Inode : Owner(i) => ~Removing(i)
    BY <1>2 DEF Removing
  <2>2. Dirs \subseteq inode_bitmap'
    BY <1>1, <1>2 DEF IInv, BlocksOK, Owner
  <2>. QED
    BY <1>1, <2>1, <2>2, BlocksStay DEF IInv, BlocksOK
<1>. QED
  BY <1>1, <1>3, <1>4, <1>5, IdleOK, SameTree DEF IInv, ShellOK, shell

-----------------------------------------------------------------------------
(* mkdir and touch write the inode, mkdir then the directory's block.      *)

\* Every name stays in its place, and there is no other.
NamesStay ==
  /\ Formatted \subseteq Formatted'
  /\ \A d \in Formatted : Entries(d)' = Entries(d) /\ Places(d)' = Places(d)
  /\ \A d \in Formatted' \ Formatted : Places(d)' = {}
  /\ \A j : Named(j)' <=> Named(j)

\* The inode of something that is no directory and has no name.
LEMMA NewInode ==
  ASSUME IInv, NEW i \in Inode, ~Owner(i), NEW data \in InodeType,
         inode' = [inode EXCEPT ![i] = data], content' = content,
         data.mode = "dir" => data.blocks # <<>> /\ content[data.blocks[1]] = <<>>
  PROVE  /\ Formatted' = Formatted
         /\ Dirs' = IF data.mode = "dir" THEN Dirs \cup {i} ELSE Dirs
         /\ \A d \in Inode : d # i => Entries(d)' = Entries(d) /\ Blocks(d)' = Blocks(d)
         /\ \A d \in Formatted : Entries(d)' = Entries(d) /\ Places(d)' = Places(d)
         /\ \A j : Named(j)' <=> Named(j)
         /\ Entries(i)' = content[data.blocks[1]]
         /\ Blocks(i)' = {data.blocks[k] : k \in DOMAIN data.blocks}
<1>1. /\ inode'[i] = data /\ \A d \in Inode : d # i => inode'[d] = inode[d]
  BY DEF IInv, DiskTypes
<1>2. i \notin Dirs /\ ~Named(i)
  BY DEF Owner
<1>3. Dirs' = IF data.mode = "dir" THEN Dirs \cup {i} ELSE Dirs
  BY <1>1, <1>2 DEF Dirs
<1>4. \A d \in Inode : d # i => Entries(d)' = Entries(d) /\ Blocks(d)' = Blocks(d)
  BY <1>1 DEF Entries, Blocks
<1>5. Entries(i)' = content[data.blocks[1]] /\ Blocks(i)' = {data.blocks[k] : k \in DOMAIN data.blocks}
  BY <1>1 DEF Entries, Blocks
<1>6. Formatted' = Formatted
  <2>1. \A d \in Inode : d # i => (d \in Formatted' <=> d \in Formatted)
    BY <1>3, <1>4 DEF Formatted
  <2>2. i \notin Formatted /\ i \notin Formatted'
    BY <1>2, <1>3, <1>5 DEF Formatted
  <2>3. /\ \A d : d \in Formatted => d \in Inode
        /\ \A d : d \in Formatted' => d \in Inode
    BY DEF Formatted, Dirs
  <2>4. \A d : d \in Formatted' <=> d \in Formatted
    BY <2>1, <2>2, <2>3
  <2>. QED
    BY <2>4
<1>7. \A d \in Formatted : Entries(d)' = Entries(d) /\ Places(d)' = Places(d)
  <2>1. \A d \in Formatted : d \in Inode /\ d # i
    BY <1>2 DEF Formatted, Dirs
  <2>. QED
    BY <1>4, <2>1 DEF Places
<1>8. \A j : Named(j)' <=> Named(j)
  BY <1>6, <1>7 DEF Named
<1>. QED
  BY <1>3, <1>4, <1>5, <1>6, <1>7, <1>8

\* Names and the directories they are in do not notice.
LEMMA TreeUntouched ==
  ASSUME IInv, Formatted' = Formatted,
         \A d \in Formatted : Entries(d)' = Entries(d),
         \A i : Named(i) => inode'[i].mode = inode[i].mode,
         \A d \in Dirs' : inode'[d].blocks # <<>>,
         inode_bitmap' = inode_bitmap
  PROVE  TreeOK'
<1>1. \A d \in Formatted : Places(d)' = Places(d)
  BY DEF Places
<1>2. \A d \in Formatted : GoodDir(d)'
  BY DEF IInv, TreeOK, GoodDir
<1>3. \A d \in Formatted : \A k \in Places(d) : GoodName(d, k)'
  <2>. SUFFICES ASSUME NEW d \in Formatted, NEW k \in Places(d) PROVE GoodName(d, k)'
    OBVIOUS
  <2>1. GoodName(d, k) /\ Named(Entries(d)[k].ino)
    BY DEF IInv, TreeOK, Named
  <2>. QED
    BY <1>1, <2>1 DEF GoodName
<1>. QED
  BY <1>1, <1>2, <1>3 DEF IInv, TreeOK

\* A directory becomes one before its block is written.
LEMMA WriteInodeKeeps == ASSUME IInv, WriteInode PROVE IInv' /\ NamesStay
<1> PICK i : i = op.ino
  OBVIOUS
<1> PICK data : data = [mode |-> IF op.kind = "mkdir" THEN "dir" ELSE "reg", blocks |-> op.blocks]
  OBVIOUS
<1>1. /\ op.pc = "write_inode"
      /\ inode' = [inode EXCEPT ![i] = data]
      /\ op' = [op EXCEPT !.pc = IF op.kind = "mkdir" THEN "write_dir" ELSE "link"]
      /\ UNCHANGED <<inode_bitmap, block_bitmap, content, shell, losses, cut>>
  BY DEF WriteInode, At, ext2_write_inode
<1>2. /\ OpType /\ Creating({"mkdir", "touch"}) /\ Fresh(i)
      /\ op.kind = "touch" => op.blocks = <<>>
      /\ op.kind = "mkdir" => \E b \in block_bitmap :
           op.blocks = <<b>> /\ \A j \in Inode : Owner(j) => b \notin Blocks(j)
  BY <1>1 DEF IInv, OpOK, At
<1>3. i \in Inode /\ ~Owner(i) /\ i # Root /\ i \in inode_bitmap /\ data \in InodeType
  BY <1>2 DEF Fresh, IInv, DiskTypes, OpType, InodeType
<1>4. ASSUME data.mode = "dir"
      PROVE  \E b \in block_bitmap : /\ b \in Block /\ data.blocks = <<b>> /\ content[b] = <<>>
                                     /\ \A j \in Inode : Owner(j) => b \notin Blocks(j)
  <2>1. PICK b \in block_bitmap : op.blocks = <<b>> /\ \A j \in Inode : Owner(j) => b \notin Blocks(j)
    BY <1>2, <1>4
  <2>2. b \in Block
    BY DEF IInv, DiskTypes
  <2>3. ASSUME NEW d \in Dirs, b = inode[d].blocks[1] PROVE FALSE
    <3>1. d \in Inode /\ Owner(d) /\ inode[d].blocks \in Seq(Block) /\ inode[d].blocks # <<>>
      BY DEF Dirs, Owner, IInv, TreeOK, DiskTypes, InodeType
    <3>2. b \in Blocks(d)
      BY <2>3, <3>1 DEF Blocks
    <3>. QED
      BY <2>1, <3>1, <3>2
  <2>4. content[b] = <<>>
    BY <2>2, <2>3 DEF IInv, BlocksOK
  <2>. QED
    BY <2>1, <2>2, <2>4
<1>5. data.mode = "dir" => data.blocks # <<>> /\ content[data.blocks[1]] = <<>>
  BY <1>4
<1>6. /\ Formatted' = Formatted
      /\ Dirs' = IF data.mode = "dir" THEN Dirs \cup {i} ELSE Dirs
      /\ \A d \in Inode : d # i => Entries(d)' = Entries(d) /\ Blocks(d)' = Blocks(d)
      /\ \A d \in Formatted : Entries(d)' = Entries(d) /\ Places(d)' = Places(d)
      /\ \A j : Named(j)' <=> Named(j)
      /\ Blocks(i)' = {data.blocks[k] : k \in DOMAIN data.blocks}
  BY <1>1, <1>3, <1>5, NewInode
<1>7. /\ inode'[i] = data /\ \A d \in Inode : d # i => inode'[d] = inode[d]
      /\ inode' \in [Inode -> InodeType]
  BY <1>1, <1>3 DEF IInv, DiskTypes
<1>8. DiskTypes'
  BY <1>1, <1>7 DEF IInv, DiskTypes
<1>9. TreeOK'
  <2>1. \A j : Named(j) => inode'[j].mode = inode[j].mode
    <3>. SUFFICES ASSUME NEW j, Named(j) PROVE inode'[j] = inode[j]
      OBVIOUS
    <3>1. j \in Inode /\ j # i
      BY <1>3 DEF Named, Owner, IInv, TreeOK, GoodName, DiskTypes
    <3>. QED
      BY <1>7, <3>1
  <2>2. ASSUME NEW d \in Dirs' PROVE inode'[d].blocks # <<>>
    <3>1. CASE d = i
      <4>1. data.mode = "dir"
        BY <1>7, <3>1 DEF Dirs
      <4>. QED
        BY <1>5, <1>7, <3>1, <4>1
    <3>2. CASE d # i
      BY <1>6, <1>7, <3>2 DEF IInv, TreeOK, Dirs
    <3>. QED
      BY <3>1, <3>2
  <2>. QED
    BY <1>1, <1>6, <2>1, <2>2, TreeUntouched
<1>10. \A j \in Inode : Owner(j)' <=> Owner(j) \/ (data.mode = "dir" /\ j = i)
  BY <1>6 DEF Owner
<1>11. BlocksOK'
  <2>1. \A j \in Inode : ~Removing(j) /\ ~Removing(j)'
    BY <1>1, <1>2 DEF Creating, Removing, OpType
  <2>2. Dirs' \subseteq inode_bitmap'
    BY <1>1, <1>3, <1>6 DEF IInv, BlocksOK
  <2>3. \A j \in Inode : Owner(j)' => Blocks(j)' \subseteq block_bitmap'
    <3>. SUFFICES ASSUME NEW j \in Inode, Owner(j)' PROVE Blocks(j)' \subseteq block_bitmap
      BY <1>1
    <3>1. CASE j = i
      <4>1. data.mode = "dir"
        BY <1>3, <1>10, <3>1
      <4>2. PICK b \in block_bitmap : data.blocks = <<b>>
        BY <1>4, <4>1
      <4>. QED
        BY <1>6, <3>1, <4>2
    <3>2. CASE j # i
      BY <1>6, <1>10, <2>1, <3>2 DEF IInv, BlocksOK
    <3>. QED
      BY <3>1, <3>2
  <2>4. \A j \in Inode : Owner(j)' /\ j # i /\ Owner(i)' => Blocks(j)' \cap Blocks(i)' = {}
    <3>. SUFFICES ASSUME NEW j \in Inode, Owner(j)', j # i, Owner(i)'
                  PROVE  Blocks(j)' \cap Blocks(i)' = {}
      OBVIOUS
    <3>1. data.mode = "dir" /\ Owner(j) /\ Blocks(j)' = Blocks(j)
      BY <1>3, <1>6, <1>10
    <3>2. PICK b \in block_bitmap :
            data.blocks = <<b>> /\ \A l \in Inode : Owner(l) => b \notin Blocks(l)
      BY <1>4, <3>1
    <3>3. Blocks(i)' = {b}
      BY <1>6, <3>2
    <3>. QED
      BY <3>1, <3>2, <3>3
  <2>5. \A j, l \in Inode : Owner(j)' /\ Owner(l)' /\ j # l => Blocks(j)' \cap Blocks(l)' = {}
    <3>. SUFFICES ASSUME NEW j \in Inode, NEW l \in Inode, Owner(j)', Owner(l)', j # l
                  PROVE  Blocks(j)' \cap Blocks(l)' = {}
      OBVIOUS
    <3>1. CASE j = i \/ l = i
      BY <2>4, <3>1
    <3>2. CASE j # i /\ l # i
      BY <1>6, <1>10, <3>2 DEF IInv, BlocksOK
    <3>. QED
      BY <3>1, <3>2
  <2>6. \A b \in Block : content'[b] # <<>> => \E d \in Dirs' : b = inode'[d].blocks[1]
    <3>1. \A d \in Dirs : d \in Dirs' /\ inode'[d] = inode[d]
      BY <1>3, <1>6, <1>7 DEF Owner, Dirs
    <3>. QED
      BY <1>1, <3>1 DEF IInv, BlocksOK
  <2>7. losses' > 0 => \A j \in Inode : inode'[j].mode = "reg" => inode'[j].blocks = <<>>
    <3>1. data.mode = "reg" => data.blocks = <<>>
      BY <1>2 DEF Creating
    <3>. QED
      BY <1>1, <1>7, <3>1 DEF IInv, BlocksOK
  <2>. QED
    BY <2>1, <2>2, <2>3, <2>5, <2>6, <2>7 DEF BlocksOK
<1>12. OpOK'
  <2>1. /\ OpType' /\ op'.kind = op.kind /\ op'.parent = op.parent /\ op'.name = op.name
        /\ op'.ino = i /\ op'.blocks = op.blocks
        /\ op'.pc = IF op.kind = "mkdir" THEN "write_dir" ELSE "link"
    BY <1>1, <1>2 DEF OpType
  <2>2. Creating({op.kind})'
    BY <1>2, <1>6, <2>1 DEF Creating
  <2>3. i # op.parent /\ ~Named(i)' /\ i \notin Formatted'
    BY <1>2, <1>3, <1>6 DEF Creating, Owner, Formatted
  <2>4. CASE op.kind = "mkdir"
    <3>1. PICK b \in Block : data.blocks = <<b>>
      BY <1>4, <2>4
    <3>2. i \in Dirs' /\ inode'[i].blocks = <<b>> /\ op.blocks = <<b>>
      BY <1>6, <1>7, <2>4, <3>1
    <3>. QED
      BY <1>3, <2>1, <2>2, <2>3, <2>4, <3>2 DEF OpOK, At
  <2>5. CASE op.kind = "touch"
    <3>1. inode'[i].mode = "reg" /\ inode'[i].blocks = <<>>
      BY <1>2, <1>7, <2>5
    <3>2. Creating({"mkdir", "touch"})'
      BY <2>2, <2>1, <2>5 DEF Creating
    <3>. QED
      BY <1>1, <1>3, <2>1, <2>3, <2>5, <3>1, <3>2 DEF OpOK, At
  <2>. QED
    BY <1>2, <2>4, <2>5 DEF Creating
<1>13. ShellOK'
  BY <1>1, <1>6 DEF IInv, ShellOK, shell
<1>14. NamesStay
  BY <1>6 DEF NamesStay
<1>. QED
  BY <1>8, <1>9, <1>11, <1>12, <1>13, <1>14 DEF IInv

-----------------------------------------------------------------------------
(* What linking and unlinking make of a directory block.                   *)

LEMMA NotEmpty == ASSUME NEW es, Len(es) \in Nat, Len(es) > 0 PROVE es # <<>>
<1>1. Len(<<>>) = 0
  OBVIOUS
<1>. QED
  BY <1>1

LEMMA TiledAt ==
  ASSUME NEW es, NEW n \in Nat, Len(es) = n, NEW at \in [1 .. n + 1 -> 0 .. DirSize],
         at[1] = 0, at[n + 1] = DirSize,
         \A k \in 1 .. n : at[k + 1] = at[k] + es[k].rec_len
  PROVE  Tiled(es)
BY Zenon DEF Tiled

\* Two sequences one after the other.
LEMMA Joined ==
  ASSUME NEW S, NEW s \in Seq(S), NEW t \in Seq(S)
  PROVE  /\ s \o t \in Seq(S) /\ Len(s \o t) = Len(s) + Len(t)
         /\ \A k \in 1 .. Len(s) : (s \o t)[k] = s[k]
         /\ \A k \in 1 .. Len(t) : (s \o t)[Len(s) + k] = t[k]
OBVIOUS

\* Two entries more at the end.
LEMMA TwoMore ==
  ASSUME NEW S, NEW s \in Seq(S), NEW a \in S, NEW b \in S
  PROVE  /\ s \o <<a, b>> \in Seq(S) /\ Len(s \o <<a, b>>) = Len(s) + 2
         /\ \A k \in 1 .. Len(s) : (s \o <<a, b>>)[k] = s[k]
         /\ (s \o <<a, b>>)[Len(s) + 1] = a /\ (s \o <<a, b>>)[Len(s) + 2] = b
OBVIOUS

\* The last of a sequence replaced by two.
LastSplit(E, a, b) == SubSeq(E, 1, Len(E) - 1) \o <<a, b>>

\* Linking replaces the last entry by two.
LEMMA LastSplitIs ==
  ASSUME NEW S, NEW E \in Seq(S), Len(E) > 0, NEW a \in S, NEW b \in S
  PROVE  /\ LastSplit(E, a, b) \in Seq(S) /\ Len(LastSplit(E, a, b)) = Len(E) + 1
         /\ \A k \in 1 .. Len(E) - 1 : LastSplit(E, a, b)[k] = E[k]
         /\ LastSplit(E, a, b)[Len(E)] = a /\ LastSplit(E, a, b)[Len(E) + 1] = b
<1> DEFINE s == SubSeq(E, 1, Len(E) - 1)
<1>0. Len(E) \in Nat \ {0}
  OBVIOUS
<1>1. s \in Seq(S) /\ Len(s) = Len(E) - 1 /\ \A k \in 1 .. Len(E) - 1 : s[k] = E[k]
  OBVIOUS
<1>3. LastSplit(E, a, b) = s \o <<a, b>>
  BY DEF LastSplit
<1>. HIDE DEF s
<1>4. /\ s \o <<a, b>> \in Seq(S) /\ Len(s \o <<a, b>>) = Len(s) + 2
      /\ \A k \in 1 .. Len(s) : (s \o <<a, b>>)[k] = s[k]
      /\ (s \o <<a, b>>)[Len(s) + 1] = a /\ (s \o <<a, b>>)[Len(s) + 2] = b
  BY <1>1, TwoMore
<1>5. (Len(E) - 1) + 2 = Len(E) + 1 /\ (Len(E) - 1) + 1 = Len(E)
  BY <1>0
<1>. QED
  BY <1>1, <1>3, <1>4, <1>5

IsSplit(s, E, a, b) ==
  /\ s \in Seq(EntryType) /\ Len(s) = Len(E) + 1
  /\ \A k \in 1 .. Len(E) - 1 : s[k] = E[k]
  /\ s[Len(E)] = a /\ s[Len(E) + 1] = b

LEMMA EntriesSplit ==
  ASSUME NEW E \in Seq(EntryType), Len(E) > 0, NEW a \in EntryType, NEW b \in EntryType
  PROVE  IsSplit(LastSplit(E, a, b), E, a, b)
BY LastSplitIs DEF IsSplit

\* One of a sequence left out.
Without(F, k) == SubSeq(F, 1, k - 1) \o SubSeq(F, k + 1, Len(F))

\* Unlinking takes one entry out.
LEMMA WithoutIs ==
  ASSUME NEW S, NEW F \in Seq(S), NEW k \in 1 .. Len(F)
  PROVE  /\ Without(F, k) \in Seq(S) /\ Len(Without(F, k)) = Len(F) - 1
         /\ \A l \in 1 .. Len(F) - 1 : Without(F, k)[l] = IF l < k THEN F[l] ELSE F[l + 1]
<1> DEFINE s == SubSeq(F, 1, k - 1)
           t == SubSeq(F, k + 1, Len(F))
<1>0. Len(F) \in Nat
  OBVIOUS
<1>1. s \in Seq(S) /\ Len(s) = k - 1 /\ \A l \in 1 .. k - 1 : s[l] = F[l]
  OBVIOUS
<1>2. t \in Seq(S) /\ Len(t) = Len(F) - k /\ \A l \in 1 .. Len(F) - k : t[l] = F[k + l]
  OBVIOUS
<1>3. Without(F, k) = s \o t
  BY DEF Without
<1>. HIDE DEF s, t
<1>4. /\ s \o t \in Seq(S) /\ Len(s \o t) = Len(s) + Len(t)
      /\ \A l \in 1 .. Len(s) : (s \o t)[l] = s[l]
      /\ \A l \in 1 .. Len(t) : (s \o t)[Len(s) + l] = t[l]
  <2>1. s \in Seq(S) /\ t \in Seq(S)
    BY <1>1, <1>2
  <2>. QED
    BY <2>1, Joined
<1>5. (k - 1) + (Len(F) - k) = Len(F) - 1
  BY <1>0
<1>6. ASSUME NEW l \in 1 .. Len(F) - 1 PROVE (s \o t)[l] = IF l < k THEN F[l] ELSE F[l + 1]
  <2>1. CASE l < k
    <3>1. l \in 1 .. k - 1
      BY <1>0, <2>1
    <3>. QED
      BY <1>1, <1>4, <2>1, <3>1
  <2>2. CASE ~(l < k)
    <3> PICK j : j = l - (k - 1)
      OBVIOUS
    <3>1. j \in 1 .. Len(F) - k /\ (k - 1) + j = l /\ k + j = l + 1
      BY <1>0, <2>2
    <3>2. (s \o t)[(k - 1) + j] = t[j] /\ t[j] = F[k + j]
      BY <1>1, <1>2, <1>4, <3>1
    <3>. QED
      BY <2>2, <3>1, <3>2
  <2>. QED
    BY <2>1, <2>2
<1>. QED
  BY <1>1, <1>2, <1>3, <1>4, <1>5, <1>6

\* Two neighbours joined span what both did.
LEMMA Spans ==
  ASSUME NEW p \in 0 .. DirSize, NEW q \in 0 .. DirSize, NEW r \in 0 .. DirSize,
         NEW x \in 0 .. DirSize, NEW y \in 0 .. DirSize, q = p + x, r = q + y
  PROVE  x + y \in 0 .. DirSize /\ r = p + (x + y)
<1>1. DirSize \in Nat
  BY SizeAssumption
<1>. QED
  BY <1>1

\* An entry more at the end, the others as they were but for a length.
OneMoreName(es, E, n, i, t) ==
  /\ es \in Seq(EntryType) /\ Len(es) = Len(E) + 1 /\ Tiled(es)
  /\ es[Len(es)].name = n /\ es[Len(es)].ino = i /\ es[Len(es)].type = t
  /\ \A k \in 1 .. Len(E) : /\ es[k].name = E[k].name
                            /\ es[k].ino = E[k].ino
                            /\ es[k].type = E[k].type

LEMMA LinkedIs ==
  ASSUME NEW d, Entries(d) \in Seq(EntryType), Len(Entries(d)) > 1, Tiled(Entries(d)), Splits(d),
         NEW n \in Name, NEW i \in Inode, NEW t \in {"dir", "reg"},
         NEW es, es = Linked(d, n, i, t)
  PROVE  OneMoreName(es, Entries(d), n, i, t)
<1> PICK E : E = Entries(d)
  OBVIOUS
<1> PICK m \in Nat : m = Len(E) /\ m > 1
  OBVIOUS
<1> PICK own : own = EntrySize[E[m].name]
  OBVIOUS
<1>1. E \in Seq(EntryType) /\ E[m] \in EntryType /\ \A k \in 1 .. m : E[k] \in EntryType
  OBVIOUS
<1>2. own \in Nat \ {0} /\ E[m].rec_len > own /\ E[m].rec_len \in 0 .. DirSize
  BY <1>1, NameAssumption DEF Splits, Last, EntryType
<1>6. PICK a : a = [E[m] EXCEPT !.rec_len = own]
  OBVIOUS
<1>7. PICK b : b = Entry(i, n, t, E[m].rec_len - own)
  OBVIOUS
<1>3. /\ a \in EntryType /\ a.name = E[m].name /\ a.ino = E[m].ino /\ a.type = E[m].type
      /\ a.rec_len = own
  <2>1. own \in 0 .. DirSize
    BY <1>2, SizeAssumption
  <2>. QED
    BY <1>1, <1>6, <2>1 DEF EntryType
<1>4. /\ b \in EntryType /\ b.name = n /\ b.ino = i /\ b.type = t
      /\ b.rec_len = E[m].rec_len - own
  <2>1. E[m].rec_len - own \in 0 .. DirSize
    BY <1>2, SizeAssumption
  <2>. QED
    BY <1>7, <2>1 DEF EntryType, Entry
<1>5. es = LastSplit(E, a, b)
  BY <1>6, <1>7 DEF LastSplit, Linked, Front, Last
<1>8. /\ es \in Seq(EntryType) /\ Len(es) = m + 1
      /\ \A k \in 1 .. m - 1 : es[k] = E[k]
      /\ es[m] = a /\ es[m + 1] = b
  <2>1. m \in Nat \ {0} /\ Len(E) = m
    OBVIOUS
  <2>2. E \in Seq(EntryType) /\ Len(E) > 0 /\ a \in EntryType /\ b \in EntryType
    BY <1>1, <1>3, <1>4
  <2>. QED
    <3>1. IsSplit(LastSplit(E, a, b), E, a, b)
      BY <2>2, EntriesSplit, Zenon
    <3>. QED
      BY <1>5, <2>1, <3>1 DEF IsSplit
<1>9. Tiled(es)
  <2>1. PICK at \in [1 .. m + 1 -> 0 .. DirSize] :
          /\ at[1] = 0 /\ at[m + 1] = DirSize
          /\ \A k \in 1 .. m : at[k + 1] = at[k] + E[k].rec_len
    BY DEF Tiled
  <2> DEFINE new == [k \in 1 .. m + 2 |-> IF k <= m THEN at[k]
                                          ELSE IF k = m + 1 THEN at[m] + own ELSE DirSize]
  <2>2. at[m] \in 0 .. DirSize /\ at[m] + E[m].rec_len = DirSize
    BY <2>1
  <2>3. new \in [1 .. m + 2 -> 0 .. DirSize]
    BY <1>2, <2>1, <2>2, SizeAssumption
  <2>4. new[1] = 0 /\ new[m + 2] = DirSize
    BY <2>1
  <2>5. \A k \in 1 .. m + 1 : new[k + 1] = new[k] + es[k].rec_len
    <3>. SUFFICES ASSUME NEW k \in 1 .. m + 1 PROVE new[k + 1] = new[k] + es[k].rec_len
      OBVIOUS
    <3>1. CASE k \in 1 .. m - 1
      <4>1. new[k + 1] = at[k + 1] /\ new[k] = at[k]
        BY <3>1
      <4>. QED
        BY <1>8, <2>1, <3>1, <4>1
    <3>2. CASE k = m
      <4>1. new[m + 1] = at[m] + own /\ new[m] = at[m]
        OBVIOUS
      <4>. QED
        BY <1>3, <1>8, <3>2, <4>1
    <3>3. CASE k = m + 1
      <4>1. new[(m + 1) + 1] = DirSize /\ new[m + 1] = at[m] + own
        OBVIOUS
      <4>. QED
        BY <1>2, <1>4, <1>8, <2>2, <3>3, <4>1, SizeAssumption
    <3>. QED
      BY <3>1, <3>2, <3>3
  <2>6. Len(es) = m + 1 /\ (m + 1) + 1 = m + 2
    BY <1>8
  <2>7. m + 1 \in Nat
    OBVIOUS
  <2>. HIDE DEF new
  <2>. QED
    BY <2>3, <2>4, <2>5, <2>6, <2>7, TiledAt
<1>10. \A k \in 1 .. m : k \in 1 .. m - 1 \/ k = m
  OBVIOUS
<1>. QED
  BY <1>3, <1>4, <1>8, <1>9, <1>10 DEF OneMoreName

\* The entry before takes the space, those after move up.
LEMMA UnlinkedIs ==
  ASSUME NEW d, Entries(d) \in Seq(EntryType), Tiled(Entries(d)),
         NEW k \in 2 .. Len(Entries(d)), NEW es, es = Unlinked(d, k)
  PROVE  /\ es \in Seq(EntryType) /\ Len(es) = Len(Entries(d)) - 1 /\ Tiled(es)
         /\ \A l \in 1 .. Len(es) :
              LET o == IF l < k THEN l ELSE l + 1
              IN  /\ es[l].name = Entries(d)[o].name
                  /\ es[l].ino = Entries(d)[o].ino
                  /\ es[l].type = Entries(d)[o].type
<1> PICK E : E = Entries(d)
  OBVIOUS
<1> PICK m \in Nat : m = Len(E)
  OBVIOUS
<1>0. k \in 2 .. m /\ k \in Nat
  OBVIOUS
<1>1. E \in Seq(EntryType) /\ \A l \in 1 .. m : E[l] \in EntryType
  OBVIOUS
<1>2. PICK at \in [1 .. m + 1 -> 0 .. DirSize] :
        /\ at[1] = 0 /\ at[m + 1] = DirSize
        /\ \A l \in 1 .. m : at[l + 1] = at[l] + E[l].rec_len
  BY DEF Tiled
<1>6. PICK a : a = [E[k - 1] EXCEPT !.rec_len = E[k - 1].rec_len + E[k].rec_len]
  OBVIOUS
<1>3. /\ a \in EntryType /\ a.name = E[k - 1].name /\ a.ino = E[k - 1].ino
      /\ a.type = E[k - 1].type
      /\ at[k + 1] = at[k - 1] + a.rec_len
  <2>1. k - 1 \in 1 .. m /\ k \in 1 .. m /\ k + 1 \in 1 .. m + 1 /\ k - 1 \in 1 .. m + 1
        /\ (k - 1) + 1 = k /\ k \in 1 .. m + 1
    BY <1>0
  <2>2. at[k] = at[k - 1] + E[k - 1].rec_len /\ at[k + 1] = at[k] + E[k].rec_len
    BY <1>2, <2>1
  <2>3. at[k - 1] \in 0 .. DirSize /\ at[k] \in 0 .. DirSize /\ at[k + 1] \in 0 .. DirSize
    BY <2>1
  <2>4. E[k - 1].rec_len \in 0 .. DirSize /\ E[k].rec_len \in 0 .. DirSize /\ E[k - 1] \in EntryType
    BY <1>1, <2>1 DEF EntryType
  <2>5. E[k - 1].rec_len + E[k].rec_len \in 0 .. DirSize
        /\ at[k + 1] = at[k - 1] + (E[k - 1].rec_len + E[k].rec_len)
    <3>1. E[k - 1].rec_len \in 0 .. DirSize /\ E[k].rec_len \in 0 .. DirSize
      BY <2>4
    <3>2. PICK p \in 0 .. DirSize, q \in 0 .. DirSize, r \in 0 .. DirSize :
            p = at[k - 1] /\ q = at[k] /\ r = at[k + 1]
      BY <2>3
    <3>3. PICK x \in 0 .. DirSize, y \in 0 .. DirSize : x = E[k - 1].rec_len /\ y = E[k].rec_len
      BY <3>1
    <3>4. q = p + x /\ r = q + y
      BY <2>2, <3>2, <3>3
    <3>5. x + y \in 0 .. DirSize /\ r = p + (x + y)
      BY <3>4, Spans
    <3>. QED
      BY <3>2, <3>3, <3>5
  <2>6. a.rec_len = E[k - 1].rec_len + E[k].rec_len
    BY <1>6, <2>4 DEF EntryType
  <2>. QED
    BY <1>6, <2>4, <2>5, <2>6 DEF EntryType
<1>7. PICK F : F = [E EXCEPT ![k - 1] = a]
  OBVIOUS
<1>4. /\ F \in Seq(EntryType) /\ Len(F) = m
      /\ \A l \in 1 .. m : F[l] = IF l = k - 1 THEN a ELSE E[l]
  <2>1. k - 1 \in 1 .. Len(E)
    BY <1>0
  <2>. QED
    BY <1>1, <1>3, <1>7, <2>1, ExceptSeq
<1>5. es = Without(F, k)
  <2>1. es = RemoveAt([E EXCEPT ![k - 1].rec_len = @ + E[k].rec_len], k)
    BY <1>0 DEF Unlinked
  <2>2. F = [E EXCEPT ![k - 1].rec_len = @ + E[k].rec_len]
    BY <1>6, <1>7
  <2>. QED
    BY <1>4, <2>1, <2>2 DEF RemoveAt, Without
<1>8. /\ es \in Seq(EntryType) /\ Len(es) = m - 1
      /\ \A l \in 1 .. m - 1 : es[l] = IF l < k THEN F[l] ELSE F[l + 1]
  <2>1. k \in 1 .. m
    BY <1>0
  <2>2. F \in Seq(EntryType) /\ Len(F) = m
    BY <1>4
  <2>. QED
    <3>1. /\ Without(F, k) \in Seq(EntryType) /\ Len(Without(F, k)) = Len(F) - 1
          /\ \A l \in 1 .. Len(F) - 1 : Without(F, k)[l] = IF l < k THEN F[l] ELSE F[l + 1]
      BY <2>1, <2>2, WithoutIs
    <3>. QED
      BY <1>5, <2>2, <3>1
<1>9. Tiled(es)
  <2> DEFINE new == [l \in 1 .. m |-> IF l < k THEN at[l] ELSE at[l + 1]]
  <2>1. new \in [1 .. m -> 0 .. DirSize] /\ new[1] = 0 /\ new[m] = DirSize
    BY <1>0, <1>2
  <2>2. \A l \in 1 .. m - 1 : new[l + 1] = new[l] + es[l].rec_len
    <3>. SUFFICES ASSUME NEW l \in 1 .. m - 1 PROVE new[l + 1] = new[l] + es[l].rec_len
      OBVIOUS
    <3>1. CASE l < k - 1
      <4>0. l \in 1 .. m /\ l + 1 \in 1 .. m /\ l + 1 < k /\ l < k /\ l # k - 1 /\ l \in Nat
        BY <1>0, <3>1
      <4>1. new[l + 1] = at[l + 1] /\ new[l] = at[l] /\ es[l] = E[l]
        BY <1>4, <1>8, <4>0
      <4>. QED
        BY <1>2, <4>0, <4>1
    <3>2. CASE l = k - 1
      <4>0. l \in 1 .. m /\ l + 1 \in 1 .. m /\ l + 1 = k /\ l < k /\ ~(k < k)
        BY <1>0, <3>2
      <4>1. new[l + 1] = at[k + 1] /\ new[l] = at[k - 1] /\ es[l] = a
        BY <1>4, <1>8, <4>0, <3>2
      <4>. QED
        BY <1>3, <4>1
    <3>3. CASE l > k - 1
      <4>2. l + 1 \in 1 .. m /\ l \in 1 .. m /\ ~(l < k) /\ ~(l + 1 < k) /\ l + 1 # k - 1
        BY <1>0, <3>3
      <4>1. new[l + 1] = at[(l + 1) + 1] /\ new[l] = at[l + 1] /\ es[l] = E[l + 1]
        BY <1>4, <1>8, <4>2
      <4>. QED
        BY <1>2, <4>1, <4>2
    <3>. QED
      BY <1>0, <3>1, <3>2, <3>3
  <2>3. Len(es) = m - 1 /\ (m - 1) + 1 = m /\ m - 1 \in Nat
    BY <1>0, <1>8
  <2>. HIDE DEF new
  <2>. QED
    BY <2>1, <2>2, <2>3, TiledAt
<1>10. ASSUME NEW l \in 1 .. m - 1, NEW o, o = IF l < k THEN l ELSE l + 1
       PROVE  es[l].name = E[o].name /\ es[l].ino = E[o].ino /\ es[l].type = E[o].type
  <2>1. o \in 1 .. m /\ l \in 1 .. m - 1
    BY <1>0, <1>10
  <2>2. es[l] = F[o]
    BY <1>8, <1>10
  <2>3. F[o] = IF o = k - 1 THEN a ELSE E[o]
    BY <1>4, <2>1
  <2>. QED
    BY <1>3, <2>2, <2>3
<1>11. \A l \in 1 .. Len(es) :
        LET o == IF l < k THEN l ELSE l + 1
        IN  es[l].name = E[o].name /\ es[l].ino = E[o].ino /\ es[l].type = E[o].type
  <2>. SUFFICES ASSUME NEW l \in 1 .. Len(es)
                PROVE  LET o == IF l < k THEN l ELSE l + 1
                       IN  es[l].name = E[o].name /\ es[l].ino = E[o].ino /\ es[l].type = E[o].type
    OBVIOUS
  <2> PICK o : o = IF l < k THEN l ELSE l + 1
    OBVIOUS
  <2>1. es[l].name = E[o].name /\ es[l].ino = E[o].ino /\ es[l].type = E[o].type
    <3>1. l \in 1 .. m - 1
      BY <1>8
    <3>. QED
      BY <1>10, <3>1
  <2>. QED
    BY <2>1
<1>. QED
  BY <1>8, <1>9, <1>11

-----------------------------------------------------------------------------
(* A directory's block is written: by mkdir, then by link and unlink.      *)

\* A directory block is written: no other directory has the same block.
LEMMA DirWritten ==
  ASSUME IInv, NEW i \in Dirs, NEW es \in Seq(EntryType), es # <<>>,
         inode' = inode, content' = [content EXCEPT ![inode[i].blocks[1]] = es]
  PROVE  /\ Dirs' = Dirs /\ Formatted' = Formatted \cup {i}
         /\ Entries(i)' = es
         /\ \A d \in Dirs : d # i => Entries(d)' = Entries(d) /\ Places(d)' = Places(d)
         /\ \A j : Blocks(j)' = Blocks(j)
         /\ content' \in [Block -> Seq(EntryType)]
         /\ \A b \in Block : content'[b] # <<>> => \E d \in Dirs : b = inode[d].blocks[1]
<1>1. \A d \in Dirs : /\ d \in Inode /\ Owner(d)
                      /\ inode[d].blocks[1] \in Blocks(d) /\ inode[d].blocks[1] \in Block
  <2>. SUFFICES ASSUME NEW d \in Dirs
                PROVE  /\ d \in Inode /\ Owner(d)
                       /\ inode[d].blocks[1] \in Blocks(d) /\ inode[d].blocks[1] \in Block
    OBVIOUS
  <2>1. d \in Inode /\ Owner(d) /\ inode[d].blocks \in Seq(Block) /\ inode[d].blocks # <<>>
    BY DEF Dirs, Owner, IInv, TreeOK, DiskTypes, InodeType
  <2>2. 1 \in DOMAIN inode[d].blocks /\ inode[d].blocks[1] \in Block
    BY <2>1
  <2>. QED
    BY <2>1, <2>2 DEF Blocks
<1>2. \A d \in Dirs : d # i => inode[d].blocks[1] # inode[i].blocks[1]
  BY <1>1 DEF IInv, BlocksOK
<1>3. /\ content' \in [Block -> Seq(EntryType)]
      /\ content'[inode[i].blocks[1]] = es
      /\ \A b \in Block : b # inode[i].blocks[1] => content'[b] = content[b]
  BY <1>1 DEF IInv, DiskTypes
<1>4. Dirs' = Dirs /\ \A j : Blocks(j)' = Blocks(j)
  BY DEF Dirs, Blocks
<1>5. /\ Entries(i)' = es
      /\ \A d \in Dirs : d # i => Entries(d)' = Entries(d)
  BY <1>1, <1>2, <1>3 DEF Entries
<1>6. \A d \in Dirs : d # i => Places(d)' = Places(d)
  BY <1>5 DEF Places
<1>7. Formatted' = Formatted \cup {i}
  BY <1>4, <1>5 DEF Formatted
<1>8. \A b \in Block : content'[b] # <<>> => \E d \in Dirs : b = inode[d].blocks[1]
  BY <1>3 DEF IInv, BlocksOK
<1>. QED
  BY <1>3, <1>4, <1>5, <1>6, <1>7, <1>8

\* A new directory's block: no name is in it.
NewDir(i, p) == << Entry(i, Dot, "dir", EntrySize[Dot]), Entry(p, DotDot, "dir", DotDotLength) >>

NewDirLike(es, i, p) ==
  /\ es \in Seq(EntryType) /\ Len(es) = 2 /\ Tiled(es)
  /\ es[1].name = Dot /\ es[1].ino = i /\ es[2].name = DotDot /\ es[2].ino = p

\* . and .. tile a new block.
LEMMA NewDirIs == ASSUME NEW i \in Inode, NEW p \in Inode PROVE NewDirLike(NewDir(i, p), i, p)
<1> PICK es : es = << Entry(i, Dot, "dir", EntrySize[Dot]), Entry(p, DotDot, "dir", DotDotLength) >>
  OBVIOUS
<1>1. /\ EntrySize[Dot] \in Nat \ {0} /\ EntrySize[DotDot] \in Nat \ {0} /\ DirSize \in Nat
      /\ EntrySize[Dot] + EntrySize[DotDot] <= DirSize
  BY NameAssumption, SizeAssumption
<1>2. EntrySize[Dot] \in 0 .. DirSize /\ DirSize - EntrySize[Dot] \in 0 .. DirSize
  <2> PICK x \in Nat \ {0}, y \in Nat \ {0} : x = EntrySize[Dot] /\ y = EntrySize[DotDot]
    BY <1>1
  <2>. QED
    BY <1>1
<1> DEFINE a == Entry(i, Dot, "dir", EntrySize[Dot])
           b == Entry(p, DotDot, "dir", DotDotLength)
<1>3. a \in EntryType /\ a.name = Dot /\ a.ino = i /\ a.rec_len = EntrySize[Dot]
  BY <1>2 DEF Entry, EntryType
<1>4. b \in EntryType /\ b.name = DotDot /\ b.ino = p /\ b.rec_len = DirSize - EntrySize[Dot]
  BY <1>2 DEF Entry, EntryType, DotDotLength
<1>5. es = <<a, b>>
  OBVIOUS
<1>. HIDE DEF a, b
<1>6. es \in Seq(EntryType) /\ Len(es) = 2 /\ es[1] = a /\ es[2] = b
  BY <1>3, <1>4, <1>5
<1>7. Tiled(es)
  <2> DEFINE at == [k \in 1 .. 3 |-> IF k = 1 THEN 0 ELSE IF k = 2 THEN EntrySize[Dot] ELSE DirSize]
  <2>1. at \in [1 .. 3 -> 0 .. DirSize] /\ at[1] = 0 /\ at[2] = EntrySize[Dot] /\ at[3] = DirSize
    BY <1>1, <1>2
  <2>2. \A k \in 1 .. 2 : at[k + 1] = at[k] + es[k].rec_len
    <3>1. at[1 + 1] = at[1] + es[1].rec_len
      BY <1>1, <1>3, <1>6, <2>1
    <3>2. at[2 + 1] = at[2] + es[2].rec_len
      <4>1. at[2] + es[2].rec_len = EntrySize[Dot] + (DirSize - EntrySize[Dot])
        BY <1>4, <1>6, <2>1
      <4>. QED
        BY <1>1, <2>1, <4>1
    <3>3. \A k \in 1 .. 2 : k = 1 \/ k = 2
      OBVIOUS
    <3>. QED
      BY <3>1, <3>2, <3>3
  <2>3. 2 \in Nat /\ 2 + 1 = 3
    OBVIOUS
  <2>. HIDE DEF at
  <2>. QED
    BY <1>6, <2>1, <2>2, <2>3, TiledAt
<1>. QED
  BY <1>3, <1>4, <1>6, <1>7 DEF NewDir, NewDirLike

LEMMA WriteNewDirKeeps == ASSUME IInv, WriteNewDir PROVE IInv' /\ NamesStay
<1>0. PICK i : i = op.ino
  OBVIOUS
<1>00. PICK p : p = op.parent
  OBVIOUS
<1>1. PICK es : es = NewDir(i, p)
  OBVIOUS
<1>2. /\ op.pc = "write_dir"
      /\ content' = [content EXCEPT ![op.blocks[1]] = es]
      /\ op' = [op EXCEPT !.pc = "link"]
      /\ UNCHANGED <<inode_bitmap, block_bitmap, inode, shell, losses, cut>>
  BY <1>0, <1>00, <1>1 DEF WriteNewDir, NewDir, At
<1>3. /\ OpType /\ Creating({"mkdir"}) /\ i \in Dirs \ {Root, p} /\ ~Named(i) /\ i \notin Formatted
      /\ \E b \in Block : op.blocks = <<b>> /\ inode[i].blocks = <<b>>
  BY <1>0, <1>00, <1>2 DEF IInv, OpOK, At
<1>4. i \in Inode /\ p \in Formatted /\ p \in Inode /\ p \in Dirs
  BY <1>00, <1>3 DEF Dirs, Creating, Formatted
<1>5. /\ es \in Seq(EntryType) /\ Len(es) = 2 /\ Tiled(es)
      /\ es[1].name = Dot /\ es[1].ino = i /\ es[2].name = DotDot /\ es[2].ino = p
  <2>1. NewDirLike(es, i, p)
    BY <1>1, <1>4, NewDirIs
  <2>. QED
    BY <2>1 DEF NewDirLike
<1>6. content' = [content EXCEPT ![inode[i].blocks[1]] = es] /\ es # <<>>
  <2>1. PICK b \in Block : op.blocks = <<b>> /\ inode[i].blocks = <<b>>
    BY <1>3
  <2>2. op.blocks[1] = inode[i].blocks[1]
    BY <2>1
  <2>3. es # <<>>
    <3>1. Len(es) = 2
      BY <1>5
    <3>. QED
      BY <3>1, NotEmpty
  <2>. QED
    BY <1>2, <2>2, <2>3
<1>7. /\ Dirs' = Dirs /\ Formatted' = Formatted \cup {i}
      /\ Entries(i)' = es
      /\ \A d \in Dirs : d # i => Entries(d)' = Entries(d) /\ Places(d)' = Places(d)
      /\ \A j : Blocks(j)' = Blocks(j)
      /\ content' \in [Block -> Seq(EntryType)]
      /\ \A b \in Block : content'[b] # <<>> => \E d \in Dirs : b = inode[d].blocks[1]
  BY <1>2, <1>3, <1>5, <1>6, DirWritten
<1>8. \A d \in Formatted : d # i /\ d \in Dirs /\ Entries(d)' = Entries(d) /\ Places(d)' = Places(d)
  <2>1. Formatted \subseteq Dirs
    BY DEF Formatted
  <2>. SUFFICES ASSUME NEW d \in Formatted
                PROVE  d # i /\ d \in Dirs /\ Entries(d)' = Entries(d) /\ Places(d)' = Places(d)
    OBVIOUS
  <2>2. d # i /\ d \in Dirs
    BY <1>3, <2>1
  <2>. QED
    BY <1>7, <2>2
<1>9. Places(i)' = {}
  <2>1. Entries(i)' = es /\ Len(es) = 2 /\ 3 .. 2 = {}
    BY <1>5, <1>7
  <2>. QED
    BY <2>1 DEF Places
<1>10. \A j : Named(j)' <=> Named(j)
  BY <1>7, <1>8, <1>9 DEF Named
<1>11. \A j : Owner(j)' <=> Owner(j)
  BY <1>7, <1>10 DEF Owner
<1>12. DiskTypes'
  BY <1>2, <1>7 DEF IInv, DiskTypes
<1>13. TreeOK'
  <2>1. GoodDir(i)'
    <3>1. \A j, k \in DOMAIN es : es[j].name = es[k].name => j = k
      <4>1. DOMAIN es = 1 .. 2 /\ \A j \in 1 .. 2 : j = 1 \/ j = 2
        BY <1>5
      <4>2. es[1].name # es[2].name
        BY <1>5 DEF Dot, DotDot
      <4>. QED
        BY <4>1, <4>2
    <3>2. es[2].ino \in Formatted' /\ Len(es) > 1 /\ Entries(i)' = es
      BY <1>4, <1>5, <1>7
    <3>3. Tiled(es) /\ es[1].name = Dot /\ es[1].ino = i /\ es[2].name = DotDot
      BY <1>5
    <3>. QED
      BY <3>1, <3>2, <3>3 DEF GoodDir
  <2>2. \A d \in Formatted : GoodDir(d)'
    BY <1>7, <1>8 DEF IInv, TreeOK, GoodDir
  <2>3. ASSUME NEW d \in Formatted, NEW k \in Places(d) PROVE GoodName(d, k)'
    <3>1. GoodName(d, k)
      BY DEF IInv, TreeOK
    <3>2. Entries(d)' = Entries(d)
      BY <1>8
    <3>. QED
      BY <1>2, <1>7, <1>8, <1>9, <3>1, <3>2 DEF GoodName
  <2>4. Root \in Formatted' /\ \A d \in Dirs' : inode'[d].blocks # <<>>
    BY <1>2, <1>7 DEF IInv, TreeOK
  <2>. QED
    BY <1>7, <1>8, <1>9, <2>1, <2>2, <2>3, <2>4 DEF TreeOK
<1>14. /\ OpType' /\ op'.pc = "link" /\ op'.kind = op.kind /\ op'.parent = p /\ op'.name = op.name
       /\ op'.ino = i /\ op'.blocks = op.blocks /\ op.kind = "mkdir"
  BY <1>0, <1>00, <1>2, <1>3 DEF OpType, Creating
<1>15. BlocksOK'
  <2>1. \A j : Removing(j)' <=> Removing(j)
    BY <1>0, <1>14 DEF Removing
  <2>. QED
    BY <1>2, <1>7, <1>11, <2>1 DEF IInv, BlocksOK
<1>16. OpOK'
  <2>1. Creating({"mkdir", "touch"})'
    <3>1. Entries(p)' = Entries(p)
      BY <1>4, <1>8
    <3>2. \A k \in DOMAIN Entries(p) : Entries(p)[k].name # op.name
      BY <1>00, <1>3 DEF Creating
    <3>3. op.name \in Name
      BY <1>3 DEF Creating
    <3>. QED
      BY <1>4, <1>7, <1>14, <3>1, <3>2, <3>3 DEF Creating
  <2>2. i \in inode_bitmap' /\ ~Named(i)' /\ i # Root /\ i # p
    BY <1>2, <1>3, <1>10 DEF IInv, BlocksOK
  <2>3. i \in Formatted' /\ (Entries(i)')[2].ino = p
    BY <1>5, <1>7
  <2>. QED
    BY <1>14, <2>1, <2>2, <2>3 DEF OpOK, At
<1>17. ShellOK'
  BY <1>2, <1>7 DEF IInv, ShellOK, shell
<1>18. NamesStay
  <2>1. \A d \in Formatted' \ Formatted : d = i
    BY <1>7
  <2>. QED
    BY <1>7, <1>8, <1>9, <1>10, <2>1 DEF NamesStay
<1>. QED
  BY <1>12, <1>13, <1>15, <1>16, <1>17, <1>18 DEF IInv

-----------------------------------------------------------------------------
(* mkdir and touch link the name.                                          *)

KindType(kind) == IF kind = "mkdir" THEN "dir" ELSE "reg"

\* All a linking write changes: one name more in its directory.
LEMMA LinkFacts ==
  ASSUME IInv, Link, Splits(op.parent), NEW p, p = op.parent
  PROVE  /\ p \in Formatted /\ Len(Entries(p)) \in Nat /\ Len(Entries(p)) > 1
         /\ op' = Idle /\ UNCHANGED <<inode_bitmap, block_bitmap, inode, shell, losses, cut>>
         /\ content' \in [Block -> Seq(EntryType)]
         /\ \A b \in Block : content'[b] # <<>> => \E d \in Dirs : b = inode[d].blocks[1]
         /\ Dirs' = Dirs /\ Formatted' = Formatted /\ \A j : Blocks(j)' = Blocks(j)
         /\ \A d \in Formatted : d # p => Entries(d)' = Entries(d) /\ Places(d)' = Places(d)
         /\ Len(Entries(p))' = Len(Entries(p)) + 1 /\ Tiled(Entries(p))'
         /\ \A k \in 1 .. Len(Entries(p)) : /\ (Entries(p)')[k].name = Entries(p)[k].name
                                            /\ (Entries(p)')[k].ino = Entries(p)[k].ino
                                            /\ (Entries(p)')[k].type = Entries(p)[k].type
         /\ (Entries(p)')[Len(Entries(p)) + 1].name = op.name
         /\ (Entries(p)')[Len(Entries(p)) + 1].ino = op.ino
         /\ (Entries(p)')[Len(Entries(p)) + 1].type = KindType(op.kind)
<1>1. PICK es : es = Linked(p, op.name, op.ino, KindType(op.kind))
  OBVIOUS
<1>2. /\ op.pc = "link" /\ op' = Idle
      /\ content' = [content EXCEPT ![inode[p].blocks[1]] = es]
      /\ UNCHANGED <<inode_bitmap, block_bitmap, inode, shell, losses, cut>>
  BY <1>1 DEF Link, At, WriteDir, KindType
<1>3. OpType /\ Creating({"mkdir", "touch"}) /\ op.ino \in inode_bitmap
  BY <1>2 DEF IInv, OpOK, At
<1>4. p \in Formatted /\ p \in Dirs /\ op.name \in Name /\ op.ino \in Inode
  BY <1>3 DEF Creating, Formatted, IInv, DiskTypes
<1>5. /\ Entries(p) \in Seq(EntryType) /\ Len(Entries(p)) \in Nat /\ Len(Entries(p)) > 1
      /\ Tiled(Entries(p))
  BY <1>4, DirFacts DEF IInv, GoodDir
<1>6. KindType(op.kind) \in {"dir", "reg"}
  BY DEF KindType
<1>7. /\ es \in Seq(EntryType) /\ Len(es) = Len(Entries(p)) + 1 /\ Tiled(es)
      /\ es[Len(es)].name = op.name /\ es[Len(es)].ino = op.ino
      /\ es[Len(es)].type = KindType(op.kind)
      /\ \A k \in 1 .. Len(Entries(p)) : /\ es[k].name = Entries(p)[k].name
                                         /\ es[k].ino = Entries(p)[k].ino
                                         /\ es[k].type = Entries(p)[k].type
  <2>1. OneMoreName(es, Entries(p), op.name, op.ino, KindType(op.kind))
    <3>1. Splits(p)
      OBVIOUS
    <3>. QED
      BY <1>1, <1>4, <1>5, <1>6, <3>1, LinkedIs, Zenon
  <2>. QED
    BY <2>1 DEF OneMoreName
<1>8. es # <<>>
  <2>1. Len(es) \in Nat /\ Len(es) > 0
    BY <1>5, <1>7
  <2>. QED
    BY <2>1, NotEmpty
<1>9. /\ Dirs' = Dirs /\ Formatted' = Formatted \cup {p}
      /\ Entries(p)' = es
      /\ \A d \in Dirs : d # p => Entries(d)' = Entries(d) /\ Places(d)' = Places(d)
      /\ \A j : Blocks(j)' = Blocks(j)
      /\ content' \in [Block -> Seq(EntryType)]
      /\ \A b \in Block : content'[b] # <<>> => \E d \in Dirs : b = inode[d].blocks[1]
  <2>1. inode' = inode /\ es \in Seq(EntryType)
    BY <1>2, <1>7
  <2>. QED
    BY <1>2, <1>4, <1>8, <2>1, DirWritten
<1>10. Formatted \subseteq Dirs /\ Formatted' = Formatted
  <2>1. Formatted \subseteq Dirs
    BY DEF Formatted
  <2>. QED
    BY <1>4, <1>9, <2>1
<1>11. Len(Entries(p))' = Len(Entries(p)) + 1 /\ Tiled(Entries(p))'
  BY <1>7, <1>9
<1>. QED
  BY <1>2, <1>4, <1>5, <1>7, <1>9, <1>10, <1>11

\* Linking adds one place, and the inode it leads to gets its name.
LEMMA LinkPlaces ==
  ASSUME IInv, Link, Splits(op.parent), NEW p, p = op.parent, NEW m, m = Len(Entries(p)) + 1,
         NEW i, i = op.ino
  PROVE  /\ Places(p)' = Places(p) \cup {m} /\ m \notin DOMAIN Entries(p)
         /\ \A j : Named(j)' <=> Named(j) \/ j = i
<1>1. /\ p \in Formatted /\ Len(Entries(p)) \in Nat /\ Len(Entries(p)) > 1
      /\ Formatted' = Formatted
      /\ Len(Entries(p))' = m
      /\ (Entries(p)')[m].ino = op.ino
  BY LinkFacts
<1>2. DOMAIN Entries(p) = 1 .. Len(Entries(p))
  BY <1>1, DirFacts DEF IInv
<1>3. Places(p)' = Places(p) \cup {m}
  <2>1. Places(p)' = 3 .. m
    BY <1>1 DEF Places
  <2>. QED
    BY <1>1, <2>1 DEF Places
<1>4. \A d \in Formatted : d # p => Entries(d)' = Entries(d) /\ Places(d)' = Places(d)
  BY LinkFacts
<1>5. \A k \in Places(p) : (Entries(p)')[k].ino = Entries(p)[k].ino
  <2>1. \A k \in Places(p) : k \in 1 .. Len(Entries(p))
    BY <1>1 DEF Places
  <2>2. \A k \in 1 .. Len(Entries(p)) : (Entries(p)')[k].ino = Entries(p)[k].ino
    BY LinkFacts
  <2>. QED
    BY <2>1, <2>2
<1>6. ASSUME NEW j, Named(j)' PROVE Named(j) \/ j = i
  <2>1. PICK d \in Formatted : \E k \in Places(d)' : (Entries(d)')[k].ino = j
    BY <1>1, <1>6 DEF Named
  <2>2. PICK k \in Places(d)' : (Entries(d)')[k].ino = j
    BY <2>1
  <2>3. CASE d = p
    BY <1>1, <1>3, <1>5, <2>2, <2>3 DEF Named
  <2>4. CASE d # p
    BY <1>4, <2>2, <2>4 DEF Named
  <2>. QED
    BY <2>3, <2>4
<1>7. ASSUME NEW j, Named(j) PROVE Named(j)'
  <2>1. PICK d \in Formatted : \E k \in Places(d) : Entries(d)[k].ino = j
    BY <1>7 DEF Named
  <2>2. PICK k \in Places(d) : Entries(d)[k].ino = j
    BY <2>1
  <2>3. d \in Formatted' /\ k \in Places(d)' /\ (Entries(d)')[k].ino = j
    BY <1>1, <1>3, <1>4, <1>5, <2>2
  <2>. QED
    BY <2>3 DEF Named
<1>8. Named(i)'
  <2>1. p \in Formatted' /\ m \in Places(p)' /\ (Entries(p)')[m].ino = i
    BY <1>1, <1>3
  <2>. QED
    BY <2>1 DEF Named
<1>9. \A j : Named(j)' <=> Named(j) \/ j = i
  BY <1>6, <1>7, <1>8
<1>10. m \notin DOMAIN Entries(p)
  BY <1>1, <1>2
<1>. QED
  BY <1>3, <1>9, <1>10

\* The new entry leads to what was written before it.
LEMMA LinkKeeps == ASSUME IInv, Link PROVE IInv'
<1>1. At("link") /\ op.pc = "link" /\ OpType
  BY DEF Link, At, IInv, OpOK
<1>2. CASE ~Splits(op.parent) /\ Fail
  <2>1. op' = Idle /\ UNCHANGED <<disk, shell, losses>> /\ cut' \in Nat
    BY <1>2 DEF Fail, IInv, DiskTypes
  <2>. QED
    BY <1>1, <2>1, GiveUpKeeps DEF At
<1>3. CASE Splits(op.parent)
  <2>1. PICK p : p = op.parent
    OBVIOUS
  <2>2. PICK i : i = op.ino
    OBVIOUS
  <2>3. PICK t : t = KindType(op.kind)
    OBVIOUS
  <2>4. /\ Creating({"mkdir", "touch"}) /\ i \in inode_bitmap /\ ~Named(i) /\ i # Root /\ i # p
        /\ op.kind = "mkdir" => i \in Formatted /\ Entries(i)[2].ino = p
        /\ op.kind = "touch" => inode[i].mode = "reg" /\ inode[i].blocks = <<>>
    BY <1>1, <2>1, <2>2 DEF IInv, OpOK
  <2>5. PICK m : m = Len(Entries(p)) + 1
    OBVIOUS
  <2>6. /\ p \in Formatted /\ Len(Entries(p)) \in Nat /\ Len(Entries(p)) > 1
        /\ op' = Idle /\ UNCHANGED <<inode_bitmap, block_bitmap, inode, shell, losses, cut>>
        /\ content' \in [Block -> Seq(EntryType)]
        /\ \A b \in Block : content'[b] # <<>> => \E d \in Dirs : b = inode[d].blocks[1]
        /\ Dirs' = Dirs /\ Formatted' = Formatted /\ \A j : Blocks(j)' = Blocks(j)
    BY <1>3, <2>1, LinkFacts
  <2>7. \A d \in Formatted : d # p => Entries(d)' = Entries(d) /\ Places(d)' = Places(d)
    BY <1>3, <2>1, LinkFacts
  <2>8. /\ Len(Entries(p))' = m /\ Tiled(Entries(p))'
        /\ \A k \in 1 .. m - 1 : /\ (Entries(p)')[k].name = Entries(p)[k].name
                                 /\ (Entries(p)')[k].ino = Entries(p)[k].ino
                                 /\ (Entries(p)')[k].type = Entries(p)[k].type
        /\ (Entries(p)')[m].name = op.name
        /\ (Entries(p)')[m].ino = i
        /\ (Entries(p)')[m].type = t
    <3>1. m - 1 = Len(Entries(p))
      BY <2>5, <2>6
    <3>. QED
      BY <1>3, <2>1, <2>2, <2>3, <2>5, <3>1, LinkFacts
  <2>9. /\ Places(p)' = Places(p) \cup {m} /\ m \notin DOMAIN Entries(p)
        /\ \A j : Named(j)' <=> Named(j) \/ j = i
    BY <1>3, <2>1, <2>2, <2>5, LinkPlaces
  <2>10. DiskTypes'
    BY <2>6 DEF IInv, DiskTypes
  <2>11. m \in Nat /\ m > 2 /\ DOMAIN Entries(p) = 1 .. m - 1
    BY <2>5, <2>6, DirFacts DEF IInv
  <2>12. GoodDir(p)'
    <3>1. /\ GoodDir(p) /\ \A k \in DOMAIN Entries(p) : Entries(p)[k].name # op.name
      BY <2>1, <2>4, <2>6 DEF IInv, TreeOK, Creating
    <3>2. DOMAIN (Entries(p)') = 1 .. m
      <4>1. content' \in [Block -> Seq(EntryType)] /\ inode[p].blocks[1] \in Block /\ inode' = inode
        BY <2>6, DirFacts DEF IInv
      <4>2. Entries(p)' \in Seq(EntryType)
        BY <4>1 DEF Entries
      <4>. QED
        BY <2>8, <4>2
    <3>3. \A k \in 1 .. m : k = m \/ k \in 1 .. m - 1
      BY <2>11
    <3>4. \A j, k \in DOMAIN (Entries(p)') : (Entries(p)')[j].name = (Entries(p)')[k].name => j = k
      BY <2>8, <2>11, <3>1, <3>2, <3>3 DEF GoodDir
    <3>5. /\ (Entries(p)')[1].name = Dot /\ (Entries(p)')[1].ino = p
          /\ (Entries(p)')[2].name = DotDot /\ (Entries(p)')[2].ino \in Formatted
      <4>1. 1 \in 1 .. m - 1 /\ 2 \in 1 .. m - 1
        BY <2>11
      <4>. QED
        BY <2>8, <3>1, <4>1 DEF GoodDir
    <3>6. Len(Entries(p))' > 1
      BY <2>8, <2>11
    <3>. QED
      BY <2>6, <2>8, <3>4, <3>5, <3>6 DEF GoodDir
  <2>13. \A d \in Formatted : d # p => GoodDir(d)'
    BY <2>6, <2>7 DEF IInv, TreeOK, GoodDir
  <2>14. ASSUME NEW d \in Formatted, NEW k \in Places(d)
         PROVE  /\ k \in Places(d)'
                /\ (Entries(d)')[k].ino = Entries(d)[k].ino
                /\ (Entries(d)')[k].type = Entries(d)[k].type
    <3>1. CASE d = p
      <4>1. k \in 1 .. m - 1
        BY <2>5, <2>6, <3>1 DEF Places
      <4>. QED
        BY <2>8, <2>9, <3>1, <4>1
    <3>2. CASE d # p
      BY <2>7, <3>2
    <3>. QED
      BY <3>1, <3>2
  <2>15. ASSUME NEW d \in Formatted, NEW k \in Places(d)'
         PROVE  \/ d = p /\ k = m
                \/ k \in Places(d) /\ (Entries(d)')[k].ino = Entries(d)[k].ino
    BY <2>7, <2>9, <2>14
  <2>16. ASSUME NEW d \in Formatted PROVE (Entries(d)')[2].ino = Entries(d)[2].ino
    <3>1. 2 \in 1 .. m - 1
      BY <2>11
    <3>. QED
      BY <2>7, <2>8, <3>1
  <2>17. ASSUME NEW d \in Formatted, NEW k \in Places(d) PROVE GoodName(d, k)'
    <3>1. PICK j : j = Entries(d)[k].ino
      OBVIOUS
    <3>2. GoodName(d, k) /\ Named(j) /\ j # i
      BY <2>4, <3>1 DEF IInv, TreeOK, Named
    <3>3. /\ j # Root /\ j \in inode_bitmap'
          /\ inode'[j].mode = (Entries(d)')[k].type
      BY <2>6, <2>14, <3>1, <3>2 DEF GoodName
    <3>4. (Entries(d)')[k].type = "dir" => j \in Formatted' /\ (Entries(j)')[2].ino = d
      BY <2>6, <2>14, <2>16, <3>1, <3>2 DEF GoodName
    <3>5. ASSUME NEW c \in Formatted', NEW l \in Places(c)', (Entries(c)')[l].ino = j
          PROVE  c = d /\ l = k
      <4>1. c \in Formatted /\ (c # p \/ l # m)
        BY <2>6, <2>8, <3>2, <3>5
      <4>2. l \in Places(c) /\ Entries(c)[l].ino = j
        BY <2>15, <3>5, <4>1
      <4>. QED
        BY <3>1, <3>2, <4>1, <4>2 DEF GoodName
    <3>6. (Entries(d)')[k].ino = j
      BY <2>14, <3>1
    <3>. QED
      BY <3>3, <3>4, <3>5, <3>6 DEF GoodName
  <2>18. GoodName(p, m)'
    <3>1. inode'[i].mode = t
      BY <2>3, <2>4, <2>6 DEF KindType, Creating, Formatted, Dirs
    <3>2. t = "dir" => i \in Formatted' /\ (Entries(i)')[2].ino = p
      BY <2>3, <2>4, <2>6, <2>16 DEF KindType, Creating
    <3>3. ASSUME NEW c \in Formatted', NEW l \in Places(c)', (Entries(c)')[l].ino = i
          PROVE  c = p /\ l = m
      <4>1. c \in Formatted
        BY <2>6
      <4>2. l \in Places(c) => Entries(c)[l].ino # i
        BY <2>4, <4>1 DEF Named
      <4>. QED
        BY <2>15, <3>3, <4>1, <4>2
    <3>. QED
      BY <2>4, <2>6, <2>8, <3>1, <3>2, <3>3 DEF GoodName
  <2>19. TreeOK'
    <3>1. Root \in Formatted' /\ \A d \in Dirs' : inode'[d].blocks # <<>>
      BY <2>6 DEF IInv, TreeOK
    <3>2. \A d \in Formatted' : GoodDir(d)'
      BY <2>6, <2>12, <2>13
    <3>3. ASSUME NEW d \in Formatted', NEW k \in Places(d)' PROVE GoodName(d, k)'
      <4>1. d \in Formatted
        BY <2>6
      <4>2. CASE d = p /\ k = m
        BY <2>18, <4>2
      <4>3. CASE k \in Places(d)
        BY <2>17, <4>1, <4>3
      <4>. QED
        BY <2>15, <4>1, <4>2, <4>3
    <3>. QED
      BY <3>1, <3>2, <3>3 DEF TreeOK
  <2>20. \A j : Owner(j)' <=> Owner(j) \/ j = i
    BY <2>6, <2>9 DEF Owner
  <2>21. \A j : ~Removing(j) /\ ~Removing(j)'
    BY <2>4, <2>6 DEF Removing, Creating, Idle
  <2>22. Owner(i) \/ Blocks(i) = {}
    <3>1. op.kind = "mkdir" => Owner(i)
      BY <2>4 DEF Owner, Formatted
    <3>2. op.kind = "touch" => Blocks(i) = {}
      BY <2>4 DEF Blocks
    <3>. QED
      BY <2>4, <3>1, <3>2 DEF Creating
  <2>23. BlocksOK'
    <3>1. \A j \in Inode : Owner(j) => Blocks(j) \subseteq block_bitmap
      BY <2>21 DEF IInv, BlocksOK
    <3>2. \A j \in Inode : Owner(j)' => Blocks(j) \subseteq block_bitmap
      BY <2>20, <2>22, <3>1
    <3>3. \A j, l \in Inode : Owner(j)' /\ Owner(l)' /\ j # l => Blocks(j) \cap Blocks(l) = {}
      BY <2>20, <2>22 DEF IInv, BlocksOK
    <3>4. Dirs' \subseteq inode_bitmap'
      BY <2>6 DEF IInv, BlocksOK
    <3>5. losses' > 0 => \A j \in Inode : inode'[j].mode = "reg" => inode'[j].blocks = <<>>
      BY <2>6 DEF IInv, BlocksOK
    <3>. QED
      BY <2>6, <3>2, <3>3, <3>4, <3>5 DEF BlocksOK
  <2>24. OpOK' /\ ShellOK'
    BY <2>6, IdleOK DEF IInv, ShellOK, shell
  <2>. QED
    BY <2>10, <2>19, <2>23, <2>24 DEF IInv
<1>. QED
  BY <1>2, <1>3 DEF Link

-----------------------------------------------------------------------------
(* rm unlinks the name.                                                    *)

\* Where an entry was before entry k was taken out.
Before(k, l) == IF l < k THEN l ELSE l + 1

\* The entry that goes.
Goes(p, k) == /\ p = op.parent /\ k \in Places(p)
              /\ Entries(p)[k].name = op.name /\ Entries(p)[k].ino = op.ino

\* rm finds the entry it looked up, after . and .. .
LEMMA UnlinkGoes == ASSUME IInv, Unlink PROVE \E p \in Formatted : \E k \in Places(p) : Goes(p, k)
<1>1. Condemned
  BY DEF Unlink, IInv, OpOK, At
<1>. QED
  BY <1>1 DEF Condemned, Goes

\* All an unlinking write changes: one name less in its directory.
LEMMA UnlinkFacts ==
  ASSUME IInv, Unlink, NEW p, NEW k, Goes(p, k)
  PROVE
         /\ p \in Formatted /\ Len(Entries(p)) \in Nat /\ Len(Entries(p)) > 2
         /\ UNCHANGED <<inode_bitmap, block_bitmap, inode, shell, losses, cut>>
         /\ content' \in [Block -> Seq(EntryType)]
         /\ \A b \in Block : content'[b] # <<>> => \E d \in Dirs : b = inode[d].blocks[1]
         /\ Dirs' = Dirs /\ Formatted' = Formatted /\ \A j : Blocks(j)' = Blocks(j)
         /\ \A d \in Formatted : d # p => Entries(d)' = Entries(d) /\ Places(d)' = Places(d)
         /\ Len(Entries(p))' = Len(Entries(p)) - 1 /\ Tiled(Entries(p))'
         /\ DOMAIN (Entries(p)') = 1 .. Len(Entries(p)) - 1
         /\ \A l \in 1 .. Len(Entries(p)) - 1 :
              /\ (Entries(p)')[l].name = Entries(p)[Before(k, l)].name
              /\ (Entries(p)')[l].ino = Entries(p)[Before(k, l)].ino
              /\ (Entries(p)')[l].type = Entries(p)[Before(k, l)].type
<1>1. /\ op.pc = "free_blocks"
      /\ UNCHANGED <<inode_bitmap, block_bitmap, inode, shell, losses, cut>>
      /\ \E l \in DOMAIN Entries(p) : /\ Entries(p)[l].name = op.name
                                      /\ WriteDir(p, Unlinked(p, l))
  BY DEF Unlink, At, Goes
<1>2. Condemned
  BY <1>1 DEF IInv, OpOK, At
<1>3. p \in Formatted /\ p \in Dirs
  BY <1>2 DEF Condemned, Formatted, Goes
<1>4. k \in Places(p) /\ Entries(p)[k].name = op.name
  BY DEF Goes
<1>5. /\ Entries(p) \in Seq(EntryType) /\ Len(Entries(p)) \in Nat
      /\ DOMAIN Entries(p) = 1 .. Len(Entries(p))
      /\ GoodDir(p) /\ k \in DOMAIN Entries(p)
  BY <1>3, <1>4, DirFacts DEF IInv
<1>6. PICK es : es = Unlinked(p, k)
  OBVIOUS
<1>7. WriteDir(p, es)
  <2>1. PICK l \in DOMAIN Entries(p) : Entries(p)[l].name = op.name /\ WriteDir(p, Unlinked(p, l))
    BY <1>1
  <2>2. l = k
    BY <1>4, <1>5, <2>1 DEF GoodDir
  <2>. QED
    BY <1>6, <2>1, <2>2
<1>8. k \in 2 .. Len(Entries(p)) /\ Len(Entries(p)) > 2
  BY <1>4, <1>5 DEF Places
<1>9. Tiled(Entries(p))
  BY <1>5 DEF GoodDir
<1>10. /\ es \in Seq(EntryType) /\ Len(es) = Len(Entries(p)) - 1 /\ Tiled(es)
       /\ \A l \in 1 .. Len(es) :
            LET o == IF l < k THEN l ELSE l + 1
            IN  /\ es[l].name = Entries(p)[o].name
                /\ es[l].ino = Entries(p)[o].ino
                /\ es[l].type = Entries(p)[o].type
  <2>1. Entries(p) \in Seq(EntryType)
    BY <1>5
  <2>. QED
    BY <1>6, <1>8, <1>9, <2>1, UnlinkedIs
<1>11. es # <<>>
  <2>1. Len(es) \in Nat /\ Len(es) > 0
    BY <1>5, <1>8, <1>10
  <2>. QED
    BY <2>1, NotEmpty
<1>12. /\ Dirs' = Dirs /\ Formatted' = Formatted \cup {p}
       /\ Entries(p)' = es
       /\ \A d \in Dirs : d # p => Entries(d)' = Entries(d) /\ Places(d)' = Places(d)
       /\ \A j : Blocks(j)' = Blocks(j)
       /\ content' \in [Block -> Seq(EntryType)]
       /\ \A b \in Block : content'[b] # <<>> => \E d \in Dirs : b = inode[d].blocks[1]
  <2>1. inode' = inode /\ es \in Seq(EntryType)
    BY <1>1, <1>10
  <2>. QED
    BY <1>3, <1>7, <1>11, <2>1, DirWritten DEF WriteDir
<1>13. Formatted \subseteq Dirs /\ Formatted' = Formatted
  <2>1. Formatted \subseteq Dirs
    BY DEF Formatted
  <2>. QED
    BY <1>3, <1>12, <2>1
<1>14. /\ Len(Entries(p))' = Len(Entries(p)) - 1 /\ Tiled(Entries(p))'
       /\ DOMAIN (Entries(p)') = 1 .. Len(Entries(p)) - 1
  BY <1>10, <1>12
<1>15. ASSUME NEW l \in 1 .. Len(Entries(p)) - 1
       PROVE  /\ (Entries(p)')[l].name = Entries(p)[Before(k, l)].name
              /\ (Entries(p)')[l].ino = Entries(p)[Before(k, l)].ino
              /\ (Entries(p)')[l].type = Entries(p)[Before(k, l)].type
  <2>1. l \in 1 .. Len(es)
    BY <1>10
  <2>. QED
    BY <1>10, <1>12, <2>1 DEF Before
<1>. QED
  BY <1>1, <1>3, <1>4, <1>5, <1>8, <1>12, <1>13, <1>14, <1>15

\* Every name there is was there and was not the one that goes, every other
\* one is still there.
LEMMA UnlinkPlaces ==
  ASSUME IInv, Unlink, NEW p, NEW k, Goes(p, k), NEW i, i = op.ino
  PROVE  /\ \A d \in Formatted : \A l \in Places(d)' :
           \E o \in Places(d) :
              /\ (Entries(d)')[l].ino = Entries(d)[o].ino
              /\ (Entries(d)')[l].type = Entries(d)[o].type
              /\ (Entries(d)')[l].name = Entries(d)[o].name
              /\ ~(d = p /\ o = k)
              /\ o = IF d = p THEN Before(k, l) ELSE l
         /\ \A d \in Formatted : \A o \in Places(d) : ~(d = p /\ o = k) =>
           \E l \in Places(d)' : /\ (Entries(d)')[l].ino = Entries(d)[o].ino
                                /\ (Entries(d)')[l].type = Entries(d)[o].type
                                /\ (Entries(d)')[l].name = Entries(d)[o].name
         /\ \A j : Named(j)' <=> Named(j) /\ j # i
<1>3. /\ k \in Places(p) /\ Entries(p)[k].name = op.name /\ Entries(p)[k].ino = i
      /\ p \in Formatted /\ Len(Entries(p)) \in Nat /\ Len(Entries(p)) > 2
      /\ UNCHANGED <<inode_bitmap, block_bitmap, inode, shell, losses, cut>>
      /\ content' \in [Block -> Seq(EntryType)]
      /\ \A b \in Block : content'[b] # <<>> => \E d \in Dirs : b = inode[d].blocks[1]
      /\ Dirs' = Dirs /\ Formatted' = Formatted /\ \A j : Blocks(j)' = Blocks(j)
      /\ \A d \in Formatted : d # p => Entries(d)' = Entries(d) /\ Places(d)' = Places(d)
      /\ Len(Entries(p))' = Len(Entries(p)) - 1 /\ Tiled(Entries(p))'
      /\ DOMAIN (Entries(p)') = 1 .. Len(Entries(p)) - 1
      /\ \A l \in 1 .. Len(Entries(p)) - 1 :
           /\ (Entries(p)')[l].name = Entries(p)[Before(k, l)].name
           /\ (Entries(p)')[l].ino = Entries(p)[Before(k, l)].ino
           /\ (Entries(p)')[l].type = Entries(p)[Before(k, l)].type
  BY UnlinkFacts DEF Goes
<1>4. PICK m : m = Len(Entries(p)) - 1
  OBVIOUS
<1>5. /\ op.pc = "free_blocks" /\ op.blocks = <<>> /\ op' = [op EXCEPT !.pc = "free_inode"]
      /\ OpType /\ Condemned
  BY DEF Unlink, At, IInv, OpOK
<1>6. m \in Nat /\ m > 1 /\ k \in 3 .. m + 1 /\ Places(p) = 3 .. m + 1 /\ Places(p)' = 3 .. m
  BY <1>3, <1>4 DEF Places
<1>7. /\ i \in Inode /\ inode[i].mode # "dir" /\ GoodName(p, k)
      /\ op.kind = "rm"
  BY <1>3, <1>5 DEF Condemned, IInv, TreeOK, GoodName, DiskTypes
<1>8. \A l \in 1 .. m : /\ Before(k, l) \in 1 .. m + 1 /\ Before(k, l) # k
                        /\ l \in 3 .. m => Before(k, l) \in 3 .. m + 1
                        /\ l < 3 => Before(k, l) = l
  BY <1>6 DEF Before
<1>9. \A l, o \in 1 .. m : Before(k, l) = Before(k, o) => l = o
  BY <1>6 DEF Before
<1>10. \A o \in 3 .. m + 1 : o # k => \E l \in 3 .. m : Before(k, l) = o
  <2>. SUFFICES ASSUME NEW o \in 3 .. m + 1, o # k PROVE \E l \in 3 .. m : Before(k, l) = o
    OBVIOUS
  <2>1. CASE o < k
    <3>1. o \in 3 .. m /\ Before(k, o) = o
      BY <1>6, <2>1 DEF Before
    <3>. QED
      BY <3>1
  <2>2. CASE o > k
    <3>1. o - 1 \in 3 .. m /\ Before(k, o - 1) = o
      BY <1>6, <2>2 DEF Before
    <3>. QED
      BY <3>1
  <2>. QED
    BY <1>6, <2>1, <2>2
<1>11. GoodDir(p) /\ DOMAIN Entries(p) = 1 .. m + 1
  BY <1>3, <1>4, <1>6, DirFacts DEF IInv
<1>12. \A d \in Formatted : d # p => Entries(d)' = Entries(d) /\ Places(d)' = Places(d)
  BY <1>3
<1>13. /\ \A l \in 1 .. m : /\ (Entries(p)')[l].name = Entries(p)[Before(k, l)].name
                            /\ (Entries(p)')[l].ino = Entries(p)[Before(k, l)].ino
                            /\ (Entries(p)')[l].type = Entries(p)[Before(k, l)].type
       /\ DOMAIN (Entries(p)') = 1 .. m /\ Len(Entries(p))' = m /\ Tiled(Entries(p))'
  BY <1>3, <1>4
<1>17. ASSUME NEW d \in Formatted, NEW l \in Places(d)'
       PROVE  \E o \in Places(d) :
                /\ (Entries(d)')[l].ino = Entries(d)[o].ino
                /\ (Entries(d)')[l].type = Entries(d)[o].type
                /\ (Entries(d)')[l].name = Entries(d)[o].name
                /\ ~(d = p /\ o = k)
                /\ o = IF d = p THEN Before(k, l) ELSE l
  <2>1. CASE d = p
    <3>1. l \in 3 .. m /\ l \in 1 .. m
      BY <1>6, <2>1
    <3>2. Before(k, l) \in Places(p) /\ Before(k, l) # k
      BY <1>6, <1>8, <3>1
    <3>. QED
      BY <1>13, <2>1, <3>1, <3>2
  <2>2. CASE d # p
    BY <1>12, <2>2
  <2>. QED
    BY <2>1, <2>2
<1>18. ASSUME NEW d \in Formatted, NEW o \in Places(d), ~(d = p /\ o = k)
       PROVE  \E l \in Places(d)' : /\ (Entries(d)')[l].ino = Entries(d)[o].ino
                                 /\ (Entries(d)')[l].type = Entries(d)[o].type
                                 /\ (Entries(d)')[l].name = Entries(d)[o].name
  <2>1. CASE d = p
    <3>1. PICK l \in 3 .. m : Before(k, l) = o
      BY <1>6, <1>10, <1>18, <2>1
    <3>2. l \in 1 .. m /\ l \in Places(p)'
      BY <1>6
    <3>. QED
      BY <1>13, <2>1, <3>1, <3>2
  <2>2. CASE d # p
    BY <1>12, <2>2
  <2>. QED
    BY <2>1, <2>2
<1>19. \A j : Named(j)' <=> Named(j) /\ j # i
  <2>1. ASSUME NEW j, Named(j)' PROVE Named(j) /\ j # i
    <3>1. PICK d \in Formatted : \E l \in Places(d)' : (Entries(d)')[l].ino = j
      BY <1>3, <2>1 DEF Named
    <3>2. PICK l \in Places(d)' : (Entries(d)')[l].ino = j
      BY <3>1
    <3>3. PICK o \in Places(d) : Entries(d)[o].ino = j /\ ~(d = p /\ o = k)
      BY <1>17, <3>2
    <3>. QED
      BY <1>3, <1>7, <3>3 DEF Named, GoodName
  <2>2. ASSUME NEW j, Named(j), j # i PROVE Named(j)'
    <3>1. PICK d \in Formatted : \E o \in Places(d) : Entries(d)[o].ino = j
      BY <2>2 DEF Named
    <3>2. PICK o \in Places(d) : Entries(d)[o].ino = j
      BY <3>1
    <3>3. \E l \in Places(d)' : (Entries(d)')[l].ino = j
      BY <1>3, <1>18, <2>2, <3>2
    <3>. QED
      BY <1>3, <3>3 DEF Named
  <2>. QED
    BY <2>1, <2>2
<1>. QED
  BY <1>17, <1>18, <1>19

\* Once the name is gone nothing leads to the inode, which is freed next.
LEMMA UnlinkKeeps == ASSUME IInv, Unlink PROVE IInv'
<1>0. PICK p \in Formatted : \E k \in Places(p) : Goes(p, k)
  BY UnlinkGoes
<1>1. PICK k \in Places(p) : Goes(p, k)
  BY <1>0
<1>2. PICK i : i = op.ino
  OBVIOUS
<1>3. /\ k \in Places(p) /\ Entries(p)[k].name = op.name /\ Entries(p)[k].ino = i
      /\ p \in Formatted /\ Len(Entries(p)) \in Nat /\ Len(Entries(p)) > 2
      /\ UNCHANGED <<inode_bitmap, block_bitmap, inode, shell, losses, cut>>
      /\ content' \in [Block -> Seq(EntryType)]
      /\ \A b \in Block : content'[b] # <<>> => \E d \in Dirs : b = inode[d].blocks[1]
      /\ Dirs' = Dirs /\ Formatted' = Formatted /\ \A j : Blocks(j)' = Blocks(j)
      /\ \A d \in Formatted : d # p => Entries(d)' = Entries(d) /\ Places(d)' = Places(d)
      /\ Len(Entries(p))' = Len(Entries(p)) - 1 /\ Tiled(Entries(p))'
      /\ DOMAIN (Entries(p)') = 1 .. Len(Entries(p)) - 1
      /\ \A l \in 1 .. Len(Entries(p)) - 1 :
           /\ (Entries(p)')[l].name = Entries(p)[Before(k, l)].name
           /\ (Entries(p)')[l].ino = Entries(p)[Before(k, l)].ino
           /\ (Entries(p)')[l].type = Entries(p)[Before(k, l)].type
  BY <1>1, <1>2, UnlinkFacts DEF Goes
<1>4. PICK m : m = Len(Entries(p)) - 1
  OBVIOUS
<1>5. /\ op.pc = "free_blocks" /\ op.blocks = <<>> /\ op' = [op EXCEPT !.pc = "free_inode"]
      /\ OpType /\ Condemned
  BY DEF Unlink, At, IInv, OpOK
<1>6. m \in Nat /\ m > 1 /\ k \in 3 .. m + 1 /\ Places(p) = 3 .. m + 1 /\ Places(p)' = 3 .. m
  BY <1>3, <1>4 DEF Places
<1>7. /\ i \in Inode /\ inode[i].mode # "dir" /\ GoodName(p, k)
      /\ op.kind = "rm"
  BY <1>2, <1>3, <1>5 DEF Condemned, IInv, TreeOK, GoodName, DiskTypes
<1>8. \A l \in 1 .. m : /\ Before(k, l) \in 1 .. m + 1 /\ Before(k, l) # k
                        /\ l \in 3 .. m => Before(k, l) \in 3 .. m + 1
                        /\ l < 3 => Before(k, l) = l
  BY <1>6 DEF Before
<1>9. \A l, o \in 1 .. m : Before(k, l) = Before(k, o) => l = o
  BY <1>6 DEF Before
<1>11. GoodDir(p) /\ DOMAIN Entries(p) = 1 .. m + 1
  BY <1>3, <1>4, <1>6, DirFacts DEF IInv
<1>12. \A d \in Formatted : d # p => Entries(d)' = Entries(d) /\ Places(d)' = Places(d)
  BY <1>3
<1>13. /\ \A l \in 1 .. m : /\ (Entries(p)')[l].name = Entries(p)[Before(k, l)].name
                            /\ (Entries(p)')[l].ino = Entries(p)[Before(k, l)].ino
                            /\ (Entries(p)')[l].type = Entries(p)[Before(k, l)].type
       /\ DOMAIN (Entries(p)') = 1 .. m /\ Len(Entries(p))' = m /\ Tiled(Entries(p))'
  BY <1>3, <1>4
<1>14. DiskTypes'
  BY <1>3 DEF IInv, DiskTypes
<1>15. GoodDir(p)'
  <2>1. \A l, o \in DOMAIN (Entries(p)') : (Entries(p)')[l].name = (Entries(p)')[o].name => l = o
    BY <1>8, <1>9, <1>11, <1>13 DEF GoodDir
  <2>2. 1 \in 1 .. m /\ 2 \in 1 .. m /\ Before(k, 1) = 1 /\ Before(k, 2) = 2
    BY <1>6, <1>8
  <2>3. /\ (Entries(p)')[1].name = Dot /\ (Entries(p)')[1].ino = p
        /\ (Entries(p)')[2].name = DotDot /\ (Entries(p)')[2].ino \in Formatted
    BY <1>11, <1>13, <2>2 DEF GoodDir
  <2>4. Len(Entries(p))' > 1
    BY <1>6, <1>13
  <2>. QED
    BY <1>3, <1>13, <2>1, <2>3, <2>4 DEF GoodDir
<1>16. \A d \in Formatted : d # p => GoodDir(d)'
  BY <1>3, <1>12 DEF IInv, TreeOK, GoodDir
<1>17. \A d \in Formatted : \A l \in Places(d)' :
         \E o \in Places(d) :
            /\ (Entries(d)')[l].ino = Entries(d)[o].ino
            /\ (Entries(d)')[l].type = Entries(d)[o].type
            /\ (Entries(d)')[l].name = Entries(d)[o].name
            /\ ~(d = p /\ o = k)
            /\ o = IF d = p THEN Before(k, l) ELSE l
  BY <1>1, <1>2, UnlinkPlaces
<1>19. \A j : Named(j)' <=> Named(j) /\ j # i
  BY <1>1, <1>2, UnlinkPlaces
<1>20. ASSUME NEW d \in Formatted PROVE (Entries(d)')[2].ino = Entries(d)[2].ino
  <2>1. 2 \in 1 .. m /\ Before(k, 2) = 2
    BY <1>6, <1>8
  <2>. QED
    BY <1>12, <1>13, <2>1
<1>21. ASSUME NEW d \in Formatted, NEW l \in Places(d)' PROVE GoodName(d, l)'
  <2>1. PICK o \in Places(d) : /\ (Entries(d)')[l].ino = Entries(d)[o].ino
                               /\ (Entries(d)')[l].type = Entries(d)[o].type
                               /\ ~(d = p /\ o = k)
                               /\ o = IF d = p THEN Before(k, l) ELSE l
    BY <1>17
  <2>2. PICK j : j = Entries(d)[o].ino
    OBVIOUS
  <2>3. GoodName(d, o)
    BY DEF IInv, TreeOK
  <2>4. j # Root /\ j \in inode_bitmap' /\ inode'[j].mode = (Entries(d)')[l].type
    BY <1>3, <2>1, <2>2, <2>3 DEF GoodName
  <2>5. (Entries(d)')[l].type = "dir" => j \in Formatted' /\ (Entries(j)')[2].ino = d
    BY <1>3, <1>20, <2>1, <2>2, <2>3 DEF GoodName
  <2>6. ASSUME NEW c \in Formatted', NEW x \in Places(c)', (Entries(c)')[x].ino = j
        PROVE  c = d /\ x = l
    <3>1. c \in Formatted
      BY <1>3
    <3>2. PICK y \in Places(c) : /\ (Entries(c)')[x].ino = Entries(c)[y].ino
                                 /\ y = IF c = p THEN Before(k, x) ELSE x
      BY <1>17, <3>1
    <3>3. c = d /\ y = o
      BY <2>2, <2>3, <2>6, <3>1, <3>2 DEF GoodName
    <3>4. CASE d = p
      <4>1. x \in 1 .. m /\ l \in 1 .. m
        BY <1>6, <3>3, <3>4
      <4>. QED
        BY <1>9, <2>1, <3>2, <3>3, <3>4, <4>1
    <3>5. CASE d # p
      BY <2>1, <3>2, <3>3, <3>5
    <3>. QED
      BY <3>4, <3>5
  <2>. QED
    BY <2>1, <2>2, <2>4, <2>5, <2>6 DEF GoodName
<1>22. TreeOK'
  <2>1. Root \in Formatted' /\ \A d \in Dirs' : inode'[d].blocks # <<>>
    BY <1>3 DEF IInv, TreeOK
  <2>2. \A d \in Formatted' : GoodDir(d)'
    BY <1>3, <1>15, <1>16
  <2>3. ASSUME NEW d \in Formatted', NEW l \in Places(d)' PROVE GoodName(d, l)'
    <3>1. d \in Formatted
      BY <1>3
    <3>. QED
      BY <1>21, <3>1
  <2>. QED
    BY <2>1, <2>2, <2>3 DEF TreeOK
<1>23. /\ op'.pc = "free_inode" /\ op'.kind = "rm" /\ op'.parent = p /\ op'.ino = i
       /\ op'.blocks = <<>> /\ OpType'
  BY <1>1, <1>2, <1>5, <1>7 DEF OpType, Goes
<1>24. \A j : Owner(j)' <=> Owner(j) /\ j # i
  BY <1>3, <1>7, <1>19 DEF Owner, Dirs
<1>25. BlocksOK'
  <2>1. \A j : Removing(j)' <=> Removing(j)
    BY <1>2, <1>7, <1>23 DEF Removing
  <2>. QED
    BY <1>3, <1>24, <2>1 DEF IInv, BlocksOK
<1>26. OpOK'
  BY <1>3, <1>7, <1>23, <1>24 DEF OpOK, At
<1>27. ShellOK'
  BY <1>3 DEF IInv, ShellOK, shell
<1>. QED
  BY <1>14, <1>22, <1>25, <1>26, <1>27 DEF IInv

-----------------------------------------------------------------------------
(* A disk nothing is wrong with, and every step from there.                *)

\* What the assumption on the disks says, of the disk that is found.
LEMMA InitFacts ==
  ASSUME Init
  PROVE  /\ inode \in [Inode -> InodeType] /\ content \in [Block -> Seq(EntryType)]
         /\ \A i : i \in inode_bitmap <=> i = Root \/ \E d \in Dirs : \E k \in Places(d) : Entries(d)[k].ino = i
         /\ block_bitmap = UNION {Blocks(i) : i \in inode_bitmap}
         /\ Root \in Dirs /\ Dirs \subseteq inode_bitmap
         /\ \A i, j \in inode_bitmap : i # j => Blocks(i) \cap Blocks(j) = {}
         /\ \A b \in Block : content[b] # <<>> => \E d \in Dirs : b = inode[d].blocks[1]
         /\ losses \in Nat
         /\ losses > 0 => \A i \in Inode : inode[i].mode = "reg" => inode[i].blocks = <<>>
         /\ \A d \in Dirs :
              /\ inode[d].blocks # <<>>
              /\ Len(Entries(d)) > 1 /\ Starts(Entries(d))[Len(Entries(d)) + 1] = DirSize
              /\ \A j, k \in DOMAIN Entries(d) : Entries(d)[j].name = Entries(d)[k].name => j = k
              /\ Entries(d)[1].name = Dot /\ Entries(d)[1].ino = d
              /\ Entries(d)[2].name = DotDot /\ Entries(d)[2].ino \in Dirs
              /\ \A k \in Places(d) :
                   /\ Entries(d)[k].ino \in Inode \ {Root}
                   /\ inode[Entries(d)[k].ino].mode = Entries(d)[k].type
                   /\ Entries(d)[k].type = "dir" => Entries(Entries(d)[k].ino)[2].ino = d
                   /\ \A c \in Dirs : \A l \in Places(c) :
                        Entries(c)[l].ino = Entries(d)[k].ino => c = d /\ l = k
<1>1. PICK image \in Images :
        /\ inode_bitmap = image.inode_bitmap /\ block_bitmap = image.block_bitmap
        /\ inode = image.inode /\ content = image.content /\ losses = image.losses
  BY DEF Init
<1>2. Sound(image)
  BY ImageAssumption
<1> DEFINE dirs       == {i \in Inode : image.inode[i].mode = "dir"}
           entries(d) == image.content[image.inode[d].blocks[1]]
           places(d)  == 3 .. Len(entries(d))
           used       == {Root} \cup UNION {{entries(d)[k].ino : k \in places(d)} : d \in dirs}
           blocks(i)  == {image.inode[i].blocks[k] : k \in DOMAIN image.inode[i].blocks}
<1>3. /\ image.inode \in [Inode -> InodeType] /\ image.content \in [Block -> Seq(EntryType)]
      /\ image.inode_bitmap = used /\ image.block_bitmap = UNION {blocks(i) : i \in used}
      /\ Root \in dirs /\ dirs \subseteq used
      /\ \A i, j \in used : i # j => blocks(i) \cap blocks(j) = {}
      /\ \A b \in Block : image.content[b] # <<>> => \E d \in dirs : b = image.inode[d].blocks[1]
      /\ image.losses \in Nat
      /\ image.losses > 0 => \A i \in Inode : image.inode[i].mode = "reg" => image.inode[i].blocks = <<>>
  BY <1>2, Zenon DEF Sound
<1>4. \A d \in dirs :
        /\ image.inode[d].blocks # <<>>
        /\ Len(entries(d)) > 1 /\ Starts(entries(d))[Len(entries(d)) + 1] = DirSize
        /\ \A j, k \in DOMAIN entries(d) : entries(d)[j].name = entries(d)[k].name => j = k
        /\ entries(d)[1].name = Dot /\ entries(d)[1].ino = d
        /\ entries(d)[2].name = DotDot /\ entries(d)[2].ino \in dirs
        /\ \A k \in places(d) :
             LET e == entries(d)[k]
             IN  /\ e.ino \in Inode \ {Root} /\ image.inode[e.ino].mode = e.type
                 /\ e.type = "dir" => entries(e.ino)[2].ino = d
                 /\ \A c \in dirs : \A l \in places(c) : entries(c)[l].ino = e.ino => c = d /\ l = k
  BY <1>2, Zenon DEF Sound
<1>5. dirs = Dirs
  BY <1>1 DEF Dirs
<1>6. \A d : entries(d) = Entries(d)
  BY <1>1 DEF Entries
<1>7. \A d : places(d) = Places(d)
  BY <1>6 DEF Places
<1>8. \A i : blocks(i) = Blocks(i)
  BY <1>1 DEF Blocks
<1>9. \A i : i \in used <=> i = Root \/ \E d \in dirs : \E k \in places(d) : entries(d)[k].ino = i
  <2>. HIDE DEF dirs, entries, places, blocks
  <2>. QED
    OBVIOUS
<1>. HIDE DEF dirs, entries, places, used, blocks
<1>10. \A i : i \in inode_bitmap <=> i = Root \/ \E d \in Dirs : \E k \in Places(d) : Entries(d)[k].ino = i
  BY <1>1, <1>3, <1>5, <1>6, <1>7, <1>9
<1>11. block_bitmap = UNION {Blocks(i) : i \in inode_bitmap}
  BY <1>1, <1>3, <1>8
<1>12. \A d \in Dirs :
         /\ inode[d].blocks # <<>>
         /\ Len(Entries(d)) > 1 /\ Starts(Entries(d))[Len(Entries(d)) + 1] = DirSize
         /\ \A j, k \in DOMAIN Entries(d) : Entries(d)[j].name = Entries(d)[k].name => j = k
         /\ Entries(d)[1].name = Dot /\ Entries(d)[1].ino = d
         /\ Entries(d)[2].name = DotDot /\ Entries(d)[2].ino \in Dirs
  BY <1>1, <1>4, <1>5, <1>6
<1>13. \A d \in Dirs : \A k \in Places(d) :
         /\ Entries(d)[k].ino \in Inode \ {Root}
         /\ inode[Entries(d)[k].ino].mode = Entries(d)[k].type
         /\ Entries(d)[k].type = "dir" => Entries(Entries(d)[k].ino)[2].ino = d
         /\ \A c \in Dirs : \A l \in Places(c) :
              Entries(c)[l].ino = Entries(d)[k].ino => c = d /\ l = k
  BY <1>1, <1>4, <1>5, <1>6, <1>7
<1>14. \A i, j \in inode_bitmap : i # j => Blocks(i) \cap Blocks(j) = {}
  <2>. SUFFICES ASSUME NEW i \in inode_bitmap, NEW j \in inode_bitmap, i # j
                PROVE  Blocks(i) \cap Blocks(j) = {}
    OBVIOUS
  <2>1. blocks(i) \cap blocks(j) = {}
    BY <1>1, <1>3
  <2>. QED
    BY <1>8, <2>1
<1>15. /\ inode \in [Inode -> InodeType] /\ content \in [Block -> Seq(EntryType)]
       /\ losses \in Nat
       /\ losses > 0 => \A i \in Inode : inode[i].mode = "reg" => inode[i].blocks = <<>>
  BY <1>1, <1>3
<1>16. /\ Root \in Dirs /\ Dirs \subseteq inode_bitmap
       /\ \A b \in Block : content[b] # <<>> => \E d \in Dirs : b = inode[d].blocks[1]
  BY <1>1, <1>3, <1>5
<1>. QED
  BY <1>10, <1>11, <1>12, <1>13, <1>14, <1>15, <1>16

\* A sound image satisfies the invariant.
LEMMA InitIInv == ASSUME Init PROVE IInv
<1>1. /\ inode \in [Inode -> InodeType] /\ content \in [Block -> Seq(EntryType)]
      /\ \A i : i \in inode_bitmap <=> i = Root \/ \E d \in Dirs : \E k \in Places(d) : Entries(d)[k].ino = i
      /\ block_bitmap = UNION {Blocks(i) : i \in inode_bitmap}
      /\ Root \in Dirs /\ Dirs \subseteq inode_bitmap
      /\ \A i, j \in inode_bitmap : i # j => Blocks(i) \cap Blocks(j) = {}
      /\ \A b \in Block : content[b] # <<>> => \E d \in Dirs : b = inode[d].blocks[1]
      /\ losses \in Nat
      /\ losses > 0 => \A i \in Inode : inode[i].mode = "reg" => inode[i].blocks = <<>>
  BY InitFacts
<1>2. \A d \in Dirs :
        /\ inode[d].blocks # <<>>
        /\ Len(Entries(d)) > 1 /\ Starts(Entries(d))[Len(Entries(d)) + 1] = DirSize
        /\ \A j, k \in DOMAIN Entries(d) : Entries(d)[j].name = Entries(d)[k].name => j = k
        /\ Entries(d)[1].name = Dot /\ Entries(d)[1].ino = d
        /\ Entries(d)[2].name = DotDot /\ Entries(d)[2].ino \in Dirs
  BY InitFacts
<1>3. \A d \in Dirs : \A k \in Places(d) :
        /\ Entries(d)[k].ino \in Inode \ {Root}
        /\ inode[Entries(d)[k].ino].mode = Entries(d)[k].type
        /\ Entries(d)[k].type = "dir" => Entries(Entries(d)[k].ino)[2].ino = d
        /\ \A c \in Dirs : \A l \in Places(c) :
             Entries(c)[l].ino = Entries(d)[k].ino => c = d /\ l = k
  BY InitFacts
<1>4. ASSUME NEW d \in Dirs PROVE Entries(d) \in Seq(EntryType) /\ Entries(d) # <<>>
  <2>1. d \in Inode /\ inode[d].blocks \in Seq(Block) /\ inode[d].blocks # <<>>
    BY <1>1, <1>2 DEF Dirs, InodeType
  <2>2. inode[d].blocks[1] \in Block
    BY <2>1
  <2>3. Entries(d) \in Seq(EntryType)
    BY <1>1, <2>2 DEF Entries
  <2>4. Len(Entries(d)) \in Nat /\ Len(Entries(d)) > 0
    BY <1>2, <2>3
  <2>. QED
    BY <2>3, <2>4, NotEmpty
<1>5. Formatted = Dirs
  BY <1>4 DEF Formatted
<1>6. \A i : i \in inode_bitmap <=> i = Root \/ Named(i)
  BY <1>1, <1>5 DEF Named
<1>7. inode_bitmap \subseteq Inode
  BY <1>1, <1>3, NumberAssumption
<1>8. \A i \in Inode : Blocks(i) \subseteq Block
  BY <1>1 DEF Blocks, InodeType
<1>9. DiskTypes
  BY <1>1, <1>7, <1>8 DEF DiskTypes, Init
<1>10. TreeOK
  <2>1. ASSUME NEW d \in Dirs PROVE GoodDir(d)
    <3>1. Tiled(Entries(d))
      BY <1>2, <1>4, StartsTiled
    <3>. QED
      BY <1>2, <1>5, <3>1 DEF GoodDir
  <2>2. ASSUME NEW d \in Dirs, NEW k \in Places(d) PROVE GoodName(d, k)
    <3>1. PICK j : j = Entries(d)[k].ino
      OBVIOUS
    <3>2. j \in Inode \ {Root} /\ inode[j].mode = Entries(d)[k].type /\ j \in inode_bitmap
      BY <1>1, <1>3, <3>1
    <3>3. Entries(d)[k].type = "dir" => j \in Formatted /\ Entries(j)[2].ino = d
      BY <1>3, <1>5, <3>1, <3>2 DEF Dirs
    <3>4. \A c \in Formatted : \A l \in Places(c) : Entries(c)[l].ino = j => c = d /\ l = k
      BY <1>3, <1>5, <3>1
    <3>. QED
      BY <3>1, <3>2, <3>3, <3>4 DEF GoodName
  <2>. QED
    BY <1>1, <1>2, <1>5, <2>1, <2>2 DEF TreeOK
<1>11. \A i : Owner(i) => i \in inode_bitmap
  BY <1>1, <1>6 DEF Owner
<1>12. BlocksOK
  <2>1. \A i \in inode_bitmap : Blocks(i) \subseteq block_bitmap
    BY <1>1
  <2>. QED
    BY <1>1, <1>11, <2>1 DEF BlocksOK
<1>13. OpOK
  <2>1. op = Idle /\ <<>> \in Seq(Block)
    BY DEF Init
  <2>. QED
    BY <2>1 DEF OpOK, OpType, Idle, At
<1>14. ShellOK
  BY <1>1, <1>5 DEF ShellOK, Init
<1>. QED
  BY <1>9, <1>10, <1>12, <1>13, <1>14 DEF IInv

LEMMA StepIInv == ASSUME IInv, [Next]_vars PROVE IInv'
<1>1. CASE UNCHANGED vars
  <2>1. /\ UNCHANGED <<inode_bitmap, block_bitmap, inode, content>>
        /\ UNCHANGED <<g_current_dir, g_current_path, op, losses, cut>>
    BY <1>1 DEF vars, disk, shell
  <2>2. TreeOK'
    BY <2>1, TreeStays DEF IInv
  <2>3. BlocksOK'
    <3>1. \A i \in Inode : Removing(i)' <=> Removing(i)
      BY <2>1 DEF Removing
    <3>. QED
      BY <2>1, <3>1, BlocksStay DEF IInv, BlocksOK
  <2>4. OpOK'
    <3>1. /\ Formatted' = Formatted /\ Dirs' = Dirs
          /\ \A d : Entries(d)' = Entries(d) /\ Places(d)' = Places(d) /\ Blocks(d)' = Blocks(d)
          /\ \A i : (Named(i)' <=> Named(i)) /\ (Owner(i)' <=> Owner(i))
      BY <2>1, SameTree
    <3>2. \A kinds : Creating(kinds)' <=> Creating(kinds)
      BY <2>1, <3>1 DEF Creating
    <3>3. Condemned' <=> Condemned
      BY <2>1, <3>1 DEF Condemned
    <3>4. OpType' <=> OpType
      BY <2>1 DEF OpType
    <3>. QED
      BY <2>1, <3>1, <3>2, <3>3, <3>4 DEF IInv, OpOK, At, Fresh
  <2>. QED
    BY <2>1, <2>2, <2>3, <2>4, SameTree DEF IInv, DiskTypes, ShellOK
<1>. QED
  BY <1>1, BeginCreateKeeps, BeginRemoveKeeps, CdKeeps, CrashKeeps, AllocInodeKeeps,
     AllocBlockKeeps, WriteInodeKeeps, WriteNewDirKeeps, LinkKeeps, FreeBlockKeeps, UnlinkKeeps,
     FreeInodeKeeps DEF Next, Step

-----------------------------------------------------------------------------
(* Every directory that is used can be reached from the root.              *)

Reached(d) == d = Root \/ Named(d)

ReachOK == /\ \A d \in Formatted : Places(d) # {} => Reached(d)
           /\ Reached(Entries(Root)[2].ino) /\ Reached(g_current_dir)
           /\ ~At("idle") => Reached(op.parent)

\* A directory found in one that is reached is reached itself.
LEMMA FindReached ==
  ASSUME IInv, ReachOK, NEW d \in Formatted, Reached(d), NEW n, Find(d, n).type = "dir"
  PROVE  Find(d, n).ino \in Formatted /\ Reached(Find(d, n).ino)
<1>1. Find(d, n).ino \in Formatted
  BY FindDir DEF IInv
<1>2. PICK k \in DOMAIN Entries(d) : Find(d, n) = Entries(d)[k]
  BY FindIs DEF IInv, Entry
<1>3. (k = 1 \/ k = 2 \/ k \in Places(d)) /\ GoodDir(d)
  BY DirFacts DEF IInv
<1>4. CASE k = 1
  BY <1>2, <1>3, <1>4, <1>1 DEF GoodDir
<1>5. CASE k = 2
  <2>1. CASE d = Root
    BY <1>1, <1>2, <1>5, <2>1 DEF ReachOK
  <2>2. CASE d # Root
    <3>1. PICK c \in Formatted : \E l \in Places(c) : Entries(c)[l].ino = d
      BY <2>2 DEF Reached, Named
    <3>2. PICK l \in Places(c) : Entries(c)[l].ino = d
      BY <3>1
    <3>3. inode[d].mode = "dir" /\ GoodName(c, l)
      BY DEF Formatted, Dirs, IInv, TreeOK
    <3>4. Entries(d)[2].ino = c
      BY <3>2, <3>3 DEF GoodName
    <3>5. Reached(c)
      BY <3>2 DEF ReachOK
    <3>. QED
      BY <1>1, <1>2, <1>5, <3>4, <3>5
  <2>. QED
    BY <2>1, <2>2
<1>6. CASE k \in Places(d)
  BY <1>1, <1>2, <1>6 DEF Reached, Named
<1>. QED
  BY <1>3, <1>4, <1>5, <1>6

\* Every path leads to a directory that is reached.
LEMMA PathReached ==
  ASSUME IInv, ReachOK, NEW path \in Paths
  PROVE  /\ ParentOf(path) # 0 => Reached(ParentOf(path))
         /\ Target(path) # 0 /\ inode[Target(path)].mode = "dir" => Reached(Target(path))
<1> DEFINE F == {d \in Formatted : Reached(d)}
<1>1. path.comps \in Seq(Name \cup {Dot, DotDot}) /\ Root \in F /\ g_current_dir \in F /\ 0 \notin F
  BY PathAssumption, NumberAssumption DEF IInv, TreeOK, ShellOK, ReachOK, Reached, Formatted, Dirs
<1>2. \A d \in F : \A c : Find(d, c).type = "dir" => Find(d, c).ino \in F
  BY FindReached
<1>3. ParentOf(path) \in F \cup {0}
  <2>. HIDE DEF F
  <2>1. CASE path.comps = <<>>
    BY <1>1, <2>1 DEF ParentOf
  <2>2. CASE path.comps # <<>>
    <3>1. Len(path.comps) \in 1 .. Len(path.comps) + 1
      BY <1>1, <2>2
    <3>2. Walk(path, g_current_dir)[Len(path.comps)] \in F \cup {0}
      BY <1>1, <1>2, <3>1, WalkStays
    <3>. QED
      BY <2>2, <3>2 DEF ParentOf
  <2>. QED
    BY <2>1, <2>2
<1>4. CASE path.comps = <<>>
  BY <1>3, <1>4 DEF Target, Reached
<1>5. CASE path.comps # <<>> /\ ParentOf(path) = 0
  BY <1>5 DEF Target
<1>6. CASE path.comps # <<>> /\ ParentOf(path) # 0
  <2>1. PICK d \in Formatted : d = ParentOf(path) /\ Reached(d)
    BY <1>3, <1>6
  <2>2. PICK e : e = Find(d, NameOf(path))
    OBVIOUS
  <2>3. Target(path) = e.ino
    BY <1>6, <2>1, <2>2 DEF Target
  <2>4. ASSUME e.ino # 0, inode[e.ino].mode = "dir" PROVE Reached(e.ino)
    <3>1. PICK k \in DOMAIN Entries(d) : e = Entries(d)[k]
      BY <2>2, <2>4, FindIs DEF IInv, Entry
    <3>2. (k = 1 \/ k = 2 \/ k \in Places(d)) /\ GoodDir(d)
      BY DirFacts DEF IInv
    <3>3. CASE k = 1
      BY <2>1, <3>1, <3>2, <3>3 DEF GoodDir
    <3>4. CASE k = 2
      <4>1. e.name = DotDot
        BY <3>1, <3>2, <3>4 DEF GoodDir
      <4>2. CASE d = Root
        BY <3>1, <3>4, <4>2 DEF ReachOK
      <4>3. CASE d # Root
        <5>1. PICK c \in Formatted : \E l \in Places(c) : Entries(c)[l].ino = d
          BY <2>1, <4>3 DEF Reached, Named
        <5>2. PICK l \in Places(c) : Entries(c)[l].ino = d
          BY <5>1
        <5>3. inode[d].mode = "dir" /\ GoodName(c, l)
          BY DEF Formatted, Dirs, IInv, TreeOK
        <5>4. Entries(d)[2].ino = c /\ Reached(c)
          BY <5>2, <5>3 DEF GoodName, ReachOK
        <5>. QED
          BY <3>1, <3>4, <5>4
      <4>. QED
        BY <4>2, <4>3
    <3>5. CASE k \in Places(d)
      BY <3>1, <3>5 DEF Reached, Named
    <3>. QED
      BY <3>2, <3>3, <3>4, <3>5
  <2>. QED
    BY <1>3, <2>3, <2>4
<1>. QED
  BY <1>3, <1>4, <1>5, <1>6

\* In a sound image every directory is reached.
LEMMA InitReach == ASSUME Init PROVE ReachOK
<1>1. /\ \A i : i \in inode_bitmap <=> i = Root \/ \E d \in Dirs : \E k \in Places(d) : Entries(d)[k].ino = i
      /\ Root \in Dirs /\ Dirs \subseteq inode_bitmap
      /\ \A d \in Dirs : Len(Entries(d)) > 1 /\ Entries(d)[2].ino \in Dirs
  BY InitFacts
<1>2. Formatted = Dirs
  <2>1. \A d \in Dirs : Entries(d) # <<>>
    <3>1. Len(<<>>) = 0
      OBVIOUS
    <3>. QED
      BY <1>1, <3>1
  <2>. QED
    BY <2>1 DEF Formatted
<1>3. \A d \in Dirs : Reached(d)
  BY <1>1, <1>2 DEF Reached, Named
<1>4. g_current_dir = Root /\ op = Idle
  BY DEF Init
<1>5. At("idle")
  BY <1>4 DEF At, Idle
<1>. QED
  BY <1>1, <1>2, <1>3, <1>4, <1>5 DEF ReachOK

\* As long as the names stay, what is reached is.
LEMMA ReachStays ==
  ASSUME IInv, ReachOK, NamesStay, Reached(g_current_dir'), ~At("idle")' => Reached(op'.parent)
  PROVE  ReachOK'
<1>1. \A d : Reached(d)' <=> Reached(d)
  BY DEF Reached, NamesStay
<1>2. \A d \in Formatted' : Places(d)' # {} => Reached(d)'
  BY <1>1 DEF NamesStay, ReachOK
<1>3. Entries(Root)' = Entries(Root)
  BY DEF NamesStay, IInv, TreeOK
<1>4. PICK r, c, p : r = Entries(Root)[2].ino /\ c = g_current_dir' /\ p = op'.parent
  OBVIOUS
<1>5. Reached(r)' /\ Reached(c)' /\ (~At("idle")' => Reached(p)')
  BY <1>1, <1>4 DEF ReachOK
<1>. QED
  BY <1>2, <1>3, <1>4, <1>5 DEF ReachOK, Reached, Named

LEMMA QuietNames == ASSUME inode' = inode, content' = content PROVE NamesStay
BY SameTree DEF NamesStay

\* mkdir and touch add to a directory that is reached.
LEMMA LinkReach == ASSUME IInv, ReachOK, Link PROVE ReachOK'
<1>1. CASE ~Splits(op.parent)
  <2>1. op' = Idle /\ inode' = inode /\ content' = content /\ g_current_dir' = g_current_dir
    BY <1>1 DEF Link, Fail, disk, shell
  <2>2. At("idle")'
    BY <2>1 DEF At, Idle
  <2>. QED
    BY <2>1, <2>2, QuietNames, ReachStays DEF ReachOK
<1>2. CASE Splits(op.parent)
  <2>1. PICK p, i : p = op.parent /\ i = op.ino
    OBVIOUS
  <2>2. PICK m : m = Len(Entries(p)) + 1
    OBVIOUS
  <2>3. /\ p \in Formatted /\ Len(Entries(p)) \in Nat /\ Len(Entries(p)) > 1
        /\ op' = Idle /\ g_current_dir' = g_current_dir
        /\ Formatted' = Formatted
        /\ \A d \in Formatted : d # p => Entries(d)' = Entries(d) /\ Places(d)' = Places(d)
        /\ \A k \in 1 .. Len(Entries(p)) : (Entries(p)')[k].ino = Entries(p)[k].ino
    BY <1>2, <2>1, LinkFacts DEF shell
  <2>4. \A j : Named(j)' <=> Named(j) \/ j = i
    BY <1>2, <2>1, <2>2, LinkPlaces
  <2>5. \A d : Reached(d) => Reached(d)'
    BY <2>4 DEF Reached
  <2>6. Reached(p)
    <3>1. op.pc = "link"
      BY DEF Link, At
    <3>. QED
      BY <2>1, <3>1 DEF ReachOK, At
  <2>7. \A d \in Formatted' : Places(d)' # {} => Reached(d)'
    BY <2>3, <2>5, <2>6 DEF ReachOK
  <2>8. PICK r, c : r = Entries(Root)[2].ino /\ c = g_current_dir
    OBVIOUS
  <2>9. Reached(r)' /\ Reached(c)'
    BY <2>5, <2>8 DEF ReachOK
  <2>10. (Entries(Root)')[2].ino = r
    <3>1. Root \in Formatted
      BY DEF IInv, TreeOK
    <3>2. CASE Root = p
      BY <2>3, <2>8, <3>2
    <3>3. CASE Root # p
      BY <2>3, <2>8, <3>1, <3>3
    <3>. QED
      BY <3>2, <3>3
  <2>11. At("idle")'
    BY <2>3 DEF At, Idle
  <2>12. g_current_dir' = c
    BY <2>3, <2>8
  <2>. QED
    BY <2>7, <2>9, <2>10, <2>11, <2>12 DEF ReachOK, Reached, Named
<1>. QED
  BY <1>1, <1>2

\* rm takes no directory away.
LEMMA UnlinkReach == ASSUME IInv, ReachOK, Unlink PROVE ReachOK'
<1>1. PICK p \in Formatted : \E k \in Places(p) : Goes(p, k)
  BY UnlinkGoes
<1>2. PICK k \in Places(p) : Goes(p, k)
  BY <1>1
<1>3. PICK i : i = op.ino
  OBVIOUS
<1>4. /\ Len(Entries(p)) \in Nat /\ Len(Entries(p)) > 2
      /\ UNCHANGED <<inode, shell>> /\ Formatted' = Formatted
      /\ \A d \in Formatted : d # p => Entries(d)' = Entries(d) /\ Places(d)' = Places(d)
      /\ \A l \in 1 .. Len(Entries(p)) - 1 :
            (Entries(p)')[l].ino = Entries(p)[Before(k, l)].ino
  BY <1>2, UnlinkFacts
<1>5. /\ \A d \in Formatted : \A l \in Places(d)' : \E o \in Places(d) : TRUE
      /\ \A j : Named(j)' <=> Named(j) /\ j # i
  BY <1>2, <1>3, UnlinkPlaces
<1>6. Condemned /\ op'.parent = op.parent /\ ~At("idle")
  <2>1. op.pc = "free_blocks"
    BY DEF Unlink, At
  <2>2. op' = [op EXCEPT !.pc = "free_inode"] /\ OpType
    BY DEF Unlink, IInv, OpOK
  <2>. QED
    BY <2>1, <2>2 DEF At, IInv, OpOK, OpType
<1>7. \A d \in Formatted : d # i
  BY <1>3, <1>6 DEF Condemned, Formatted, Dirs
<1>8. \A d \in Formatted : Reached(d) => Reached(d)'
  BY <1>5, <1>7 DEF Reached
<1>9. \A d \in Formatted' : Places(d)' # {} => Reached(d)'
  BY <1>4, <1>5, <1>8 DEF ReachOK
<1>10. PICK r, c : r = Entries(Root)[2].ino /\ c = g_current_dir
  OBVIOUS
<1>11. r \in Formatted /\ c \in Formatted /\ p = op.parent
  BY <1>2, <1>10 DEF IInv, TreeOK, GoodDir, ShellOK, Goes
<1>12. Reached(r)' /\ Reached(c)' /\ Reached(p)'
  BY <1>6, <1>8, <1>10, <1>11 DEF ReachOK
<1>13. (Entries(Root)')[2].ino = r
  <2>1. Root \in Formatted
    BY DEF IInv, TreeOK
  <2>2. CASE Root = p
    <3>1. 2 \in 1 .. Len(Entries(p)) - 1 /\ Before(k, 2) = 2
      BY <1>2, <1>4 DEF Before, Places
    <3>. QED
      BY <1>4, <1>10, <2>2, <3>1
  <2>3. CASE Root # p
    BY <1>4, <1>10, <2>1, <2>3
  <2>. QED
    BY <2>2, <2>3
<1>14. g_current_dir' = c /\ op'.parent = p
  BY <1>4, <1>6, <1>10, <1>11 DEF shell
<1>. QED
  BY <1>9, <1>12, <1>13, <1>14 DEF ReachOK, Reached, Named

LEMMA StepReach == ASSUME IInv, ReachOK, [Next]_vars PROVE ReachOK'
<1>1. CASE UNCHANGED vars
  <2>1. inode' = inode /\ content' = content /\ op' = op /\ g_current_dir' = g_current_dir
    BY <1>1 DEF vars, disk, shell
  <2>. QED
    BY <2>1, QuietNames, ReachStays DEF ReachOK, At
<1>2. ASSUME BeginCreate \/ BeginRemove PROVE ReachOK'
  <2>1. PICK path \in Paths, kind \in {"mkdir", "touch", "rm"} :
          /\ Accepts(kind, path) /\ op'.parent = ParentOf(path)
          /\ inode' = inode /\ content' = content /\ g_current_dir' = g_current_dir
    BY <1>2 DEF BeginCreate, BeginRemove, Idle, disk, shell
  <2>2. ParentOf(path) # 0
    <3>1. CASE kind = "rm"
      <4>1. Target(path) # 0 /\ inode[Target(path)].mode # "dir"
        BY <2>1, <3>1 DEF Accepts
      <4>2. ParentOf(path) \in Formatted
        BY <4>1, PathFacts
      <4>. QED
        BY <4>2, NumberAssumption DEF Formatted, Dirs
    <3>2. CASE kind # "rm"
      BY <2>1, <3>2 DEF Accepts
    <3>. QED
      BY <3>1, <3>2
  <2>3. Reached(ParentOf(path))
    BY <2>2, PathReached
  <2>4. Reached(op'.parent) /\ Reached(g_current_dir')
    BY <2>1, <2>3 DEF ReachOK
  <2>. QED
    BY <2>1, <2>4, QuietNames, ReachStays
<1>3. CASE Cd
  <2>1. PICK path \in Paths : Accepts("cd", path) /\ g_current_dir' = Target(path)
    BY <1>3 DEF Cd
  <2>2. inode' = inode /\ content' = content /\ op' = op
    BY <1>3 DEF Cd, disk
  <2>3. Reached(Target(path))
    <3>1. Target(path) # 0 /\ inode[Target(path)].mode = "dir"
      BY <2>1 DEF Accepts
    <3>. QED
      BY <3>1, PathReached
  <2>. QED
    BY <2>1, <2>2, <2>3, QuietNames, ReachStays DEF ReachOK, At
<1>4. CASE Crash
  <2>1. /\ inode' = inode /\ content' = content /\ op' = Idle /\ g_current_dir' = Root
    BY <1>4 DEF Crash, disk
  <2>2. At("idle")' /\ Reached(g_current_dir')
    BY <2>1 DEF At, Idle, Reached
  <2>. QED
    BY <2>1, <2>2, QuietNames, ReachStays
<1>5. ASSUME AllocInode \/ AllocBlock \/ FreeBlock \/ FreeInode PROVE ReachOK'
  <2>1. /\ inode' = inode /\ content' = content /\ g_current_dir' = g_current_dir
        /\ ~At("idle") /\ (op'.parent = op.parent \/ op' = Idle)
    <3>1. ~At("idle")
      BY <1>5 DEF AllocInode, AllocBlock, FreeBlock, FreeInode, At
    <3>2. inode' = inode /\ content' = content /\ g_current_dir' = g_current_dir
      BY <1>5 DEF AllocInode, AllocBlock, FreeBlock, FreeInode, Fail, disk, shell
    <3>3. op'.parent = op.parent \/ op' = Idle
      <4>1. OpType
        BY DEF IInv, OpOK
      <4>. QED
        BY <1>5, <4>1 DEF AllocInode, AllocBlock, FreeBlock, FreeInode, Fail, OpType
    <3>. QED
      BY <3>1, <3>2, <3>3
  <2>2. ~At("idle")' => Reached(op'.parent)
    BY <2>1 DEF ReachOK, At, Idle
  <2>. QED
    BY <2>1, <2>2, QuietNames, ReachStays DEF ReachOK
<1>6. ASSUME WriteInode \/ WriteNewDir PROVE ReachOK'
  <2>1. NamesStay
    BY <1>6, WriteInodeKeeps, WriteNewDirKeeps
  <2>2. OpType
    BY DEF IInv, OpOK
  <2>3. g_current_dir' = g_current_dir /\ ~At("idle") /\ op'.parent = op.parent
    BY <1>6, <2>2 DEF WriteInode, WriteNewDir, shell, OpType, At
  <2>. QED
    BY <2>1, <2>3, ReachStays DEF ReachOK
<1>. QED
  BY <1>1, <1>2, <1>3, <1>4, <1>5, <1>6, LinkReach, UnlinkReach DEF Next, Step

-----------------------------------------------------------------------------
(* The names are what is in the directories after . and .. .               *)

\* A name, and where it stands.
IsName(e) == \E d \in Formatted : \E k \in Places(d) : e = NameAt(d, k)

\* The first two entries are . and .., no other one is.
LEMMA ChildrenIs == ASSUME IInv, NEW d \in Formatted PROVE Children(d) = Places(d)
<1>1. /\ GoodDir(d) /\ Len(Entries(d)) > 1 /\ Len(Entries(d)) \in Nat
      /\ DOMAIN Entries(d) = 1 .. Len(Entries(d))
      /\ \A k \in DOMAIN Entries(d) :
            Entries(d)[k].name \in Name \cup {Dot, DotDot} /\ (k = 1 \/ k = 2 \/ k \in Places(d))
  BY DirFacts DEF IInv, EntryType
<1>2. ASSUME NEW k \in Places(d) PROVE k \in DOMAIN Entries(d) /\ Entries(d)[k].name \in Name
  <2>1. k \in DOMAIN Entries(d) /\ k # 1 /\ k # 2 /\ {1, 2} \subseteq DOMAIN Entries(d)
    BY <1>1 DEF Places
  <2>. QED
    BY <1>1, <2>1 DEF GoodDir
<1>3. Entries(d)[1].name \notin Name /\ Entries(d)[2].name \notin Name
  BY <1>1, NameAssumption DEF GoodDir
<1>. QED
  BY <1>1, <1>2, <1>3 DEF Children

\* Names, by place.
LEMMA NamesAre == IInv => \A e : e \in Names <=> IsName(e)
<1>. SUFFICES ASSUME IInv PROVE \A e : e \in Names <=> IsName(e)
  OBVIOUS
<1>1. \A d \in Formatted : Children(d) = Places(d)
  BY ChildrenIs
<1>. QED
  BY <1>1 DEF Names, IsName

LEMMA NamesAreThen == IInv' => \A e : e \in Names' <=> IsName(e)'
<1>1. (IInv => \A e : e \in Names <=> IsName(e))'
  BY NamesAre, PTL
<1>. QED
  BY <1>1

LEMMA NameIs == ASSUME IInv, NEW e, IsName(e)
                PROVE \E d \in Formatted : \E k \in Places(d) :
                         /\ e.dir = d /\ e.name = Entries(d)[k].name
                         /\ e.ino = Entries(d)[k].ino /\ e.type = Entries(d)[k].type
                         /\ GoodName(d, k) /\ k \in DOMAIN Entries(d)
<1>1. PICK d \in Formatted : \E k \in Places(d) : e = NameAt(d, k)
  BY DEF IsName
<1>2. PICK k \in Places(d) : e = NameAt(d, k)
  BY <1>1
<1>3. GoodName(d, k) /\ k \in DOMAIN Entries(d)
  BY DirFacts DEF IInv
<1>. QED
  BY <1>2, <1>3 DEF NameAt

\* Used, by place.
LEMMA UsedIs == ASSUME IInv PROVE \A i : i \in Used <=> i = Root \/ Named(i)
<1>1. \A e : e \in Names <=> IsName(e)
  BY NamesAre
<1>2. ASSUME NEW i, i \in Used, i # Root PROVE Named(i)
  <2>1. PICK e \in Names : i = e.ino
    BY <1>2 DEF Used
  <2>. QED
    BY <1>1, <2>1, NameIs DEF Named
<1>3. ASSUME NEW i, Named(i) PROVE i \in Used
  <2>1. PICK d \in Formatted : \E k \in Places(d) : Entries(d)[k].ino = i
    BY <1>3 DEF Named
  <2>2. PICK k \in Places(d) : Entries(d)[k].ino = i
    BY <2>1
  <2>3. IsName(NameAt(d, k)) /\ NameAt(d, k).ino = i
    BY <2>2 DEF IsName, NameAt
  <2>. QED
    BY <1>1, <2>3 DEF Used
<1>. QED
  BY <1>2, <1>3 DEF Used

-----------------------------------------------------------------------------
(* What the invariant says of the properties.                              *)

LEMMA Types == ASSUME IInv PROVE TypeOK
<1>1. op.parent \in Formatted \cup {0}
  BY DEF IInv, OpOK, Idle, At, OpType, Creating, Condemned
<1>2. op.ino \in Inode \cup {0} /\ op.blocks \in Seq(Block)
  BY DEF IInv, OpOK, OpType
<1>. QED
  BY <1>1, <1>2 DEF IInv, DiskTypes, ShellOK, TypeOK

LEMMA Live == ASSUME IInv PROVE NamesLive
<1>1. \A e : e \in Names <=> IsName(e)
  BY NamesAre
<1>2. ASSUME NEW e, e \in Names
      PROVE  /\ e.ino \in inode_bitmap
             /\ inode[e.ino].mode = e.type
             /\ e.type = "dir" => e.ino \in Formatted /\ Find(e.ino, DotDot).ino = e.dir
  <2>1. PICK d \in Formatted : \E k \in Places(d) :
           /\ e.dir = d /\ e.ino = Entries(d)[k].ino /\ e.type = Entries(d)[k].type
           /\ GoodName(d, k)
    BY <1>1, <1>2, NameIs
  <2>2. /\ e.ino \in inode_bitmap /\ inode[e.ino].mode = e.type
        /\ e.type = "dir" => e.ino \in Formatted /\ Entries(e.ino)[2].ino = e.dir
    BY <2>1 DEF GoodName
  <2>3. ASSUME NEW i \in Formatted PROVE Find(i, DotDot).ino = Entries(i)[2].ino
    <3>1. GoodDir(i) /\ 2 \in DOMAIN Entries(i)
      BY DirFacts DEF IInv
    <3>. QED
      BY <3>1, FindIs DEF IInv, GoodDir
  <2>. QED
    BY <2>2, <2>3
<1>3. ASSUME NEW e, NEW f, e \in Names, f \in Names, e.ino = f.ino PROVE e = f
  <2>1. IsName(e) /\ IsName(f)
    BY <1>1, <1>3
  <2>2. PICK d \in Formatted : \E k \in Places(d) : e = NameAt(d, k)
    BY <2>1 DEF IsName
  <2>3. PICK k \in Places(d) : e = NameAt(d, k)
    BY <2>2
  <2>4. PICK c \in Formatted : \E l \in Places(c) : f = NameAt(c, l)
    BY <2>1 DEF IsName
  <2>5. PICK l \in Places(c) : f = NameAt(c, l)
    BY <2>4
  <2>6. GoodName(d, k)
    BY DEF IInv, TreeOK
  <2>7. Entries(c)[l].ino = Entries(d)[k].ino
    BY <1>3, <2>3, <2>5 DEF NameAt
  <2>. QED
    BY <2>3, <2>5, <2>6, <2>7 DEF GoodName
<1>. QED
  BY <1>2, <1>3 DEF NamesLive

LEMMA Shows == ASSUME IInv PROVE LsShowsAll
<1>1. SUFFICES ASSUME NEW e, e \in Names
               PROVE  e.name \in Listed(e.dir) /\ Find(e.dir, e.name).ino = e.ino
  BY DEF LsShowsAll
<1>2. PICK d \in Formatted : \E k \in Places(d) :
         /\ e.dir = d /\ e.name = Entries(d)[k].name /\ e.ino = Entries(d)[k].ino
         /\ k \in DOMAIN Entries(d)
  BY <1>1, NamesAre, NameIs
<1>3. PICK k \in DOMAIN Entries(d) :
         e.dir = d /\ e.name = Entries(d)[k].name /\ e.ino = Entries(d)[k].ino
  BY <1>2
<1>4. /\ DOMAIN Entries(d) = 1 .. Len(Entries(d)) /\ Len(Entries(d)) \in Nat
      /\ \A l \in DOMAIN Entries(d) : Entries(d)[l].ino # 0
  BY DirFacts DEF IInv
<1>5. \A j \in 1 .. k : Entries(d)[j].ino # 0
  BY <1>4
<1>6. e.name \in Listed(d)
  BY <1>3, <1>5 DEF Listed
<1>7. Find(d, e.name) = Entries(d)[k]
  BY <1>3, FindIs DEF IInv
<1>. QED
  BY <1>3, <1>6, <1>7

LEMMA OneOwner == ASSUME IInv PROVE OwnedOnce
<1> DEFINE owners == Used \ (IF op.kind = "rm" THEN {op.ino} ELSE {})
<1>1. ASSUME NEW i \in owners PROVE i \in Inode /\ Owner(i) /\ ~Removing(i)
  <2>1. i = Root \/ Named(i)
    BY UsedIs
  <2>2. i \in Inode /\ Owner(i)
    <3>1. CASE i = Root
      BY <3>1, NumberAssumption DEF IInv, TreeOK, Formatted, Owner
    <3>2. CASE Named(i)
      BY <3>2 DEF IInv, DiskTypes, TreeOK, GoodName, Named, Owner
    <3>. QED
      BY <2>1, <3>1, <3>2
  <2>3. ~Removing(i)
    BY DEF Removing
  <2>. QED
    BY <2>2, <2>3
<1>2. \A i \in owners : Blocks(i) \subseteq block_bitmap
  BY <1>1 DEF IInv, BlocksOK
<1>3. \A i, j \in owners : i # j => Blocks(i) \cap Blocks(j) = {}
  BY <1>1 DEF IInv, BlocksOK
<1>. QED
  BY <1>2, <1>3 DEF OwnedOnce

LEMMA WellFormed == ASSUME IInv PROVE DirsWellFormed <=> EntriesFit
<1>1. ASSUME NEW d \in Formatted
      PROVE  /\ Starts(Entries(d))[Len(Entries(d)) + 1] = DirSize
             /\ GoodDir(d)
  <2>1. GoodDir(d) /\ Len(Entries(d)) \in Nat
    BY DirFacts DEF IInv
  <2>2. Tiled(Entries(d))
    BY <2>1 DEF GoodDir
  <2>. QED
    BY <2>1, <2>2, TiledStarts
<1>2. TypeOK
  BY Types
<1>. QED
  BY <1>1, <1>2 DEF DirsWellFormed, EntriesFit, GoodDir

-----------------------------------------------------------------------------
(* The names are the tree a user is promised: every write keeps it, save   *)
(* the one that adds a name and the one that takes it away.                *)

\* A reached directory is one of the tree.
LEMMA InTree == ASSUME IInv, NEW d \in Formatted, Reached(d) PROVE d \in Tree!Dirs
<1>1. CASE d = Root
  BY <1>1 DEF Tree!Dirs
<1>2. CASE Named(d)
  <2>1. PICK c \in Formatted : \E k \in Places(c) : Entries(c)[k].ino = d
    BY <1>2 DEF Named
  <2>2. PICK k \in Places(c) : Entries(c)[k].ino = d
    BY <2>1
  <2>3. PICK e : e = NameAt(c, k)
    OBVIOUS
  <2>4. e \in Names
    BY <2>3, NamesAre DEF IsName
  <2>5. inode[d].mode = "dir" /\ GoodName(c, k)
    BY DEF Formatted, Dirs, IInv, TreeOK
  <2>6. e.ino = d /\ e.type = "dir"
    BY <2>2, <2>3, <2>5 DEF GoodName, NameAt
  <2>. QED
    BY <2>4, <2>6 DEF Tree!Dirs
<1>. QED
  BY <1>1, <1>2 DEF Reached

\* A sound image holds a tree of names.
LEMMA InitTree == ASSUME Init PROVE Tree!Init
<1>1. IInv /\ ReachOK
  BY InitIInv, InitReach
<1>2. ASSUME NEW e \in Names PROVE e.dir \in Tree!Dirs /\ e.ino # Root
  <2>1. IsName(e)
    BY <1>1, NamesAre
  <2>2. PICK d \in Formatted : \E k \in Places(d) :
          e.dir = d /\ e.ino = Entries(d)[k].ino /\ GoodName(d, k)
    BY <1>1, <2>1, NameIs
  <2>3. Reached(d)
    BY <1>1, <2>2 DEF ReachOK
  <2>. QED
    BY <1>1, <2>2, <2>3, InTree DEF GoodName
<1>3. ASSUME NEW e \in Names, NEW f \in Names,
             e.ino = f.ino \/ (e.dir = f.dir /\ e.name = f.name)
      PROVE  e = f
  <2>1. CASE e.ino = f.ino
    BY <1>1, <2>1, Live DEF NamesLive
  <2>2. CASE e.dir = f.dir /\ e.name = f.name
    <3>1. IsName(e) /\ IsName(f)
      BY <1>1, NamesAre
    <3>2. PICK d \in Formatted : \E k \in Places(d) :
             /\ e.dir = d /\ e.name = Entries(d)[k].name /\ e.ino = Entries(d)[k].ino
             /\ k \in DOMAIN Entries(d)
      BY <1>1, <3>1, NameIs
    <3>3. PICK c \in Formatted : \E k \in Places(c) :
             /\ f.dir = c /\ f.name = Entries(c)[k].name /\ f.ino = Entries(c)[k].ino
             /\ k \in DOMAIN Entries(c)
      BY <1>1, <3>1, NameIs
    <3>4. GoodDir(d) /\ c = d
      BY <1>1, <2>2, <3>2, <3>3 DEF IInv, TreeOK
    <3>5. e.ino = f.ino
      BY <2>2, <3>2, <3>3, <3>4 DEF GoodDir
    <3>. QED
      BY <1>1, <3>5, Live DEF NamesLive
  <2>. QED
    BY <1>3, <2>1, <2>2
<1>. QED
  BY <1>2, <1>3 DEF Tree!Init

LEMMA NamesStayed == ASSUME IInv, IInv', NamesStay PROVE Names' = Names
<1>1. \A e : (e \in Names <=> IsName(e)) /\ (e \in Names' <=> IsName(e)')
  BY NamesAre, NamesAreThen
<1>2. \A d \in Formatted : \A k : NameAt(d, k)' = NameAt(d, k)
  BY DEF NamesStay, NameAt
<1>3. ASSUME NEW e PROVE IsName(e)' <=> IsName(e)
  BY <1>2 DEF NamesStay, IsName
<1>. QED
  BY <1>1, <1>3

\* The linking write is the Add of the tree.
LEMMA LinkAdds == ASSUME IInv, IInv', ReachOK, Link, Splits(op.parent) PROVE Tree!Next
<1>1. PICK p, i, n, t : p = op.parent /\ i = op.ino /\ n = op.name /\ t = KindType(op.kind)
  OBVIOUS
<1>2. PICK m : m = Len(Entries(p)) + 1
  OBVIOUS
<1>3. op.pc = "link" /\ OpType
  BY DEF Link, At, IInv, OpOK
<1>4. /\ p \in Formatted /\ Len(Entries(p)) \in Nat
      /\ Formatted' = Formatted
      /\ \A d \in Formatted : d # p => Entries(d)' = Entries(d) /\ Places(d)' = Places(d)
      /\ \A k \in 1 .. Len(Entries(p)) : /\ (Entries(p)')[k].name = Entries(p)[k].name
                                         /\ (Entries(p)')[k].ino = Entries(p)[k].ino
                                         /\ (Entries(p)')[k].type = Entries(p)[k].type
      /\ (Entries(p)')[m].name = n /\ (Entries(p)')[m].ino = i /\ (Entries(p)')[m].type = t
  BY <1>1, <1>2, LinkFacts
<1>5. Places(p)' = Places(p) \cup {m}
  BY <1>1, <1>2, LinkPlaces
<1>6. /\ n \in Name /\ i \in Inode /\ t \in {"dir", "reg"} /\ p \in Inode
      /\ i # Root /\ ~Named(i) /\ Reached(p)
      /\ \A k \in DOMAIN Entries(p) : Entries(p)[k].name # n
  <2>1. Creating({"mkdir", "touch"}) /\ i \in inode_bitmap /\ ~Named(i) /\ i # Root
    BY <1>1, <1>3 DEF IInv, OpOK, At
  <2>2. Reached(p)
    BY <1>1, <1>3 DEF ReachOK, At
  <2>3. p \in Inode /\ i \in Inode
    BY <1>4, <2>1 DEF Formatted, Dirs, IInv, DiskTypes
  <2>. QED
    BY <1>1, <2>1, <2>2, <2>3 DEF Creating, KindType
<1>7. PICK new : new = [dir |-> p, name |-> n, ino |-> i, type |-> t]
  OBVIOUS
<1>8. NameAt(p, m)' = new
  BY <1>4, <1>7 DEF NameAt
<1>9. ASSUME NEW d \in Formatted, NEW k \in Places(d) PROVE NameAt(d, k)' = NameAt(d, k)
  <2>1. CASE d # p
    BY <1>4, <2>1 DEF NameAt
  <2>2. CASE d = p
    <3>1. k \in 1 .. Len(Entries(p))
      BY <1>4, <2>2 DEF Places
    <3>. QED
      BY <1>4, <2>2, <3>1 DEF NameAt
  <2>. QED
    BY <2>1, <2>2
<1>10. ASSUME NEW e PROVE IsName(e)' <=> IsName(e) \/ e = new
  <2>1. ASSUME IsName(e)' PROVE IsName(e) \/ e = new
    <3>1. PICK d \in Formatted : \E k \in Places(d)' : e = NameAt(d, k)'
      BY <1>4, <2>1 DEF IsName
    <3>2. PICK k \in Places(d)' : e = NameAt(d, k)'
      BY <3>1
    <3>3. CASE d = p /\ k = m
      BY <1>8, <3>2, <3>3
    <3>4. CASE k \in Places(d)
      BY <1>9, <3>2, <3>4 DEF IsName
    <3>. QED
      BY <1>4, <1>5, <3>3, <3>4
  <2>2. ASSUME IsName(e) PROVE IsName(e)'
    <3>1. PICK d \in Formatted : \E k \in Places(d) : e = NameAt(d, k)
      BY <2>2 DEF IsName
    <3>2. PICK k \in Places(d) : e = NameAt(d, k)
      BY <3>1
    <3>3. k \in Places(d)' /\ e = NameAt(d, k)'
      BY <1>4, <1>5, <1>9, <3>2
    <3>. QED
      BY <1>4, <3>3 DEF IsName
  <2>3. ASSUME e = new PROVE IsName(e)'
    BY <1>4, <1>5, <1>8, <2>3 DEF IsName
  <2>. QED
    BY <2>1, <2>2, <2>3
<1>11. Names' = Names \cup {new}
  <2>1. \A e : (e \in Names <=> IsName(e)) /\ (e \in Names' <=> IsName(e)')
    BY NamesAre, NamesAreThen
  <2>. QED
    BY <1>10, <2>1
<1>12. ~\E e \in Names : e.dir = p /\ e.name = n
  <2>1. SUFFICES ASSUME NEW e \in Names, e.dir = p, e.name = n PROVE FALSE
    OBVIOUS
  <2>2. IsName(e)
    BY NamesAre
  <2>3. PICK d \in Formatted : \E k \in Places(d) :
          e.dir = d /\ e.name = Entries(d)[k].name /\ k \in DOMAIN Entries(d)
    BY <2>2, NameIs
  <2>. QED
    BY <1>6, <2>1, <2>3
<1>13. ~\E e \in Names : e.ino = i
  <2>1. SUFFICES ASSUME NEW e \in Names, e.ino = i PROVE FALSE
    OBVIOUS
  <2>2. IsName(e)
    BY NamesAre
  <2>3. PICK d \in Formatted : \E k \in Places(d) : e.ino = Entries(d)[k].ino
    BY <2>2, NameIs
  <2>. QED
    BY <1>6, <2>1, <2>3 DEF Named
<1>14. p \in Tree!Dirs
  BY <1>4, <1>6, InTree
<1>15. Tree!Add(p, n, i, t)
  BY <1>6, <1>7, <1>11, <1>12, <1>13, <1>14 DEF Tree!Add
<1>. QED
  BY <1>6, <1>15 DEF Tree!Next

\* The unlinking write is the Remove of the tree.
LEMMA UnlinkRemoves == ASSUME IInv, IInv', Unlink PROVE Tree!Next
<1>1. PICK p \in Formatted : \E k \in Places(p) : Goes(p, k)
  BY UnlinkGoes
<1>2. PICK k \in Places(p) : Goes(p, k)
  BY <1>1
<1>3. PICK i, old : i = op.ino /\ old = NameAt(p, k)
  OBVIOUS
<1>4. Formatted' = Formatted
  BY <1>2, UnlinkFacts
<1>5. /\ \A d \in Formatted : \A l \in Places(d)' :
           \E o \in Places(d) : NameAt(d, l)' = NameAt(d, o) /\ ~(d = p /\ o = k)
      /\ \A d \in Formatted : \A o \in Places(d) : ~(d = p /\ o = k) =>
           \E l \in Places(d)' : NameAt(d, l)' = NameAt(d, o)
  BY <1>2, <1>3, UnlinkPlaces DEF NameAt
<1>6. ASSUME NEW d \in Formatted, NEW o \in Places(d) PROVE NameAt(d, o) = old <=> d = p /\ o = k
  <2>1. GoodName(p, k)
    BY DEF IInv, TreeOK
  <2>. QED
    BY <1>3, <2>1 DEF GoodName, NameAt
<1>7. ASSUME NEW e PROVE IsName(e)' <=> IsName(e) /\ e # old
  <2>1. ASSUME IsName(e)' PROVE IsName(e) /\ e # old
    <3>1. PICK d \in Formatted : \E l \in Places(d)' : e = NameAt(d, l)'
      BY <1>4, <2>1 DEF IsName
    <3>2. PICK l \in Places(d)' : e = NameAt(d, l)'
      BY <3>1
    <3>3. PICK o \in Places(d) : NameAt(d, l)' = NameAt(d, o) /\ ~(d = p /\ o = k)
      BY <1>5
    <3>. QED
      BY <1>6, <3>2, <3>3 DEF IsName
  <2>2. ASSUME IsName(e), e # old PROVE IsName(e)'
    <3>1. PICK d \in Formatted : \E o \in Places(d) : e = NameAt(d, o)
      BY <2>2 DEF IsName
    <3>2. PICK o \in Places(d) : e = NameAt(d, o)
      BY <3>1
    <3>3. ~(d = p /\ o = k)
      BY <1>3, <2>2, <3>2
    <3>4. PICK l \in Places(d)' : NameAt(d, l)' = NameAt(d, o)
      BY <1>5, <3>3
    <3>. QED
      BY <1>4, <3>2, <3>4 DEF IsName
  <2>. QED
    BY <2>1, <2>2
<1>8. Names' = Names \ {old}
  <2>1. \A e : (e \in Names <=> IsName(e)) /\ (e \in Names' <=> IsName(e)')
    BY NamesAre, NamesAreThen
  <2>. QED
    BY <1>7, <2>1
<1>9. old \in Names
  BY <1>3, NamesAre DEF IsName
<1>10. old.type = "reg"
  <2>1. op.pc = "free_blocks"
    BY DEF Unlink, At
  <2>2. inode[i].mode # "dir"
    BY <1>3, <2>1 DEF IInv, OpOK, At, Condemned
  <2>3. GoodName(p, k) /\ k \in DOMAIN Entries(p)
    BY DirFacts DEF IInv
  <2>4. Entries(p)[k].type \in {"dir", "reg"} /\ Entries(p)[k].ino = i
    BY <1>2, <1>3, <2>3, DirFacts DEF IInv, EntryType, Goes
  <2>. QED
    BY <1>3, <2>2, <2>3, <2>4 DEF GoodName, NameAt
<1>11. Tree!Remove(old)
  BY <1>8, <1>9, <1>10 DEF Tree!Remove
<1>. QED
  BY <1>9, <1>11 DEF Tree!Next

\* Every other step leaves the names as they are.
LEMMA StepTree == IInv /\ ReachOK /\ IInv' /\ [Next]_vars => [Tree!Next]_Names
<1>. SUFFICES ASSUME IInv, ReachOK, IInv', [Next]_vars PROVE [Tree!Next]_Names
  OBVIOUS
<1>1. CASE Link /\ Splits(op.parent)
  BY <1>1, LinkAdds
<1>2. CASE Unlink
  BY <1>2, UnlinkRemoves
<1>3. CASE WriteInode \/ WriteNewDir
  BY <1>3, WriteInodeKeeps, WriteNewDirKeeps, NamesStayed
<1>4. CASE UNCHANGED vars \/ BeginCreate \/ BeginRemove \/ Cd \/ Crash \/ AllocInode
           \/ AllocBlock \/ FreeBlock \/ FreeInode \/ (Link /\ ~Splits(op.parent))
  <2>1. inode' = inode /\ content' = content
    BY <1>4 DEF BeginCreate, BeginRemove, Cd, Crash, AllocInode, AllocBlock, FreeBlock,
                FreeInode, Link, Fail, vars, disk
  <2>. QED
    BY <2>1, QuietNames, NamesStayed
<1>. QED
  BY <1>1, <1>2, <1>3, <1>4 DEF Next, Step

LEMMA Invariants == Spec => [](IInv /\ ReachOK)
<1>1. Init => IInv /\ ReachOK
  BY InitIInv, InitReach
<1>2. IInv /\ ReachOK /\ [Next]_vars => (IInv /\ ReachOK)'
  BY StepIInv, StepReach
<1>. QED
  BY <1>1, <1>2, PTL DEF Spec

-----------------------------------------------------------------------------
(* The theorems: for any disk, any names and any sound image.              *)

\* The types, and the current directory is always one that has been
\* written, also after a crash (ext2.cpp lines 22, 203, 208).
THEOREM TypeCorrect == Spec => []TypeOK
<1>1. IInv => TypeOK
  BY Types
<1>. QED
  BY <1>1, Invariants, PTL

\* No name ever dangles, whatever the command, the write it has reached and
\* the number of power losses (the order of writes in mkdir, touch and rm).
THEOREM NeverDangle == Spec => []NamesLive
<1>1. IInv => NamesLive
  BY Live
<1>. QED
  BY <1>1, Invariants, PTL

\* Every name there is can be listed and found (ext2_ls, ext2_find_in_dir,
\* lines 170-188 and 258-270).
THEOREM AllShown == Spec => []LsShowsAll
<1>1. IInv => LsShowsAll
  BY Shows
<1>. QED
  BY <1>1, Invariants, PTL

\* No two things that have a name share a block, and what a name leads to
\* is in blocks that are allocated (the two bitmaps, lines 275-345).
THEOREM OneOwnerEach == Spec => []OwnedOnce
<1>1. IInv => OwnedOnce
  BY OneOwner
<1>. QED
  BY <1>1, Invariants, PTL

\* An entry that does not fit is the only thing that can go wrong with the
\* layout of a directory: as long as there is none, the entries tile every
\* directory block, . first and no name twice (link and unlink, lines
\* 356-378 and 566-584).
THEOREM TiledWhileFitting == Spec => [](DirsWellFormed <=> EntriesFit)
<1>1. IInv => (DirsWellFormed <=> EntriesFit)
  BY WellFormed
<1>. QED
  BY <1>1, Invariants, PTL

\* For the user every command is atomic, and so is every command a power
\* loss cuts short: the names change in the one write that links or unlinks.
THEOREM AtomicNames == Spec => NamespaceSpec
<1>1. Init => Tree!Init
  BY InitTree
<1>. QED
  BY <1>1, Invariants, StepTree, PTL DEF Spec, NamespaceSpec, Tree!Spec
-----------------------------------------------------------------------------
(* What is taken and leads to no name: what the command in progress holds, *)
(* and what a command that was cut short has left.                         *)

HeldInodes == IF op.pc \in {"alloc_block", "write_inode", "write_dir", "link", "free_inode"}
              THEN {op.ino} ELSE {}

HeldBlocks == IF op.kind = "mkdir" /\ op.blocks # <<>> THEN {op.blocks[1]} ELSE {}

UsedBlocks == UNION {Blocks(i) : i \in Used}

LostInodes == (inode_bitmap \ Used) \ HeldInodes
LostBlocks == (block_bitmap \ UsedBlocks) \ HeldBlocks

\* What is held will be owned, or has been given back, when the name changes.
HeldOK == /\ At("link") => HeldBlocks \subseteq Blocks(op.ino)
          /\ At("free_blocks") =>
               \A b \in Blocks(op.ino) \cap block_bitmap : \E k \in DOMAIN op.blocks : b = op.blocks[k]

LeakOK == /\ HeldOK
          /\ Cardinality(LostInodes) <= cut /\ Cardinality(LostBlocks) <= cut

NothingLost == LostInodes' \subseteq LostInodes /\ LostBlocks' \subseteq LostBlocks /\ cut' = cut

OneLost == /\ \E i : LostInodes' \subseteq LostInodes \cup {i}
           /\ \E b : LostBlocks' \subseteq LostBlocks \cup {b}
           /\ cut' = cut + 1

\* Counting a set that grows by one element at most.
LEMMA OneMore ==
  ASSUME NEW S, IsFiniteSet(S), NEW n \in Nat, Cardinality(S) <= n, NEW T
  PROVE  /\ T \subseteq S => Cardinality(T) <= n
         /\ \A x : T \subseteq S \cup {x} => Cardinality(T) <= n + 1
<1>1. Cardinality(S) \in Nat
  BY FS_CardinalityType
<1>2. ASSUME T \subseteq S PROVE Cardinality(T) <= n
  <2>1. Cardinality(T) \in Nat /\ Cardinality(T) <= Cardinality(S)
    BY <1>2, FS_Subset, FS_CardinalityType
  <2>. QED
    BY <1>1, <2>1
<1>3. ASSUME NEW x, T \subseteq S \cup {x} PROVE Cardinality(T) <= n + 1
  <2>1. /\ IsFiniteSet(S \cup {x})
        /\ Cardinality(S \cup {x}) = IF x \in S THEN Cardinality(S) ELSE Cardinality(S) + 1
    BY FS_AddElement
  <2>2. Cardinality(T) <= Cardinality(S \cup {x}) /\ Cardinality(T) \in Nat
    BY <1>3, <2>1, FS_Subset, FS_CardinalityType
  <2>. QED
    BY <1>1, <2>1, <2>2
<1>. QED
  BY <1>2, <1>3

\* Losing nothing, or one inode and one block per command cut short.
LEMMA LossCounts == ASSUME IInv, LeakOK, NothingLost \/ OneLost, HeldOK' PROVE LeakOK'
<1>1. IsFiniteSet(LostInodes) /\ IsFiniteSet(LostBlocks) /\ cut \in Nat
  <2>1. LostInodes \subseteq Inode /\ LostBlocks \subseteq Block /\ cut \in Nat
    BY DEF IInv, DiskTypes, LostInodes, LostBlocks
  <2>. QED
    BY <2>1, NumberAssumption, FS_Subset
<1>2. Cardinality(LostInodes) <= cut /\ Cardinality(LostBlocks) <= cut
  BY DEF LeakOK
<1>3. PICK S, T : S = LostInodes' /\ T = LostBlocks'
  OBVIOUS
<1>4. CASE NothingLost
  <2>1. Cardinality(S) <= cut /\ Cardinality(T) <= cut
    BY <1>1, <1>2, <1>3, <1>4, OneMore DEF NothingLost
  <2>. QED
    BY <1>3, <1>4, <2>1 DEF NothingLost, LeakOK
<1>5. CASE OneLost
  <2>1. Cardinality(S) <= cut + 1 /\ Cardinality(T) <= cut + 1
    BY <1>1, <1>2, <1>3, <1>5, OneMore DEF OneLost
  <2>. QED
    BY <1>3, <1>5, <2>1 DEF OneLost, LeakOK
<1>. QED
  BY <1>4, <1>5

LEMMA UsedIsThen == IInv' => \A i : i \in Used' <=> i = Root \/ Named(i)'
<1>1. IInv => \A i : i \in Used <=> i = Root \/ Named(i)
  BY UsedIs
<1>2. (IInv => \A i : i \in Used <=> i = Root \/ Named(i))'
  BY <1>1, PTL
<1>. QED
  BY <1>2

LEMMA UsedStays ==
  ASSUME IInv, IInv', NamesStay, \A i \in Used : Blocks(i)' = Blocks(i)
  PROVE  Used' = Used /\ UsedBlocks' = UsedBlocks
<1>1. Used' = Used
  BY UsedIs, UsedIsThen DEF NamesStay
<1>. QED
  BY <1>1 DEF UsedBlocks

\* A sound image has lost nothing.
LEMMA InitLeak == ASSUME Init PROVE LeakOK
<1>1. /\ \A i : i \in inode_bitmap <=> i = Root \/ \E d \in Dirs : \E k \in Places(d) : Entries(d)[k].ino = i
      /\ block_bitmap = UNION {Blocks(i) : i \in inode_bitmap}
      /\ \A d \in Dirs : Len(Entries(d)) > 1
  BY InitFacts
<1>2. op = Idle /\ cut = 0
  BY DEF Init
<1>3. Formatted = Dirs
  <2>1. \A d \in Dirs : Entries(d) # <<>>
    <3>1. Len(<<>>) = 0
      OBVIOUS
    <3>. QED
      BY <1>1, <3>1
  <2>. QED
    BY <2>1 DEF Formatted
<1>4. inode_bitmap = Used
  BY <1>1, <1>3, InitIInv, UsedIs DEF Named
<1>5. LostInodes = {} /\ LostBlocks = {}
  BY <1>1, <1>4 DEF LostInodes, LostBlocks, UsedBlocks
<1>. QED
  BY <1>2, <1>5, FS_EmptySet DEF LeakOK, HeldOK, At, Idle

\* A step that writes neither an inode nor a directory.
LEMMA QuietUsed ==
  ASSUME IInv, IInv', inode' = inode, content' = content
  PROVE  Used' = Used /\ UsedBlocks' = UsedBlocks
BY QuietNames, SameTree, UsedStays

\* A command that is cut short loses what it holds.
LEMMA GiveUpLoses ==
  ASSUME IInv, IInv', op' = Idle, cut' = cut + 1, UNCHANGED disk
  PROVE  OneLost
<1>1. Used' = Used /\ UsedBlocks' = UsedBlocks
  BY QuietUsed DEF disk
<1>2. LostInodes' \subseteq LostInodes \cup {op.ino}
  BY <1>1 DEF LostInodes, HeldInodes, disk
<1>3. LostBlocks' \subseteq LostBlocks \cup {op.blocks[1]}
  BY <1>1 DEF LostBlocks, HeldBlocks, disk
<1>. QED
  BY <1>2, <1>3 DEF OneLost

\* What the quiet steps hold and lose.
LEMMA QuietLoses ==
  ASSUME IInv, IInv', LeakOK,
         \/ UNCHANGED vars \/ BeginCreate \/ BeginRemove \/ Cd \/ Crash
         \/ AllocInode \/ AllocBlock \/ FreeBlock \/ FreeInode
  PROVE  NothingLost \/ OneLost
<1>1. inode' = inode /\ content' = content
  BY DEF BeginCreate, BeginRemove, Cd, Crash, AllocInode, AllocBlock, FreeBlock, FreeInode, Fail,
         vars, disk
<1>2. Used' = Used /\ UsedBlocks' = UsedBlocks
  BY <1>1, QuietUsed
<1>3. OpType
  BY DEF IInv, OpOK
<1>4. CASE UNCHANGED vars \/ Cd
  <2>1. op' = op /\ cut' = cut /\ inode_bitmap' = inode_bitmap /\ block_bitmap' = block_bitmap
    BY <1>4 DEF Cd, vars, disk
  <2>. QED
    BY <1>2, <2>1 DEF NothingLost, LostInodes, LostBlocks, HeldInodes, HeldBlocks
<1>5. CASE BeginCreate \/ BeginRemove
  <2>1. /\ op = Idle /\ cut' = cut
        /\ inode_bitmap' = inode_bitmap /\ block_bitmap' = block_bitmap
    BY <1>5 DEF BeginCreate, BeginRemove, disk, At, IInv, OpOK
  <2>. QED
    BY <1>2, <2>1 DEF NothingLost, LostInodes, LostBlocks, HeldInodes, HeldBlocks, Idle
<1>6. CASE Crash
  <2>1. op' = Idle /\ UNCHANGED disk
    BY <1>6 DEF Crash
  <2>2. CASE At("idle")
    <3>1. op = Idle /\ cut' = cut
      BY <1>6, <2>2 DEF Crash, IInv, OpOK
    <3>. QED
      BY <1>2, <2>1, <3>1 DEF NothingLost, LostInodes, LostBlocks, HeldInodes, HeldBlocks, disk
  <2>3. CASE ~At("idle")
    <3>1. cut' = cut + 1
      BY <1>6, <2>3 DEF Crash
    <3>. QED
      BY <2>1, <3>1, GiveUpLoses
  <2>. QED
    BY <2>2, <2>3
<1>7. CASE AllocInode
  <2>1. op.pc = "alloc_inode" /\ op.blocks = <<>>
    BY <1>7 DEF AllocInode, At, IInv, OpOK
  <2>2. CASE FreeInodes # {}
    <3>1. PICK i : /\ inode_bitmap' = inode_bitmap \cup {i} /\ block_bitmap' = block_bitmap
                   /\ op'.ino = i /\ op'.pc \in {"alloc_block", "write_inode"}
                   /\ op'.kind = op.kind /\ op'.blocks = op.blocks /\ cut' = cut
      BY <1>3, <1>7, <2>2 DEF AllocInode, OpType, MarkInode
    <3>2. HeldInodes' = {i}
      BY <3>1 DEF HeldInodes
    <3>. QED
      BY <1>2, <2>1, <3>1, <3>2 DEF NothingLost, LostInodes, LostBlocks, HeldInodes, HeldBlocks
  <2>3. CASE FreeInodes = {}
    <3>1. op' = Idle /\ UNCHANGED disk /\ cut' = cut
      BY <1>7, <2>3 DEF AllocInode
    <3>. QED
      BY <1>2, <2>1, <3>1 DEF NothingLost, LostInodes, LostBlocks, HeldInodes, HeldBlocks, Idle, disk
  <2>. QED
    BY <2>2, <2>3
<1>8. CASE AllocBlock
  <2>1. op.pc = "alloc_block" /\ op.blocks = <<>> /\ op.kind = "mkdir"
    BY <1>8 DEF AllocBlock, At, IInv, OpOK, Creating
  <2>2. CASE FreeBlocks # {}
    <3>1. PICK b : /\ block_bitmap' = block_bitmap \cup {b} /\ inode_bitmap' = inode_bitmap
                   /\ op'.blocks = <<b>> /\ op'.pc = "write_inode"
                   /\ op'.kind = op.kind /\ op'.ino = op.ino /\ cut' = cut
      BY <1>3, <1>8, <2>2 DEF AllocBlock, OpType, MarkBlock
    <3>2. HeldBlocks' = {b} /\ HeldInodes' = HeldInodes
      BY <2>1, <3>1 DEF HeldBlocks, HeldInodes
    <3>. QED
      BY <1>2, <2>1, <3>1, <3>2 DEF NothingLost, LostInodes, LostBlocks, HeldBlocks
  <2>3. CASE FreeBlocks = {}
    BY <1>8, <2>3, GiveUpLoses DEF AllocBlock, Fail
  <2>. QED
    BY <2>2, <2>3
<1>9. CASE FreeBlock
  <2>1. /\ op.pc = "free_blocks" /\ op.kind = "rm" /\ cut' = cut
        /\ op'.pc = op.pc /\ op'.kind = op.kind
        /\ inode_bitmap' = inode_bitmap /\ block_bitmap' \subseteq block_bitmap
    BY <1>3, <1>9 DEF FreeBlock, ClearBit, At, IInv, OpOK, OpType, Condemned
  <2>. QED
    BY <1>2, <2>1 DEF NothingLost, LostInodes, LostBlocks, HeldInodes, HeldBlocks
<1>10. CASE FreeInode
  <2>1. /\ op.pc = "free_inode" /\ op.kind = "rm" /\ op' = Idle /\ cut' = cut
        /\ inode_bitmap' = inode_bitmap \ {op.ino} /\ block_bitmap' = block_bitmap
    BY <1>10 DEF FreeInode, ClearBit, At, IInv, OpOK
  <2>. QED
    BY <1>2, <2>1 DEF NothingLost, LostInodes, LostBlocks, HeldInodes, HeldBlocks
<1>. QED
  BY <1>4, <1>5, <1>6, <1>7, <1>8, <1>9, <1>10

\* rm frees the blocks of its file one by one.
LEMMA QuietHolds ==
  ASSUME IInv, IInv', LeakOK,
         \/ UNCHANGED vars \/ BeginCreate \/ BeginRemove \/ Cd \/ Crash
         \/ AllocInode \/ AllocBlock \/ FreeBlock \/ FreeInode
  PROVE  HeldOK'
<1>1. inode' = inode /\ content' = content
  BY DEF BeginCreate, BeginRemove, Cd, Crash, AllocInode, AllocBlock, FreeBlock, FreeInode, Fail,
         vars, disk
<1>2. OpType /\ \A i : Blocks(i)' = Blocks(i)
  BY <1>1, SameTree DEF IInv, OpOK
<1>3. CASE UNCHANGED vars \/ Cd
  <2>1. op' = op /\ block_bitmap' = block_bitmap
    BY <1>3 DEF Cd, vars, disk
  <2>2. PICK i : i = op.ino
    OBVIOUS
  <2>. QED
    BY <1>2, <2>1, <2>2 DEF LeakOK, HeldOK, HeldBlocks, At
<1>4. CASE BeginCreate \/ Crash \/ AllocInode \/ AllocBlock \/ FreeInode
  <2>1. CASE BeginCreate
    BY <2>1 DEF BeginCreate, Idle, HeldOK, At
  <2>2. ASSUME op' = Idle PROVE HeldOK'
    BY <2>2 DEF Idle, HeldOK, At
  <2>3. CASE AllocInode
    <3>1. op' = Idle \/ op'.pc \in {"alloc_block", "write_inode"}
      BY <1>2, <2>3 DEF AllocInode, OpType
    <3>. QED
      BY <2>2, <3>1 DEF HeldOK, At
  <2>4. CASE AllocBlock
    <3>1. op' = Idle \/ op'.pc = "write_inode"
      BY <1>2, <2>4 DEF AllocBlock, Fail, OpType
    <3>. QED
      BY <2>2, <3>1 DEF HeldOK, At
  <2>. QED
    BY <1>4, <2>1, <2>2, <2>3, <2>4 DEF Crash, FreeInode
<1>5. CASE BeginRemove
  <2>1. PICK t : /\ op'.pc = "free_blocks" /\ op'.ino = t /\ op'.blocks = inode[t].blocks
    BY <1>5 DEF BeginRemove, Idle
  <2>. QED
    BY <1>1, <2>1 DEF HeldOK, At, Blocks
<1>6. CASE FreeBlock
  <2>1. PICK i, h, bs : i = op.ino /\ h = Head(op.blocks) /\ bs = op.blocks
    OBVIOUS
  <2>2. /\ op.pc = "free_blocks" /\ bs # <<>> /\ bs \in Seq(Block)
        /\ op'.pc = "free_blocks" /\ op'.ino = i /\ op'.blocks = Tail(bs)
        /\ block_bitmap' = block_bitmap \ {h}
    BY <1>2, <1>6, <2>1 DEF FreeBlock, ClearBit, At, OpType
  <2>3. \A b \in Blocks(i) \cap block_bitmap : \E k \in DOMAIN bs : b = bs[k]
    BY <2>1, <2>2 DEF LeakOK, HeldOK, At
  <2>4. ASSUME NEW b \in Blocks(i) \cap block_bitmap, b # h
        PROVE  \E k \in DOMAIN Tail(bs) : b = Tail(bs)[k]
    <3>1. PICK k \in DOMAIN bs : b = bs[k]
      BY <2>3
    <3>2. k - 1 \in DOMAIN Tail(bs) /\ Tail(bs)[k - 1] = bs[k]
      BY <2>1, <2>2, <2>4, <3>1
    <3>. QED
      BY <3>1, <3>2
  <2>. QED
    BY <1>2, <2>2, <2>4 DEF HeldOK, At
<1>. QED
  BY <1>3, <1>4, <1>5, <1>6

LEMMA WriteInodeLeak == ASSUME IInv, IInv', LeakOK, WriteInode PROVE LeakOK'
<1>1. /\ op.pc = "write_inode" /\ OpType /\ Fresh(op.ino)
      /\ block_bitmap' = block_bitmap /\ inode_bitmap' = inode_bitmap /\ cut' = cut
  BY DEF WriteInode, At, IInv, OpOK
<1>2. /\ op'.kind = op.kind /\ op'.ino = op.ino /\ op'.blocks = op.blocks
      /\ op'.pc = IF op.kind = "mkdir" THEN "write_dir" ELSE "link"
  BY <1>1 DEF WriteInode, OpType
<1>3. NamesStay
  BY WriteInodeKeeps
<1>4. ASSUME NEW i \in Used PROVE Blocks(i)' = Blocks(i)
  <2>1. i = Root \/ Named(i)
    BY UsedIs
  <2>2. i # op.ino
    BY <1>1, <2>1 DEF Fresh, Owner
  <2>3. inode \in [Inode -> InodeType]
    BY DEF IInv, DiskTypes
  <2>. QED
    BY <2>2, <2>3 DEF WriteInode, ext2_write_inode, Blocks
<1>5. Used' = Used /\ UsedBlocks' = UsedBlocks
  BY <1>3, <1>4, UsedStays
<1>6. NothingLost
  BY <1>1, <1>2, <1>5 DEF NothingLost, LostInodes, LostBlocks, HeldInodes, HeldBlocks
<1>7. HeldOK'
  BY <1>2 DEF HeldOK, At, HeldBlocks
<1>. QED
  BY <1>6, <1>7, LossCounts

LEMMA WriteNewDirLeak == ASSUME IInv, IInv', LeakOK, WriteNewDir PROVE LeakOK'
<1>1. /\ op.pc = "write_dir" /\ OpType /\ inode' = inode
      /\ block_bitmap' = block_bitmap /\ inode_bitmap' = inode_bitmap /\ cut' = cut
  BY DEF WriteNewDir, At, IInv, OpOK
<1>2. /\ op'.kind = op.kind /\ op'.ino = op.ino /\ op'.blocks = op.blocks /\ op'.pc = "link"
  BY <1>1 DEF WriteNewDir, OpType
<1>3. Used' = Used /\ UsedBlocks' = UsedBlocks
  BY <1>1, WriteNewDirKeeps, UsedStays DEF Blocks
<1>4. NothingLost
  BY <1>1, <1>2, <1>3 DEF NothingLost, LostInodes, LostBlocks, HeldInodes, HeldBlocks
<1>5. HeldOK'
  <2>1. PICK b \in Block : op.blocks = <<b>> /\ inode[op.ino].blocks = <<b>>
    BY <1>1 DEF IInv, OpOK, At
  <2>2. HeldBlocks' \subseteq {b}
    BY <1>2, <2>1 DEF HeldBlocks
  <2>3. inode'[op'.ino].blocks = <<b>>
    BY <1>1, <1>2, <2>1
  <2>4. b \in {inode'[op'.ino].blocks[k] : k \in DOMAIN inode'[op'.ino].blocks}
    BY <2>3
  <2>. QED
    BY <1>2, <2>2, <2>4 DEF HeldOK, At, Blocks
<1>. QED
  BY <1>4, <1>5, LossCounts

\* The name makes used what mkdir and touch held.
LEMMA LinkLeak == ASSUME IInv, IInv', LeakOK, Link PROVE LeakOK'
<1>1. op.pc = "link" /\ op' = Idle
  BY DEF Link, Fail, At
<1>2. HeldOK'
  BY <1>1 DEF HeldOK, At, Idle
<1>3. CASE ~Splits(op.parent)
  BY <1>2, <1>3, GiveUpLoses, LossCounts DEF Link, Fail
<1>4. CASE Splits(op.parent)
  <2>1. PICK p, i : p = op.parent /\ i = op.ino
    OBVIOUS
  <2>2. PICK m : m = Len(Entries(p)) + 1
    OBVIOUS
  <2>3. /\ UNCHANGED <<inode_bitmap, block_bitmap, inode, cut>>
        /\ \A j : Blocks(j)' = Blocks(j)
    BY <1>4, <2>1, LinkFacts
  <2>4. \A j : Named(j)' <=> Named(j) \/ j = i
    BY <1>4, <2>1, <2>2, LinkPlaces
  <2>5. Used' = Used \cup {i}
    BY <2>4, UsedIs, UsedIsThen
  <2>6. UsedBlocks' = UsedBlocks \cup Blocks(i)
    BY <2>3, <2>5 DEF UsedBlocks
  <2>7. HeldInodes = {i} /\ HeldInodes' = {} /\ HeldBlocks \subseteq Blocks(i) /\ HeldBlocks' = {}
    BY <1>1, <2>1 DEF HeldInodes, HeldBlocks, Idle, LeakOK, HeldOK, At
  <2>8. NothingLost
    BY <2>3, <2>5, <2>6, <2>7 DEF NothingLost, LostInodes, LostBlocks
  <2>. QED
    BY <1>2, <2>8, LossCounts
<1>. QED
  BY <1>3, <1>4

\* All blocks of the file are free when its name goes.
LEMMA UnlinkLeak == ASSUME IInv, IInv', LeakOK, Unlink PROVE LeakOK'
<1>1. /\ op.pc = "free_blocks" /\ OpType /\ op.blocks = <<>> /\ op.kind = "rm"
  BY DEF Unlink, At, IInv, OpOK, Condemned
<1>2. op'.pc = "free_inode" /\ op'.ino = op.ino /\ op'.kind = op.kind
  BY <1>1 DEF Unlink, OpType
<1>3. PICK p \in Formatted : \E k \in Places(p) : Goes(p, k)
  BY UnlinkGoes
<1>4. PICK k \in Places(p) : Goes(p, k)
  BY <1>3
<1>5. PICK i : i = op.ino
  OBVIOUS
<1>6. /\ UNCHANGED <<inode_bitmap, block_bitmap, inode, cut>>
      /\ \A j : Blocks(j)' = Blocks(j)
  BY <1>4, UnlinkFacts
<1>7. \A j : Named(j)' <=> Named(j) /\ j # i
  BY <1>4, <1>5, UnlinkPlaces
<1>8. Used \subseteq Used' \cup {i}
  BY <1>7, UsedIs, UsedIsThen
<1>9. UsedBlocks \subseteq UsedBlocks' \cup Blocks(i)
  BY <1>6, <1>8 DEF UsedBlocks
<1>10. Blocks(i) \cap block_bitmap = {}
  BY <1>1, <1>5 DEF LeakOK, HeldOK, At
<1>11. HeldInodes = {} /\ HeldInodes' = {i} /\ HeldBlocks = {} /\ HeldBlocks' = {}
  BY <1>1, <1>2, <1>5 DEF HeldInodes, HeldBlocks
<1>12. NothingLost
  BY <1>6, <1>8, <1>9, <1>10, <1>11 DEF NothingLost, LostInodes, LostBlocks
<1>13. HeldOK'
  BY <1>2 DEF HeldOK, At
<1>. QED
  BY <1>12, <1>13, LossCounts

LEMMA StepLeak == IInv /\ IInv' /\ LeakOK /\ [Next]_vars => LeakOK'
<1>. SUFFICES ASSUME IInv, IInv', LeakOK, [Next]_vars PROVE LeakOK'
  OBVIOUS
<1>1. CASE \/ UNCHANGED vars \/ BeginCreate \/ BeginRemove \/ Cd \/ Crash
           \/ AllocInode \/ AllocBlock \/ FreeBlock \/ FreeInode
  BY <1>1, QuietLoses, QuietHolds, LossCounts
<1>. QED
  BY <1>1, WriteInodeLeak, WriteNewDirLeak, LinkLeak, UnlinkLeak DEF Next, Step

LEMMA Leaks == ASSUME IInv, LeakOK PROVE LeakBound
<1>. SUFFICES ASSUME At("idle")
              PROVE  /\ Cardinality(inode_bitmap \ Used) <= cut
                     /\ Cardinality(block_bitmap \ UNION {Blocks(i) : i \in Used}) <= cut
  BY DEF LeakBound
<1>1. op = Idle
  BY DEF IInv, OpOK
<1>2. HeldInodes = {} /\ HeldBlocks = {}
  BY <1>1 DEF HeldInodes, HeldBlocks, Idle
<1>3. LostInodes = inode_bitmap \ Used /\ LostBlocks = block_bitmap \ UsedBlocks
  BY <1>2 DEF LostInodes, LostBlocks
<1>. QED
  BY <1>3 DEF LeakOK, UsedBlocks

\* Between commands, the inodes and blocks that are allocated and lead to no
\* name are at most as many as the commands that were cut short, by a power
\* loss or by an error after an allocation.
THEOREM LeaksCounted == Spec => []LeakBound
<1>1. Init => LeakOK
  BY InitLeak
<1>2. Spec => []LeakOK
  BY <1>1, StepLeak, Invariants, PTL DEF Spec
<1>3. IInv /\ LeakOK => LeakBound
  BY Leaks
<1>. QED
  BY <1>2, <1>3, Invariants, PTL

-----------------------------------------------------------------------------
(* The path the prompt shows: a trail of directories from the root.        *)

\* Name n in directory d is directory e.
Leads(d, n, e) == \E k \in Places(d) : /\ Entries(d)[k].name = n /\ Entries(d)[k].ino = e
                                       /\ Entries(d)[k].type = "dir"

\* The directories a series of names leads through.
Trail(d, names, w) ==
  /\ w \in [1 .. Len(names) + 1 -> Formatted] /\ w[1] = d
  /\ \A k \in 1 .. Len(names) : Leads(w[k], names[k], w[k + 1])

PromptOK ==
  /\ g_current_path \in Seq(Name) /\ Entries(Root)[2].ino = Root
  /\ \E w : Trail(Root, g_current_path, w) /\ w[Len(g_current_path) + 1] = g_current_dir

\* A directory has the name that leads to it nowhere else, and its .. leads back.
LEMMA LeadsFacts ==
  ASSUME IInv, NEW d \in Formatted, NEW n, NEW e, Leads(d, n, e)
  PROVE  /\ e \in Formatted /\ Entries(e)[2].ino = d
         /\ Find(d, n).ino = e /\ Find(d, n).type = "dir"
<1>1. PICK k \in Places(d) : /\ Entries(d)[k].name = n /\ Entries(d)[k].ino = e
                             /\ Entries(d)[k].type = "dir"
  BY DEF Leads
<1>2. k \in DOMAIN Entries(d) /\ GoodName(d, k)
  BY DirFacts DEF IInv
<1>3. Find(d, n) = Entries(d)[k]
  BY <1>1, <1>2, FindIs DEF IInv
<1>. QED
  BY <1>1, <1>2, <1>3 DEF GoodName

\* What is found under a name the user made is led to by it.
LEMMA FindLeads ==
  ASSUME IInv, NEW d \in Formatted, NEW n \in Name, Find(d, n).ino # 0,
         Find(d, n).type = "dir" \/ inode[Find(d, n).ino].mode = "dir"
  PROVE  Leads(d, n, Find(d, n).ino)
<1>1. PICK k \in DOMAIN Entries(d) : Entries(d)[k].name = n /\ Find(d, n) = Entries(d)[k]
  BY FindIs DEF IInv, Entry
<1>2. (k = 1 \/ k = 2 \/ k \in Places(d)) /\ GoodDir(d)
  BY DirFacts DEF IInv
<1>3. k # 1 /\ k # 2
  BY <1>1, <1>2, NameAssumption DEF GoodDir
<1>4. k \in Places(d) /\ GoodName(d, k)
  BY <1>2, <1>3 DEF IInv, TreeOK
<1>5. Entries(d)[k].type = "dir"
  BY <1>1, <1>4 DEF GoodName
<1>. QED
  BY <1>1, <1>4, <1>5 DEF Leads

\* A walk along names that ends somewhere was on a trail all the way.
LEMMA WalkTrail ==
  ASSUME IInv, NEW path, path.comps \in Seq(Name), NEW start,
         start = IF path.abs THEN Root ELSE g_current_dir,
         Walk(path, g_current_dir)[Len(path.comps) + 1] # 0
  PROVE  \E u : /\ Trail(start, path.comps, u)
                /\ u[Len(path.comps) + 1] = Walk(path, g_current_dir)[Len(path.comps) + 1]
<1> DEFINE n == Len(path.comps)
           w == Walk(path, g_current_dir)
<1>1. /\ n \in Nat /\ Root \in Formatted /\ g_current_dir \in Formatted /\ start \in Formatted
      /\ 0 \notin Formatted /\ \A k \in 1 .. n : path.comps[k] \in Name
  BY NumberAssumption DEF IInv, TreeOK, ShellOK, Formatted, Dirs
<1>2. \A d \in Formatted : \A c : Find(d, c).type = "dir" => Find(d, c).ino \in Formatted
  BY FindDir DEF IInv
<1>3. \A k \in 1 .. n + 1 : w[k] = IF k = 1 THEN start ELSE WalkStep(w[k - 1], path.comps[k - 1])
  BY <1>1, <1>2, WalkGoes
<1>4. w[n + 1] # 0
  OBVIOUS
<1>. HIDE DEF w, n
<1>5. w[1] = start /\ \A k \in 1 .. n : w[k + 1] = WalkStep(w[k], path.comps[k])
  <2>1. 1 \in 1 .. n + 1 /\ \A k \in 1 .. n : k + 1 \in 1 .. n + 1 /\ k + 1 # 1 /\ (k + 1) - 1 = k
    BY <1>1
  <2>. QED
    BY <1>3, <2>1
<1>6. \A j \in 0 .. n : w[n + 1 - j] # 0
  <2> DEFINE bad == {j \in 0 .. n : w[n + 1 - j] = 0}
  <2>1. SUFFICES ASSUME bad # {} PROVE FALSE
    OBVIOUS
  <2>2. PICK j \in bad : \A i \in bad : j <= i
    <3>1. bad \subseteq Nat
      OBVIOUS
    <3>. HIDE DEF bad
    <3>. QED
      BY <2>1, <3>1, LowestIs
  <2>3. j \in 0 .. n /\ w[n + 1 - j] = 0
    BY <2>2
  <2>4. j # 0
    BY <1>1, <1>4, <2>3
  <2>5. j - 1 \in 0 .. n /\ n + 1 - j \in 1 .. n /\ (n + 1 - j) + 1 = n + 1 - (j - 1) /\ ~(j <= j - 1)
    BY <1>1, <2>3, <2>4
  <2>6. j - 1 \notin bad
    <3>. HIDE DEF bad
    <3>. QED
      BY <2>2, <2>5
  <2>7. w[n + 1 - (j - 1)] # 0
    BY <2>5, <2>6
  <2>8. w[(n + 1 - j) + 1] = 0
    <3>1. WalkStep(0, path.comps[n + 1 - j]) = 0
      BY DEF WalkStep
    <3>. QED
      BY <1>5, <2>3, <2>5, <3>1
  <2>. QED
    BY <2>5, <2>7, <2>8
<1>7. \A k \in 1 .. n + 1 : w[k] # 0
  <2>. SUFFICES ASSUME NEW k \in 1 .. n + 1 PROVE w[k] # 0
    OBVIOUS
  <2>1. PICK j \in 0 .. n : k = n + 1 - j
    <3>1. n + 1 - k \in 0 .. n /\ k = n + 1 - (n + 1 - k)
      BY <1>1
    <3>. QED
      BY <3>1
  <2>. QED
    BY <1>6, <2>1
<1>8. \A k \in 1 .. n + 1 : w[k] \in Formatted
  <2> DEFINE bad == {k \in 1 .. n + 1 : w[k] \notin Formatted}
  <2>1. SUFFICES ASSUME bad # {} PROVE FALSE
    OBVIOUS
  <2>2. PICK k \in bad : \A i \in bad : k <= i
    <3>1. bad \subseteq Nat
      OBVIOUS
    <3>. HIDE DEF bad
    <3>. QED
      BY <2>1, <3>1, LowestIs
  <2>3. k \in 1 .. n + 1 /\ w[k] \notin Formatted
    BY <2>2
  <2>4. k # 1
    BY <1>1, <1>5, <2>3
  <2>5. k - 1 \in 1 .. n /\ k - 1 \in 1 .. n + 1 /\ (k - 1) + 1 = k /\ ~(k <= k - 1)
    BY <1>1, <2>3, <2>4
  <2>6. w[k - 1] \in Formatted
    <3>1. k - 1 \notin bad
      <4>. HIDE DEF bad
      <4>. QED
        BY <2>2, <2>5
    <3>. QED
      BY <2>5, <3>1
  <2>7. w[k] = WalkStep(w[k - 1], path.comps[k - 1]) /\ w[k] # 0
    BY <1>5, <1>7, <2>3, <2>5
  <2>8. w[k] \in Formatted
    BY <1>2, <2>6, <2>7 DEF WalkStep
  <2>. QED
    BY <2>3, <2>8
<1>9. ASSUME NEW k \in 1 .. n PROVE Leads(w[k], path.comps[k], w[k + 1])
  <2>1. k \in 1 .. n + 1 /\ k + 1 \in 1 .. n + 1
    BY <1>1
  <2>2. w[k] \in Formatted /\ w[k] # 0 /\ w[k + 1] # 0 /\ w[k + 1] = WalkStep(w[k], path.comps[k])
    BY <1>5, <1>7, <1>8, <2>1
  <2>3. w[k + 1] = Find(w[k], path.comps[k]).ino /\ Find(w[k], path.comps[k]).type = "dir"
    BY <2>2 DEF WalkStep
  <2>. QED
    BY <1>1, <2>2, <2>3, FindLeads
<1> DEFINE u == [k \in 1 .. n + 1 |-> w[k]]
<1>10. Trail(start, path.comps, u) /\ u[n + 1] = w[n + 1]
  <2>1. u \in [1 .. n + 1 -> Formatted] /\ n + 1 \in 1 .. n + 1 /\ 1 \in 1 .. n + 1
    BY <1>1, <1>8
  <2>2. \A k \in 1 .. n : u[k] = w[k] /\ u[k + 1] = w[k + 1]
    BY <1>1
  <2>. QED
    BY <1>5, <1>9, <2>1, <2>2 DEF Trail, n
<1>. QED
  BY <1>10 DEF n, w

\* A path of names leads where its trail does.
LEMMA TrailTarget ==
  ASSUME IInv, NEW names \in Seq(Name), NEW w, Trail(Root, names, w)
  PROVE  Target([abs |-> TRUE, comps |-> names]) = w[Len(names) + 1]
<1> DEFINE n == Len(names)
           path == [abs |-> TRUE, comps |-> names]
           v == Walk(path, g_current_dir)
<1>1. /\ n \in Nat /\ Root \in Formatted /\ g_current_dir \in Formatted
      /\ 0 \notin Formatted /\ path.comps = names /\ path.abs
  BY NumberAssumption DEF IInv, TreeOK, ShellOK, Formatted, Dirs
<1>2. \A d \in Formatted : \A c : Find(d, c).type = "dir" => Find(d, c).ino \in Formatted
  BY FindDir DEF IInv
<1>3. \A k \in 1 .. n + 1 : v[k] = IF k = 1 THEN Root ELSE WalkStep(v[k - 1], names[k - 1])
  <2>. HIDE DEF path
  <2>. QED
    BY <1>1, <1>2, WalkGoes
<1>. HIDE DEF v, n, path
<1>4. /\ w[1] = Root /\ \A k \in 1 .. n + 1 : w[k] \in Formatted
      /\ \A k \in 1 .. n : Leads(w[k], names[k], w[k + 1])
  BY DEF Trail, n
<1>5. \A k \in 1 .. n : /\ Find(w[k], names[k]).ino = w[k + 1]
                        /\ WalkStep(w[k], names[k]) = w[k + 1]
  <2>. SUFFICES ASSUME NEW k \in 1 .. n
                PROVE  /\ Find(w[k], names[k]).ino = w[k + 1]
                       /\ WalkStep(w[k], names[k]) = w[k + 1]
    OBVIOUS
  <2>1. k \in 1 .. n + 1
    BY <1>1
  <2>2. w[k] \in Formatted /\ w[k] # 0 /\ Leads(w[k], names[k], w[k + 1])
    BY <1>1, <1>4, <2>1
  <2>3. Find(w[k], names[k]).ino = w[k + 1] /\ Find(w[k], names[k]).type = "dir"
    BY <2>2, LeadsFacts
  <2>. QED
    BY <2>2, <2>3 DEF WalkStep
<1>6. \A k \in 1 .. n + 1 : v[k] = w[k]
  <2> DEFINE bad == {k \in 1 .. n + 1 : v[k] # w[k]}
  <2>1. SUFFICES ASSUME bad # {} PROVE FALSE
    OBVIOUS
  <2>2. PICK k \in bad : \A i \in bad : k <= i
    <3>1. bad \subseteq Nat
      OBVIOUS
    <3>. HIDE DEF bad
    <3>. QED
      BY <2>1, <3>1, LowestIs
  <2>3. k \in 1 .. n + 1 /\ v[k] # w[k]
    BY <2>2
  <2>4. k # 1
    BY <1>3, <1>4, <2>3
  <2>5. k - 1 \in 1 .. n /\ k - 1 \in 1 .. n + 1 /\ (k - 1) + 1 = k /\ ~(k <= k - 1)
    BY <1>1, <2>3, <2>4
  <2>6. v[k - 1] = w[k - 1]
    <3>1. k - 1 \notin bad
      <4>. HIDE DEF bad
      <4>. QED
        BY <2>2, <2>5
    <3>. QED
      BY <2>5, <3>1
  <2>7. v[k] = WalkStep(v[k - 1], names[k - 1])
    BY <1>3, <2>3, <2>4
  <2>8. WalkStep(w[k - 1], names[k - 1]) = w[k]
    BY <1>5, <2>5
  <2>. QED
    BY <2>3, <2>6, <2>7, <2>8
<1>7. CASE names = <<>>
  <2>1. Target(path) = Root /\ n = 0
    BY <1>1, <1>7 DEF Target, n
  <2>. QED
    BY <1>4, <2>1 DEF n, path
<1>8. CASE names # <<>>
  <2>1. n \in 1 .. n /\ n \in 1 .. n + 1
    BY <1>1, <1>8 DEF n
  <2>2. ParentOf(path) = w[n] /\ w[n] # 0
    <3>1. ParentOf(path) = v[n]
      BY <1>1, <1>8 DEF ParentOf, v, n
    <3>. QED
      BY <1>1, <1>4, <1>6, <2>1, <3>1
  <2>3. NameOf(path) = names[n]
    BY <1>1, <1>8 DEF NameOf, Last, n
  <2>4. Target(path) = Find(w[n], names[n]).ino
    BY <1>1, <1>8, <2>2, <2>3 DEF Target
  <2>. QED
    BY <1>5, <2>1, <2>4 DEF n, path
<1>. QED
  BY <1>7, <1>8

\* One trail after another.
LEMMA TrailOn ==
  ASSUME NEW p \in Seq(Name), NEW w, Trail(Root, p, w),
         NEW q \in Seq(Name), NEW u, Trail(w[Len(p) + 1], q, u)
  PROVE  \E v : Trail(Root, p \o q, v) /\ v[Len(p \o q) + 1] = u[Len(q) + 1]
<1> DEFINE m == Len(p)
           n == Len(q)
           v == [k \in 1 .. m + n + 1 |-> IF k <= m + 1 THEN w[k] ELSE u[k - m]]
<1>1. /\ m \in Nat /\ n \in Nat /\ Len(p \o q) = m + n
      /\ \A k \in 1 .. m : (p \o q)[k] = p[k]
      /\ \A k \in 1 .. n : (p \o q)[k + m] = q[k]
  OBVIOUS
<1>2. /\ w[1] = Root /\ \A k \in 1 .. m + 1 : w[k] \in Formatted
      /\ \A k \in 1 .. m : Leads(w[k], p[k], w[k + 1])
      /\ u[1] = w[m + 1] /\ \A k \in 1 .. n + 1 : u[k] \in Formatted
      /\ \A k \in 1 .. n : Leads(u[k], q[k], u[k + 1])
  BY DEF Trail
<1>. HIDE DEF m, n
<1>3. \A k \in 1 .. m + 1 : v[k] = w[k]
  BY <1>1
<1>4. \A k \in 1 .. n + 1 : v[k + m] = u[k]
  <2>. SUFFICES ASSUME NEW k \in 1 .. n + 1 PROVE v[k + m] = u[k]
    OBVIOUS
  <2>1. k + m \in 1 .. m + n + 1 /\ (k + m) - m = k
    BY <1>1
  <2>2. CASE k = 1
    <3>1. m + 1 \in 1 .. m + 1 /\ k + m = m + 1
      BY <1>1, <2>2
    <3>2. v[m + 1] = w[m + 1]
      BY <1>3, <3>1
    <3>. QED
      BY <1>2, <2>2, <3>1, <3>2
  <2>3. CASE k # 1
    <3>1. ~(k + m <= m + 1)
      BY <1>1, <2>3
    <3>2. v[k + m] = u[(k + m) - m]
      BY <2>1, <3>1
    <3>. QED
      BY <2>1, <3>2
  <2>. QED
    BY <2>2, <2>3
<1>5. \A k \in 1 .. m + n + 1 : k \in 1 .. m + 1 \/ \E j \in 1 .. n + 1 : k = j + m
  <2>. SUFFICES ASSUME NEW k \in 1 .. m + n + 1, ~(k \in 1 .. m + 1) PROVE \E j \in 1 .. n + 1 : k = j + m
    OBVIOUS
  <2>1. k - m \in 1 .. n + 1 /\ k = (k - m) + m
    BY <1>1
  <2>. QED
    BY <2>1
<1>6. v \in [1 .. m + n + 1 -> Formatted]
  <2>1. \A k \in 1 .. m + n + 1 : v[k] \in Formatted
    <3>. HIDE DEF v
    <3>. QED
      BY <1>2, <1>3, <1>4, <1>5
  <2>. QED
    BY <2>1
<1>. HIDE DEF v
<1>7. v[1] = Root /\ v[m + n + 1] = u[n + 1]
  <2>1. 1 \in 1 .. m + 1 /\ n + 1 \in 1 .. n + 1 /\ (n + 1) + m = m + n + 1
    BY <1>1
  <2>2. v[1] = w[1] /\ v[(n + 1) + m] = u[n + 1]
    BY <1>3, <1>4, <2>1
  <2>. QED
    BY <1>2, <2>1, <2>2
<1>8. \A k \in 1 .. m + n : Leads(v[k], (p \o q)[k], v[k + 1])
  <2>. SUFFICES ASSUME NEW k \in 1 .. m + n PROVE Leads(v[k], (p \o q)[k], v[k + 1])
    OBVIOUS
  <2>1. CASE k <= m
    <3>1. k \in 1 .. m /\ k \in 1 .. m + 1 /\ k + 1 \in 1 .. m + 1
      BY <1>1, <2>1
    <3>2. v[k] = w[k] /\ v[k + 1] = w[k + 1]
      BY <1>3, <3>1
    <3>. QED
      BY <1>1, <1>2, <3>1, <3>2
  <2>2. CASE ~(k <= m)
    <3>1. PICK j \in 1 .. n : k = j + m
      <4>1. k - m \in 1 .. n /\ k = (k - m) + m
        BY <1>1, <2>2
      <4>. QED
        BY <4>1
    <3>2. j \in 1 .. n + 1 /\ j + 1 \in 1 .. n + 1 /\ k + 1 = (j + 1) + m
      BY <1>1, <3>1
    <3>3. v[k] = u[j] /\ v[k + 1] = u[j + 1]
      BY <1>4, <3>1, <3>2
    <3>. QED
      BY <1>1, <1>2, <3>1, <3>3
  <2>. QED
    BY <2>1, <2>2
<1>9. Trail(Root, p \o q, v)
  <2>1. /\ v \in [1 .. Len(p \o q) + 1 -> Formatted]
        /\ \A k \in 1 .. Len(p \o q) : Leads(v[k], (p \o q)[k], v[k + 1])
    BY <1>1, <1>6, <1>8, Zenon
  <2>. QED
    BY <1>7, <2>1, Zenon DEF Trail
<1>. QED
  BY <1>1, <1>7, <1>9, Zenon DEF n

\* A trail without its last step: where .. leads from its end.
LEMMA TrailBack ==
  ASSUME IInv, NEW p \in Seq(Name), p # <<>>, NEW w, Trail(Root, p, w)
  PROVE  /\ Front(p) \in Seq(Name)
         /\ \E v : /\ Trail(Root, Front(p), v)
                   /\ v[Len(Front(p)) + 1] = Entries(w[Len(p) + 1])[2].ino
<1> DEFINE n == Len(p)
           v == [k \in 1 .. n |-> w[k]]
<1>1. /\ n \in Nat /\ n # 0 /\ Front(p) \in Seq(Name) /\ Len(Front(p)) = n - 1
      /\ \A k \in 1 .. n - 1 : Front(p)[k] = p[k]
  <2>1. n \in Nat /\ n # 0 /\ n - 1 \in Nat
    OBVIOUS
  <2>2. Front(p) = SubSeq(p, 1, n - 1)
    BY DEF Front
  <2>3. \A i \in 1 .. n - 1 : p[i] \in Name
    OBVIOUS
  <2>. HIDE DEF n
  <2>4. 1 \in Int /\ n - 1 \in Int
    BY <2>1
  <2>5. /\ SubSeq(p, 1, n - 1) \in Seq(Name)
        /\ Len(SubSeq(p, 1, n - 1)) = IF 1 <= n - 1 THEN (n - 1) - 1 + 1 ELSE 0
        /\ \A i \in 1 .. (n - 1) - 1 + 1 : SubSeq(p, 1, n - 1)[i] = p[1 + i - 1]
    BY <2>3, <2>4, SubSeqProperties
  <2>6. Len(SubSeq(p, 1, n - 1)) = n - 1
    BY <2>1, <2>5
  <2>7. \A i \in 1 .. n - 1 : i \in 1 .. (n - 1) - 1 + 1 /\ 1 + i - 1 = i
    BY <2>1
  <2>8. \A i \in 1 .. n - 1 : SubSeq(p, 1, n - 1)[i] = p[i]
    BY <2>5, <2>7
  <2>. QED
    BY <2>1, <2>2, <2>5, <2>6, <2>8
<1>2. /\ w[1] = Root /\ \A k \in 1 .. n + 1 : w[k] \in Formatted
      /\ \A k \in 1 .. n : Leads(w[k], p[k], w[k + 1])
  BY DEF Trail
<1>. HIDE DEF n
<1>3. /\ n \in 1 .. n /\ 1 \in 1 .. n /\ n \in 1 .. n + 1 /\ (n - 1) + 1 = n
      /\ \A k \in 1 .. n - 1 : k \in 1 .. n /\ k + 1 \in 1 .. n
  BY <1>1
<1>4. v \in [1 .. n -> Formatted]
  <2>1. \A k \in 1 .. n : k \in 1 .. n + 1
    BY <1>1
  <2>. QED
    BY <1>2, <2>1
<1>5. v[1] = Root /\ v[n] = w[n]
  BY <1>2, <1>3
<1>6. \A k \in 1 .. n - 1 : Leads(v[k], Front(p)[k], v[k + 1])
  <2>. SUFFICES ASSUME NEW k \in 1 .. n - 1 PROVE Leads(v[k], Front(p)[k], v[k + 1])
    OBVIOUS
  <2>1. k \in 1 .. n /\ v[k] = w[k] /\ v[k + 1] = w[k + 1] /\ Front(p)[k] = p[k]
    BY <1>1, <1>3
  <2>2. Leads(w[k], p[k], w[k + 1])
    BY <1>2, <2>1
  <2>. QED
    BY <2>1, <2>2
<1>7. Entries(w[n + 1])[2].ino = w[n]
  <2>1. w[n] \in Formatted /\ Leads(w[n], p[n], w[n + 1])
    BY <1>2, <1>3
  <2>. QED
    BY <2>1, LeadsFacts
<1>8. Trail(Root, Front(p), v)
  <2>. HIDE DEF v
  <2>1. v \in [1 .. Len(Front(p)) + 1 -> Formatted]
    BY <1>1, <1>3, <1>4
  <2>. QED
    BY <1>1, <1>5, <1>6, <2>1 DEF Trail
<1>. QED
  BY <1>1, <1>3, <1>5, <1>7, <1>8 DEF n

\* No directory loses its place, and the root stays above itself.
LinksStay ==
  /\ \A d \in Formatted : \A n, e : Leads(d, n, e) => Leads(d, n, e)'
  /\ Formatted \subseteq Formatted'
  /\ (Entries(Root)')[2].ino = Entries(Root)[2].ino

\* The prompt stays right as long as the directories keep their places.
LEMMA PromptStays ==
  ASSUME PromptOK, LinksStay, UNCHANGED shell
  PROVE  PromptOK'
<1>1. PICK p, c, w : /\ p = g_current_path /\ c = g_current_dir
                     /\ Trail(Root, p, w) /\ w[Len(p) + 1] = c
  BY DEF PromptOK
<1>2. Trail(Root, p, w)'
  <2>1. /\ w \in [1 .. Len(p) + 1 -> Formatted] /\ w[1] = Root
        /\ \A k \in 1 .. Len(p) : Leads(w[k], p[k], w[k + 1])
    BY <1>1 DEF Trail
  <2>2. w \in [1 .. Len(p) + 1 -> Formatted']
    BY <2>1 DEF LinksStay
  <2>3. p \in Seq(Name) /\ Len(p) \in Nat
    BY <1>1 DEF PromptOK
  <2>4. \A k \in 1 .. Len(p) : Leads(w[k], p[k], w[k + 1])'
    <3>. SUFFICES ASSUME NEW k \in 1 .. Len(p) PROVE Leads(w[k], p[k], w[k + 1])'
      OBVIOUS
    <3>1. w[k] \in Formatted
      BY <2>1, <2>3
    <3>2. PICK d, n, e : d = w[k] /\ n = p[k] /\ e = w[k + 1]
      OBVIOUS
    <3>3. Leads(d, n, e)'
      BY <2>1, <3>1, <3>2 DEF LinksStay
    <3>. QED
      BY <3>2, <3>3
  <2>. QED
    BY <2>1, <2>2, <2>4 DEF Trail
<1>3. g_current_path' = p /\ g_current_dir' = c
  BY <1>1 DEF shell
<1>4. p \in Seq(Name) /\ (Entries(Root)')[2].ino = Root
  BY <1>1 DEF PromptOK, LinksStay
<1>. QED
  BY <1>1, <1>2, <1>3, <1>4 DEF PromptOK

\* A step that changes no name.
LEMMA QuietLinks == ASSUME IInv, NamesStay PROVE LinksStay
<1>1. Root \in Formatted /\ Entries(Root)' = Entries(Root)
  BY DEF IInv, TreeOK, NamesStay
<1>2. ASSUME NEW d \in Formatted, NEW n, NEW e, Leads(d, n, e) PROVE Leads(d, n, e)'
  BY <1>2 DEF Leads, NamesStay
<1>. QED
  BY <1>1, <1>2 DEF LinksStay, NamesStay

\* A new name comes after the others.
LEMMA LinkLinks == ASSUME IInv, Link, Splits(op.parent) PROVE LinksStay
<1>1. PICK p, m, i : p = op.parent /\ m = Len(Entries(p)) + 1 /\ i = op.ino
  OBVIOUS
<1>2. /\ p \in Formatted /\ Len(Entries(p)) \in Nat /\ Len(Entries(p)) > 1
      /\ Formatted' = Formatted
      /\ \A d \in Formatted : d # p => Entries(d)' = Entries(d) /\ Places(d)' = Places(d)
      /\ \A k \in 1 .. Len(Entries(p)) : /\ (Entries(p)')[k].name = Entries(p)[k].name
                                         /\ (Entries(p)')[k].ino = Entries(p)[k].ino
                                         /\ (Entries(p)')[k].type = Entries(p)[k].type
  BY <1>1, LinkFacts
<1>3. Places(p)' = Places(p) \cup {m}
  BY <1>1, LinkPlaces
<1>4. ASSUME NEW d \in Formatted, NEW n, NEW e, Leads(d, n, e) PROVE Leads(d, n, e)'
  <2>1. PICK k \in Places(d) : /\ Entries(d)[k].name = n /\ Entries(d)[k].ino = e
                               /\ Entries(d)[k].type = "dir"
    BY <1>4 DEF Leads
  <2>2. CASE d = p
    <3>1. k \in Places(p)' /\ k \in 1 .. Len(Entries(p))
      BY <1>2, <1>3, <2>1, <2>2 DEF Places
    <3>2. /\ (Entries(p)')[k].name = n /\ (Entries(p)')[k].ino = e
          /\ (Entries(p)')[k].type = "dir"
      BY <1>2, <2>1, <2>2, <3>1
    <3>. QED
      BY <2>2, <3>1, <3>2 DEF Leads
  <2>3. CASE d # p
    BY <1>2, <2>1, <2>3 DEF Leads
  <2>. QED
    BY <2>2, <2>3
<1>5. (Entries(Root)')[2].ino = Entries(Root)[2].ino
  <2>1. Root \in Formatted /\ 2 \in 1 .. Len(Entries(p))
    BY <1>2 DEF IInv, TreeOK
  <2>2. CASE Root = p
    BY <1>2, <2>1, <2>2
  <2>3. CASE Root # p
    BY <1>2, <2>1, <2>3
  <2>. QED
    BY <2>2, <2>3
<1>. QED
  BY <1>2, <1>4, <1>5 DEF LinksStay

\* The name that goes is a file's, the others keep what they lead to.
LEMMA UnlinkLinks == ASSUME IInv, Unlink PROVE LinksStay
<1>1. PICK p \in Formatted : \E k \in Places(p) : Goes(p, k)
  BY UnlinkGoes
<1>2. PICK k \in Places(p) : Goes(p, k)
  BY <1>1
<1>3. PICK i : i = op.ino
  OBVIOUS
<1>4. /\ Len(Entries(p)) \in Nat /\ Len(Entries(p)) > 2 /\ Formatted' = Formatted
      /\ \A d \in Formatted : d # p => Entries(d)' = Entries(d) /\ Places(d)' = Places(d)
      /\ \A l \in 1 .. Len(Entries(p)) - 1 : (Entries(p)')[l].ino = Entries(p)[Before(k, l)].ino
  BY <1>2, UnlinkFacts
<1>5. \A d \in Formatted : \A o \in Places(d) : ~(d = p /\ o = k) =>
         \E l \in Places(d)' : /\ (Entries(d)')[l].ino = Entries(d)[o].ino
                               /\ (Entries(d)')[l].type = Entries(d)[o].type
                               /\ (Entries(d)')[l].name = Entries(d)[o].name
  BY <1>2, <1>3, UnlinkPlaces
<1>6. Entries(p)[k].type # "dir"
  <2>1. op.pc = "free_blocks"
    BY DEF Unlink, At
  <2>2. Condemned
    BY <2>1 DEF IInv, OpOK, At
  <2>3. inode[Entries(p)[k].ino].mode # "dir"
    BY <1>2, <2>2 DEF Condemned, Goes
  <2>4. GoodName(p, k)
    BY DEF IInv, TreeOK
  <2>. QED
    BY <2>3, <2>4 DEF GoodName
<1>7. ASSUME NEW d \in Formatted, NEW n, NEW e, Leads(d, n, e) PROVE Leads(d, n, e)'
  <2>1. PICK o \in Places(d) : /\ Entries(d)[o].name = n /\ Entries(d)[o].ino = e
                               /\ Entries(d)[o].type = "dir"
    BY <1>7 DEF Leads
  <2>2. ~(d = p /\ o = k)
    BY <1>6, <2>1
  <2>3. PICK l \in Places(d)' : /\ (Entries(d)')[l].ino = e
                                /\ (Entries(d)')[l].type = "dir"
                                /\ (Entries(d)')[l].name = n
    BY <1>5, <2>1, <2>2
  <2>. QED
    BY <2>3 DEF Leads
<1>8. (Entries(Root)')[2].ino = Entries(Root)[2].ino
  <2>1. Root \in Formatted
    BY DEF IInv, TreeOK
  <2>2. CASE Root = p
    <3>1. 2 \in 1 .. Len(Entries(p)) - 1 /\ Before(k, 2) = 2
      BY <1>2, <1>4 DEF Before, Places
    <3>. QED
      BY <1>4, <2>2, <3>1
  <2>3. CASE Root # p
    BY <1>4, <2>1, <2>3
  <2>. QED
    BY <2>2, <2>3
<1>. QED
  BY <1>4, <1>7, <1>8 DEF LinksStay

\* At the root the prompt shows no name.
LEMMA RootPrompt == ASSUME IInv PROVE \E w : Trail(Root, <<>>, w) /\ w[Len(<<>>) + 1] = Root
<1> DEFINE w == [k \in 1 .. 1 |-> Root]
<1>1. Len(<<>>) = 0 /\ Root \in Formatted
  BY DEF IInv, TreeOK
<1>2. w \in [1 .. Len(<<>>) + 1 -> Formatted] /\ w[1] = Root /\ w[Len(<<>>) + 1] = Root
  BY <1>1
<1>3. \A k \in 1 .. Len(<<>>) : FALSE
  BY <1>1
<1>4. Trail(Root, <<>>, w)
  <2>. HIDE DEF w
  <2>. QED
    BY <1>2, <1>3 DEF Trail
<1>. QED
  BY <1>2, <1>4

\* A disk as RootLoops says.
LEMMA InitPrompt == ASSUME Init, \A image \in Images : RootLoops(image) PROVE PromptOK
<1>1. IInv
  BY InitIInv
<1>2. Entries(Root)[2].ino = Root /\ g_current_path = <<>> /\ g_current_dir = Root
  BY DEF Init, RootLoops, Entries
<1>3. <<>> \in Seq(Name)
  OBVIOUS
<1>4. \E w : Trail(Root, <<>>, w) /\ w[Len(<<>>) + 1] = Root
  BY <1>1, RootPrompt
<1>. QED
  BY <1>2, <1>3, <1>4, Zenon DEF PromptOK

\* Where cd leads, for names: the end of a trail.
LEMMA NamesLead ==
  ASSUME IInv, NEW path \in Paths, path.comps \in Seq(Name), path.comps # <<>>,
         Accepts("cd", path)
  PROVE  \E u : /\ Trail(IF path.abs THEN Root ELSE g_current_dir, path.comps, u)
                /\ u[Len(path.comps) + 1] = Target(path)
<1> DEFINE n == Len(path.comps)
           w == Walk(path, g_current_dir)
<1>1. n \in Nat /\ n \in 1 .. n /\ n + 1 \in 1 .. n + 1 /\ n + 1 # 1 /\ (n + 1) - 1 = n
  OBVIOUS
<1>2. Target(path) # 0 /\ inode[Target(path)].mode = "dir"
  BY DEF Accepts
<1>3. ParentOf(path) = w[n] /\ NameOf(path) = path.comps[n] /\ path.comps[n] \in Name
  BY <1>1 DEF ParentOf, NameOf, Last
<1>4. w[n] \in Formatted /\ w[n] # 0 /\ Target(path) = Find(w[n], path.comps[n]).ino
  <2>1. ParentOf(path) \in Formatted \cup {0}
    BY PathFacts
  <2>2. ParentOf(path) # 0
    BY <1>2 DEF Target
  <2>. QED
    BY <1>3, <2>1, <2>2 DEF Target
<1>. HIDE DEF w, n
<1>5. Find(w[n], path.comps[n]).type = "dir"
  <2>1. Leads(w[n], path.comps[n], Find(w[n], path.comps[n]).ino)
    BY <1>2, <1>3, <1>4, FindLeads
  <2>. QED
    BY <1>4, <2>1, LeadsFacts
<1>6. w[n + 1] = WalkStep(w[n], path.comps[n])
  <2>1. /\ Root \in Formatted /\ g_current_dir \in Formatted
        /\ \A d \in Formatted : \A c : Find(d, c).type = "dir" => Find(d, c).ino \in Formatted
    BY FindDir DEF IInv, TreeOK, ShellOK
  <2>2. \A k \in 1 .. n + 1 : w[k] = IF k = 1 THEN IF path.abs THEN Root ELSE g_current_dir
                                     ELSE WalkStep(w[k - 1], path.comps[k - 1])
    BY <1>1, <2>1, WalkGoes DEF w, n
  <2>. QED
    BY <1>1, <2>2
<1>7. w[n + 1] = Target(path)
  BY <1>4, <1>5, <1>6 DEF WalkStep
<1>8. Walk(path, g_current_dir)[Len(path.comps) + 1] # 0
  BY <1>2, <1>7 DEF w, n
<1>9. PICK start : start = IF path.abs THEN Root ELSE g_current_dir
  OBVIOUS
<1>10. \E u : /\ Trail(start, path.comps, u)
              /\ u[Len(path.comps) + 1] = Walk(path, g_current_dir)[Len(path.comps) + 1]
  BY <1>8, <1>9, WalkTrail
<1>. QED
  BY <1>7, <1>9, <1>10 DEF w, n

\* Where cd leads, for . and .. alone: an entry of the current directory.
LEMMA DotLeads ==
  ASSUME IInv, NEW path \in Paths, ~path.abs, NEW c \in {Dot, DotDot}, path.comps = <<c>>
  PROVE  Target(path) = IF c = Dot THEN g_current_dir ELSE Entries(g_current_dir)[2].ino
<1>1. path.comps # <<>> /\ Len(path.comps) = 1 /\ path.comps[1] = c
  OBVIOUS
<1>2. /\ Root \in Formatted /\ g_current_dir \in Formatted /\ g_current_dir # 0
      /\ \A d \in Formatted : \A n : Find(d, n).type = "dir" => Find(d, n).ino \in Formatted
  BY FindDir, NumberAssumption DEF IInv, TreeOK, ShellOK, Formatted, Dirs
<1>3. Walk(path, g_current_dir)[1] = g_current_dir
  <2>1. \A k \in 1 .. Len(path.comps) + 1 :
          Walk(path, g_current_dir)[k] = IF k = 1 THEN IF path.abs THEN Root ELSE g_current_dir
                           ELSE WalkStep(Walk(path, g_current_dir)[k - 1], path.comps[k - 1])
    BY <1>1, <1>2, WalkGoes
  <2>2. 1 \in 1 .. Len(path.comps) + 1
    BY <1>1
  <2>. QED
    BY <2>1, <2>2
<1>4. ParentOf(path) = g_current_dir /\ NameOf(path) = c
  BY <1>1, <1>3 DEF ParentOf, NameOf, Last
<1>5. Target(path) = Find(g_current_dir, c).ino
  BY <1>1, <1>2, <1>4 DEF Target
<1>6. /\ GoodDir(g_current_dir) /\ 1 \in DOMAIN Entries(g_current_dir)
      /\ 2 \in DOMAIN Entries(g_current_dir)
  BY <1>2, DirFacts DEF IInv
<1>7. \A k \in DOMAIN Entries(g_current_dir) :
         Entries(g_current_dir)[k].name = c => Find(g_current_dir, c) = Entries(g_current_dir)[k]
  BY <1>2, FindIs DEF IInv
<1>8. CASE c = Dot
  BY <1>5, <1>6, <1>7, <1>8 DEF GoodDir
<1>9. CASE c # Dot
  BY <1>5, <1>6, <1>7, <1>9 DEF GoodDir
<1>. QED
  BY <1>8, <1>9

\* After cd along such a path there is a trail for what is shown again.
LEMMA CdTrail ==
  ASSUME IInv, PromptOK, NEW path \in Paths, Plain(path), Accepts("cd", path)
  PROVE  /\ PathAfter(path) \in Seq(Name)
         /\ \E v : Trail(Root, PathAfter(path), v) /\ v[Len(PathAfter(path)) + 1] = Target(path)
<1>1. PICK w : Trail(Root, g_current_path, w) /\ w[Len(g_current_path) + 1] = g_current_dir
  BY DEF PromptOK
<1>2. g_current_path \in Seq(Name) /\ Entries(Root)[2].ino = Root
  BY DEF PromptOK
<1>3. CASE path.comps = <<>>
  <2>1. path.abs
    BY <1>3, PathAssumption
  <2>2. PathAfter(path) = <<>> /\ Target(path) = Root /\ <<>> \in Seq(Name)
    BY <1>3, <2>1 DEF PathAfter, Target
  <2>3. \E v : Trail(Root, <<>>, v) /\ v[Len(<<>>) + 1] = Root
    BY RootPrompt
  <2>. QED
    BY <2>2, <2>3, Zenon
<1>4. CASE path.comps # <<>> /\ path.comps \in Seq(Name) /\ path.abs
  <2>1. PathAfter(path) = path.comps
    BY <1>4 DEF PathAfter
  <2>2. \E u : Trail(Root, path.comps, u) /\ u[Len(path.comps) + 1] = Target(path)
    BY <1>4, NamesLead
  <2>. QED
    BY <1>4, <2>1, <2>2, Zenon
<1>5. CASE path.comps # <<>> /\ path.comps \in Seq(Name) /\ ~path.abs
  <2>1. path.comps # <<DotDot>> /\ path.comps # <<Dot>>
    <3>1. path.comps[1] \in Name
      BY <1>5
    <3>. QED
      BY <3>1, NameAssumption
  <2>2. PathAfter(path) = g_current_path \o path.comps
    BY <1>5, <2>1 DEF PathAfter
  <2>3. PICK u : Trail(g_current_dir, path.comps, u) /\ u[Len(path.comps) + 1] = Target(path)
    BY <1>5, NamesLead
  <2>4. \E v : /\ Trail(Root, g_current_path \o path.comps, v)
               /\ v[Len(g_current_path \o path.comps) + 1] = u[Len(path.comps) + 1]
    <3>1. PICK p, q : p = g_current_path /\ q = path.comps
      OBVIOUS
    <3>2. /\ p \in Seq(Name) /\ q \in Seq(Name) /\ Trail(Root, p, w)
          /\ Trail(w[Len(p) + 1], q, u)
      BY <1>1, <1>2, <1>5, <2>3, <3>1
    <3>3. \E v : Trail(Root, p \o q, v) /\ v[Len(p \o q) + 1] = u[Len(q) + 1]
      BY <3>2, TrailOn, SMT
    <3>. QED
      BY <3>1, <3>3, Zenon
  <2>5. g_current_path \o path.comps \in Seq(Name)
    BY <1>2, <1>5
  <2>. QED
    BY <2>2, <2>3, <2>4, <2>5, Zenon
<1>6. CASE ~path.abs /\ path.comps = <<Dot>>
  <2>1. <<Dot>> # <<DotDot>>
    BY DEF Dot, DotDot
  <2>2. PathAfter(path) = g_current_path
    BY <1>6, <2>1, Zenon DEF PathAfter
  <2>3. Target(path) = g_current_dir
    BY <1>6, DotLeads
  <2>. QED
    BY <1>1, <1>2, <2>2, <2>3, Zenon
<1>7. CASE ~path.abs /\ path.comps = <<DotDot>>
  <2>1. Target(path) = Entries(g_current_dir)[2].ino
    <3>1. DotDot # Dot
      BY DEF Dot, DotDot
    <3>. QED
      BY <1>7, <3>1, DotLeads
  <2>2. CASE g_current_path = <<>>
    <3>1. PathAfter(path) = <<>>
      BY <1>7, <2>2 DEF PathAfter
    <3>2. g_current_dir = Root
      BY <1>1, <2>2 DEF Trail
    <3>3. Target(path) = Root
      BY <1>2, <2>1, <3>2
    <3>4. \E v : Trail(Root, <<>>, v) /\ v[Len(<<>>) + 1] = Root
      BY RootPrompt
    <3>. QED
      BY <1>2, <2>2, <3>1, <3>3, <3>4, Zenon
  <2>3. CASE g_current_path # <<>>
    <3>1. PathAfter(path) = Front(g_current_path)
      BY <1>7, <2>3 DEF PathAfter
    <3>2. /\ Front(g_current_path) \in Seq(Name)
          /\ \E v : /\ Trail(Root, Front(g_current_path), v)
                    /\ v[Len(Front(g_current_path)) + 1]
                         = Entries(w[Len(g_current_path) + 1])[2].ino
      BY <1>1, <1>2, <2>3, TrailBack
    <3>. QED
      BY <1>1, <2>1, <3>1, <3>2, Zenon
  <2>. QED
    BY <2>2, <2>3
<1>. QED
  BY <1>3, <1>4, <1>5, <1>6, <1>7 DEF Plain

\* cd along a path as Plain says.
CdPlainly == \E path \in Paths : /\ Plain(path) /\ Accepts("cd", path)
                                 /\ g_current_dir' = Target(path)
                                 /\ g_current_path' = PathAfter(path)

LEMMA CdPrompt == ASSUME IInv, PromptOK, Cd, CdPlainly PROVE PromptOK'
<1>1. PICK path \in Paths : /\ Plain(path) /\ Accepts("cd", path)
                            /\ g_current_dir' = Target(path)
                            /\ g_current_path' = PathAfter(path)
  BY DEF CdPlainly
<1>2. PICK p, t : p = PathAfter(path) /\ t = Target(path)
  OBVIOUS
<1>3. PICK v : p \in Seq(Name) /\ Trail(Root, p, v) /\ v[Len(p) + 1] = t
  BY <1>1, <1>2, CdTrail
<1>4. inode' = inode /\ content' = content
  BY DEF Cd, disk
<1>5. /\ Formatted' = Formatted
      /\ \A d : Entries(d)' = Entries(d) /\ Places(d)' = Places(d)
  BY <1>4, SameTree
<1>6. Trail(Root, p, v)'
  BY <1>3, <1>5 DEF Trail, Leads
<1>7. (Entries(Root)')[2].ino = Root
  BY <1>5 DEF PromptOK
<1>8. g_current_path' = p /\ g_current_dir' = t
  BY <1>1, <1>2
<1>. QED
  BY <1>3, <1>6, <1>7, <1>8 DEF PromptOK

\* A power loss brings the user back to the root.
LEMMA CrashPrompt == ASSUME IInv, IInv', PromptOK, Crash PROVE PromptOK'
<1>1. inode' = inode /\ content' = content /\ g_current_dir' = Root /\ g_current_path' = <<>>
  BY DEF Crash, disk
<1>2. PICK w : Trail(Root, <<>>, w) /\ w[Len(<<>>) + 1] = Root
  BY RootPrompt
<1>3. /\ Formatted' = Formatted
      /\ \A d : Entries(d)' = Entries(d) /\ Places(d)' = Places(d)
  BY <1>1, SameTree
<1>4. Trail(Root, <<>>, w)'
  BY <1>2, <1>3 DEF Trail, Leads
<1>5. (Entries(Root)')[2].ino = Root /\ <<>> \in Seq(Name)
  BY <1>3 DEF PromptOK
<1>. QED
  BY <1>1, <1>2, <1>4, <1>5, Zenon DEF PromptOK

\* Every step keeps the prompt right, as long as cd is used plainly.
LEMMA StepPrompt ==
  IInv /\ PromptOK /\ IInv' /\ [Next]_vars /\ [Cd => CdPlainly]_vars => PromptOK'
<1>. SUFFICES ASSUME IInv, PromptOK, IInv', [Next]_vars, [Cd => CdPlainly]_vars PROVE PromptOK'
  OBVIOUS
<1>1. ASSUME UNCHANGED vars \/ BeginCreate \/ BeginRemove \/ AllocInode \/ AllocBlock
             \/ FreeBlock \/ FreeInode \/ (Link /\ ~Splits(op.parent))
      PROVE  PromptOK'
  <2>1. inode' = inode /\ content' = content /\ UNCHANGED shell
    BY <1>1 DEF BeginCreate, BeginRemove, AllocInode, AllocBlock, FreeBlock, FreeInode, Link,
                Fail, vars, disk
  <2>. QED
    BY <2>1, QuietNames, QuietLinks, PromptStays
<1>2. ASSUME WriteInode \/ WriteNewDir PROVE PromptOK'
  <2>1. NamesStay
    BY <1>2, WriteInodeKeeps, WriteNewDirKeeps
  <2>2. UNCHANGED shell
    BY <1>2 DEF WriteInode, WriteNewDir
  <2>. QED
    BY <2>1, <2>2, QuietLinks, PromptStays
<1>3. CASE Link /\ Splits(op.parent)
  <2>1. UNCHANGED shell
    BY <1>3 DEF Link
  <2>. QED
    BY <1>3, <2>1, LinkLinks, PromptStays
<1>4. CASE Unlink
  <2>1. UNCHANGED shell
    BY <1>4 DEF Unlink
  <2>. QED
    BY <1>4, <2>1, UnlinkLinks, PromptStays
<1>5. CASE Cd
  <2>1. CASE UNCHANGED vars
    BY <1>1, <2>1
  <2>2. CASE ~UNCHANGED vars
    BY <1>5, <2>2, CdPrompt
  <2>. QED
    BY <2>1, <2>2
<1>6. CASE Crash
  BY <1>6, CrashPrompt
<1>. QED
  BY <1>1, <1>2, <1>3, <1>4, <1>5, <1>6 DEF Next, Step

\* The prompt shows the path of the current directory (ext2.cpp line 25,
\* idt.cpp line 239), after any commands and power losses, as long as every
\* cd so far was along names, to .. or to . : mkdir, touch and rm may take
\* any path.  What cd a/.. does to it is not covered.
THEOREM PromptWhilePlain ==
  ASSUME \A image \in Images : RootLoops(image)
  PROVE  Spec /\ [][Cd => CdPlainly]_vars => []PromptTellsDir
<1>1. Init => PromptOK
  BY InitPrompt
<1>2. IInv /\ PromptOK => PromptTellsDir
  BY TrailTarget DEF PromptOK, PromptTellsDir
<1>. QED
  BY <1>1, <1>2, StepPrompt, Invariants, PTL DEF Spec

\* The same for a user who types no other paths at all, as in the runs.
THEOREM PromptRight ==
  ASSUME \A image \in Images : RootLoops(image), \A path \in Paths : Plain(path)
  PROVE  Spec => []PromptTellsDir
<1>1. [Next]_vars => [Cd => CdPlainly]_vars
  BY DEF Cd, CdPlainly
<1>. QED
  BY <1>1, PromptWhilePlain, PTL DEF Spec
=============================================================================
