-------------------------------- MODULE Ext2 --------------------------------
(***************************************************************************)
(* The file system of kernel/filesystem/ext2.cpp: mkdir, touch, rm and cd  *)
(* on an ext2 image with one-block directories.  Every command runs inside *)
(* the keyboard interrupt, one at a time, and is a series of block writes; *)
(* an action below is what happens up to and including the next write.     *)
(* The machine may be switched off between two writes: the disk keeps what *)
(* was written, the current directory is forgotten.                        *)
(*                                                                         *)
(* Directory sizes are counted in units of four bytes.  The bytes of names *)
(* and of files are left out, their sizes are not.                         *)
(***************************************************************************)
EXTENDS Integers, FiniteSets, Sequences, SequencesExt

CONSTANTS Inode,        \* inode numbers, Root included
          Block,        \* block numbers, 1 upwards
          Root,         \* inode 2
          Name,         \* names the user gives
          EntrySize,    \* of a name, what its directory entry takes
          DirSize,      \* of a directory block
          Paths,        \* what the user types: [abs, comps]
          Images        \* the disks it may find: four parts, and the power losses to come

Dot == "."
DotDot == ".."

ASSUME NumberAssumption == /\ Inode \subseteq Nat \ {0} /\ IsFiniteSet(Inode)
                           /\ Block \subseteq Nat \ {0} /\ IsFiniteSet(Block)
                           /\ Root \in Inode

ASSUME NameAssumption == /\ Dot \notin Name /\ DotDot \notin Name
                         /\ EntrySize \in [Name \cup {Dot, DotDot} -> Nat \ {0}]

\* A directory block has place for . and .. at least.
ASSUME SizeAssumption == DirSize \in Nat /\ EntrySize[Dot] + EntrySize[DotDot] <= DirSize

ASSUME PathAssumption ==
  \A p \in Paths : /\ p.abs \in BOOLEAN /\ p.comps \in Seq(Name \cup {Dot, DotDot})
                   /\ p.comps = <<>> => p.abs

InodeType == [mode : {"none", "dir", "reg"}, blocks : Seq(Block)]

EntryType == [ino : Inode \cup {0}, name : Name \cup {Dot, DotDot},
              type : {"dir", "reg"}, rec_len : 0 .. DirSize]

\* Where each entry of a directory block starts, and where the last one ends.
Starts(es) ==
  LET start[k \in 1 .. Len(es) + 1] == IF k = 1 THEN 0 ELSE start[k - 1] + es[k - 1].rec_len
  IN  start

\* A disk nothing is wrong with, of which an entry after the first two is a
\* name.  Power may fail on it only if its files have no blocks.
Sound(image) ==
  LET dirs       == {i \in Inode : image.inode[i].mode = "dir"}
      entries(d) == image.content[image.inode[d].blocks[1]]
      names(d)   == 3 .. Len(entries(d))
      used       == {Root} \cup UNION {{entries(d)[k].ino : k \in names(d)} : d \in dirs}
      blocks(i)  == {image.inode[i].blocks[k] : k \in DOMAIN image.inode[i].blocks}
  IN  /\ image.inode \in [Inode -> InodeType] /\ image.content \in [Block -> Seq(EntryType)]
      /\ image.inode_bitmap = used /\ image.block_bitmap = UNION {blocks(i) : i \in used}
      /\ Root \in dirs /\ dirs \subseteq used
      /\ \A i, j \in used : i # j => blocks(i) \cap blocks(j) = {}
      /\ \A b \in Block : image.content[b] # <<>> => \E d \in dirs : b = image.inode[d].blocks[1]
      /\ \A d \in dirs :
           /\ image.inode[d].blocks # <<>>
           /\ Len(entries(d)) > 1 /\ Starts(entries(d))[Len(entries(d)) + 1] = DirSize
           /\ \A j, k \in DOMAIN entries(d) : entries(d)[j].name = entries(d)[k].name => j = k
           /\ entries(d)[1].name = Dot /\ entries(d)[1].ino = d
           /\ entries(d)[2].name = DotDot /\ entries(d)[2].ino \in dirs
           /\ \A k \in names(d) :
                LET e == entries(d)[k]
                IN  /\ e.ino \in Inode \ {Root} /\ image.inode[e.ino].mode = e.type
                    /\ e.type = "dir" => entries(e.ino)[2].ino = d
                    /\ \A c \in dirs : \A l \in names(c) : entries(c)[l].ino = e.ino => c = d /\ l = k
      /\ image.losses \in Nat
      /\ image.losses > 0 => \A i \in Inode : image.inode[i].mode = "reg" => image.inode[i].blocks = <<>>

ASSUME ImageAssumption == \A image \in Images : Sound(image)

VARIABLES inode_bitmap, block_bitmap,   \* the numbers whose bit is set
          inode,                        \* the inode table: mode and i_block
          content,                      \* of each block, the entries if it is a directory
          g_current_dir, g_current_path,
          op,                           \* the command in progress
          losses,                       \* power losses still to come: bounds Crash
          cut                           \* commands cut short by one or by an error

disk == <<inode_bitmap, block_bitmap, inode, content>>
shell == <<g_current_dir, g_current_path>>
vars == <<disk, shell, op, losses, cut>>

Entry(i, n, t, len) == [ino |-> i, name |-> n, type |-> t, rec_len |-> len]

NoInode == [mode |-> "none", blocks |-> <<>>]

Idle == [pc |-> "idle", kind |-> "none", parent |-> 0, name |-> Dot, ino |-> 0, blocks |-> <<>>]

Lowest(S) == CHOOSE x \in S : \A y \in S : x <= y

-----------------------------------------------------------------------------
(* Reading: ext2_find_in_dir and ext2_traverse_path.                       *)

Entries(d) == content[inode[d].blocks[1]]

\* The entry of that name, among those before the first cleared one.
Matches(d, n) == {k \in DOMAIN Entries(d) :
                    /\ Entries(d)[k].name = n
                    /\ \A j \in 1 .. k : Entries(d)[j].ino # 0}

Find(d, n) == IF Matches(d, n) = {} THEN Entry(0, n, "none", 0)
              ELSE Entries(d)[Lowest(Matches(d, n))]

\* What ext2_ls shows of a directory: . and .. among them.
Listed(d) == {Entries(d)[k].name : k \in {k \in DOMAIN Entries(d) :
                                            \A j \in 1 .. k : Entries(d)[j].ino # 0}}

\* The directory reached before component k, 0 once a component before it
\* is missing or not a directory.
Walk(path, cwd) ==
  LET walk[k \in 1 .. Len(path.comps) + 1] ==
        IF k = 1 THEN IF path.abs THEN Root ELSE cwd
        ELSE IF walk[k - 1] = 0 THEN 0
        ELSE LET e == Find(walk[k - 1], path.comps[k - 1])
             IN  IF e.type = "dir" THEN e.ino ELSE 0
  IN  walk

\* out_parent, out_name and the inode found, 0 if there is none.
ParentOf(path) == IF path.comps = <<>> THEN Root
                  ELSE Walk(path, g_current_dir)[Len(path.comps)]

NameOf(path) == IF path.comps = <<>> THEN Dot ELSE Last(path.comps)

Target(path) == IF path.comps = <<>> THEN Root
                ELSE IF ParentOf(path) = 0 THEN 0
                ELSE Find(ParentOf(path), NameOf(path)).ino

-----------------------------------------------------------------------------
(* Writing.  Each of these is one block written to the disk.               *)

Init == /\ \E image \in Images :
             /\ inode_bitmap = image.inode_bitmap
             /\ block_bitmap = image.block_bitmap
             /\ inode = image.inode
             /\ content = image.content
             /\ losses = image.losses
        /\ g_current_dir = Root
        /\ g_current_path = <<>>
        /\ op = Idle
        /\ cut = 0

\* ext2_write_inode: its block is read, changed and written back.
ext2_write_inode(i, data) == inode' = [inode EXCEPT ![i] = data]

\* ext2_alloc_inode and ext2_alloc_block: the first clear bit.
FreeInodes == Inode \ inode_bitmap
FreeBlocks == Block \ block_bitmap

ForgetBit(bitmap, n) == bitmap                              \* mutant: bitmap not written back

MarkInode(bitmap, n) == bitmap \cup {n}
MarkBlock(bitmap, n) == bitmap \cup {n}

\* ext2_free_block and ext2_free_inode: number n is bit n - 1.
ClearNext(bitmap, n) == bitmap \ {n + 1}                    \* mutant: bit n cleared

ClearBit(bitmap, n) == bitmap \ {n}

\* ext2_link_dir_entry: only the entry that reaches the end of the block is
\* split, and only if it is longer than its name needs.
Splits(d) == /\ Entries(d) # <<>>
             /\ Last(Entries(d)).rec_len > EntrySize[Last(Entries(d)).name]

\* What the split entry leaves, all of it for the new one.
Linked(d, n, i, t) ==
  LET old == Last(Entries(d))
      own == EntrySize[old.name]
  IN  Front(Entries(d)) \o << [old EXCEPT !.rec_len = own],
                              Entry(i, n, t, old.rec_len - own) >>

Uncovered(d, k) == [Entries(d) EXCEPT ![k].ino = 0]         \* mutant: cleared, not merged

\* ext2_unlink_dir_entry: the entry before takes the space; a first entry is
\* only cleared.
Unlinked(d, k) ==
  IF k = 1
  THEN [Entries(d) EXCEPT ![1].ino = 0]
  ELSE RemoveAt([Entries(d) EXCEPT ![k - 1].rec_len = @ + Entries(d)[k].rec_len], k)

WriteDir(d, entries) == content' = [content EXCEPT ![inode[d].blocks[1]] = entries]

-----------------------------------------------------------------------------
(* Commands: the path is looked up, then the first step is prepared.       *)

At(pc) == op.pc = pc

\* When a command gets past its error messages; otherwise nothing changes.
AcceptsAnything(kind, path) ==                              \* mutant: no "File exists"
  IF kind \in {"mkdir", "touch"} THEN ParentOf(path) # 0
  ELSE Target(path) # 0 /\ (inode[Target(path)].mode = "dir" <=> kind = "cd")

Accepts(kind, path) ==
  IF kind \in {"mkdir", "touch"}
  THEN Target(path) = 0 /\ ParentOf(path) # 0
  ELSE Target(path) # 0 /\ (inode[Target(path)].mode = "dir" <=> kind = "cd")

BeginCreate ==
  /\ At("idle")
  /\ \E kind \in {"mkdir", "touch"}, path \in Paths :
       /\ Accepts(kind, path)
       /\ op' = [Idle EXCEPT !.pc = "alloc_inode", !.kind = kind,
                             !.parent = ParentOf(path), !.name = NameOf(path)]
  /\ UNCHANGED <<disk, shell, losses, cut>>

BeginRemove ==
  /\ At("idle")
  /\ \E path \in Paths :
       /\ Accepts("rm", path)
       /\ op' = [Idle EXCEPT !.pc = "free_blocks", !.kind = "rm",
                             !.parent = ParentOf(path), !.name = NameOf(path),
                             !.ino = Target(path), !.blocks = inode[Target(path)].blocks]
  /\ UNCHANGED <<disk, shell, losses, cut>>

\* cd: the new directory, and what is done to the path the prompt shows.
PathAppended(path) ==                                       \* mutant: no restart at /
  IF path.comps = <<DotDot>> THEN (IF g_current_path = <<>> THEN <<>> ELSE Front(g_current_path))
  ELSE IF path.comps = <<Dot>> THEN g_current_path
  ELSE g_current_path \o path.comps

PathAfter(path) ==
  IF path.abs THEN path.comps
  ELSE IF path.comps = <<DotDot>> THEN (IF g_current_path = <<>> THEN <<>> ELSE Front(g_current_path))
  ELSE IF path.comps = <<Dot>> THEN g_current_path
  ELSE g_current_path \o path.comps

Cd == /\ At("idle")
      /\ \E path \in Paths :
           /\ Accepts("cd", path)
           /\ g_current_dir' = Target(path)
           /\ g_current_path' = PathAfter(path)
      /\ UNCHANGED <<disk, op, losses, cut>>

-----------------------------------------------------------------------------
(* The steps of mkdir and touch.                                           *)

\* An error after something was allocated leaves it allocated.
Fail == /\ op' = Idle
        /\ cut' = cut + 1
        /\ UNCHANGED <<disk, shell, losses>>

AllocInode ==
  /\ At("alloc_inode")
  /\ \/ /\ FreeInodes # {}
        /\ inode_bitmap' = MarkInode(inode_bitmap, Lowest(FreeInodes))
        /\ op' = [op EXCEPT !.pc = IF op.kind = "mkdir" THEN "alloc_block" ELSE "write_inode",
                            !.ino = Lowest(FreeInodes)]
        /\ UNCHANGED <<block_bitmap, inode, content, shell, losses, cut>>
     \/ FreeInodes = {} /\ op' = Idle /\ UNCHANGED <<disk, shell, losses, cut>>

AllocBlock ==
  /\ At("alloc_block")
  /\ \/ /\ FreeBlocks # {}
        /\ block_bitmap' = MarkBlock(block_bitmap, Lowest(FreeBlocks))
        /\ op' = [op EXCEPT !.pc = "write_inode", !.blocks = <<Lowest(FreeBlocks)>>]
        /\ UNCHANGED <<inode_bitmap, inode, content, shell, losses, cut>>
     \/ FreeBlocks = {} /\ Fail

WriteInode ==
  /\ At("write_inode")
  /\ ext2_write_inode(op.ino, [mode |-> IF op.kind = "mkdir" THEN "dir" ELSE "reg",
                               blocks |-> op.blocks])
  /\ op' = [op EXCEPT !.pc = IF op.kind = "mkdir" THEN "write_dir" ELSE "link"]
  /\ UNCHANGED <<inode_bitmap, block_bitmap, content, shell, losses, cut>>

DotDotTooLong == DirSize                                    \* mutant: offset not subtracted

DotDotLength == DirSize - EntrySize[Dot]

\* The new directory's block: . and .., the latter reaching the end.
WriteNewDir ==
  /\ At("write_dir")
  /\ content' = [content EXCEPT ![op.blocks[1]] =
                   << Entry(op.ino, Dot, "dir", EntrySize[Dot]),
                      Entry(op.parent, DotDot, "dir", DotDotLength) >>]
  /\ op' = [op EXCEPT !.pc = "link"]
  /\ UNCHANGED <<inode_bitmap, block_bitmap, inode, shell, losses, cut>>

Link ==
  /\ At("link")
  /\ \/ /\ Splits(op.parent)
        /\ WriteDir(op.parent, Linked(op.parent, op.name, op.ino,
                                      IF op.kind = "mkdir" THEN "dir" ELSE "reg"))
        /\ op' = Idle
        /\ UNCHANGED <<inode_bitmap, block_bitmap, inode, shell, losses, cut>>
     \/ ~Splits(op.parent) /\ Fail

-----------------------------------------------------------------------------
(* The steps of rm.                                                        *)

FreeBlock ==
  /\ At("free_blocks") /\ op.blocks # <<>>
  /\ block_bitmap' = ClearBit(block_bitmap, Head(op.blocks))
  /\ op' = [op EXCEPT !.blocks = Tail(@)]
  /\ UNCHANGED <<inode_bitmap, inode, content, shell, losses, cut>>

Unlink ==
  /\ At("free_blocks") /\ op.blocks = <<>>
  /\ \E k \in DOMAIN Entries(op.parent) :
       /\ Entries(op.parent)[k].name = op.name
       /\ \A j \in 1 .. k - 1 : Entries(op.parent)[j].name # op.name
       /\ WriteDir(op.parent, Unlinked(op.parent, k))
  /\ op' = [op EXCEPT !.pc = "free_inode"]
  /\ UNCHANGED <<inode_bitmap, block_bitmap, inode, shell, losses, cut>>

KeepInode ==                                                \* mutant: inode never freed
  /\ At("free_inode")
  /\ op' = Idle
  /\ UNCHANGED <<disk, shell, losses, cut>>

FreeInode ==
  /\ At("free_inode")
  /\ inode_bitmap' = ClearBit(inode_bitmap, op.ino)
  /\ op' = Idle
  /\ UNCHANGED <<block_bitmap, inode, content, shell, losses, cut>>

-----------------------------------------------------------------------------
\* Power off and on again, anywhere in a command or between two.
Crash == /\ losses > 0
         /\ losses' = losses - 1
         /\ cut' = IF At("idle") THEN cut ELSE cut + 1
         /\ op' = Idle
         /\ g_current_dir' = Root
         /\ g_current_path' = <<>>
         /\ UNCHANGED disk

Step == \/ AllocInode \/ AllocBlock \/ WriteInode \/ WriteNewDir \/ Link
        \/ FreeBlock \/ Unlink \/ FreeInode

Next == \/ BeginCreate \/ BeginRemove \/ Cd
        \/ Step \/ Crash

Spec == Init /\ [][Next]_vars

-----------------------------------------------------------------------------
(* Properties.                                                             *)

Dirs == {i \in Inode : inode[i].mode = "dir"}

\* Directories whose block has been written.
Formatted == {d \in Dirs : Entries(d) # <<>>}

\* The names the user made, in whatever directory.
Children(d) == {k \in DOMAIN Entries(d) : Entries(d)[k].name \in Name}

NameAt(d, k) == [dir |-> d, name |-> Entries(d)[k].name,
                 ino |-> Entries(d)[k].ino, type |-> Entries(d)[k].type]

Names == UNION {{NameAt(d, k) : k \in Children(d)} : d \in Formatted}

\* Inodes that can be reached by a name.
Used == {Root} \cup {e.ino : e \in Names}

Blocks(i) == {inode[i].blocks[k] : k \in DOMAIN inode[i].blocks}

\* Types; the current directory is always one that has been written, also
\* after a crash (ext2.cpp lines 22, 203, 208).
TypeOK == /\ inode_bitmap \subseteq Inode
          /\ block_bitmap \subseteq Block
          /\ inode \in [Inode -> InodeType]
          /\ content \in [Block -> Seq(EntryType)]
          /\ g_current_dir \in Formatted
          /\ g_current_path \in Seq(Name \cup {Dot, DotDot})
          /\ op.parent \in Formatted \cup {0}
          /\ op.ino \in Inode \cup {0}
          /\ op.blocks \in Seq(Block)
          /\ losses \in Nat /\ cut \in Nat

\* No name ever dangles: at every write, and wherever the power fails, an
\* entry leads to an inode that is allocated, has been written as what the
\* entry says, and has no second name; a directory's own entries are there
\* and lead back to its parent (the order of writes in mkdir, touch and rm).
NamesLive ==
  /\ \A e \in Names :
       /\ e.ino \in inode_bitmap
       /\ inode[e.ino].mode = e.type
       /\ e.type = "dir" => /\ e.ino \in Formatted
                            /\ Find(e.ino, DotDot).ino = e.dir
  /\ \A e, f \in Names : e.ino = f.ino => e = f

\* ls shows every name there is, also after entries before it were removed
\* and whenever the power failed: no name is there and cannot be listed or
\* found (ext2_ls, ext2_find_in_dir, lines 170-188 and 258-270).
LsShowsAll ==
  \A e \in Names : e.name \in Listed(e.dir) /\ Find(e.dir, e.name).ino = e.ino

\* No block has two owners, and what a name leads to is in allocated blocks
\* (while rm frees a file's blocks, its own aside).
OwnedOnce ==
  LET owners == Used \ (IF op.kind = "rm" THEN {op.ino} ELSE {}) IN
  /\ \A i \in owners : Blocks(i) \subseteq block_bitmap
  /\ \A i, j \in owners : i # j => Blocks(i) \cap Blocks(j) = {}

\* Every directory block is tiled by its entries, each long enough for its
\* name, no name twice, . first (link and unlink, lines 356-378, 566-584).
DirsWellFormed ==
  /\ TypeOK
  /\ \A d \in Formatted :
       LET es == Entries(d) IN
       /\ Starts(es)[Len(es) + 1] = DirSize
       /\ \A k \in DOMAIN es : es[k].rec_len >= EntrySize[es[k].name]
       /\ \A j, k \in DOMAIN es : es[j].name = es[k].name => j = k
       /\ es[1].name = Dot /\ es[1].ino = d

\* Nothing is lost without a reason: between commands, the inodes and the
\* blocks that are allocated and lead to no name are at most as many as the
\* commands cut short by a crash or an error.
LeakBound ==
  At("idle") =>
    /\ Cardinality(inode_bitmap \ Used) <= cut
    /\ Cardinality(block_bitmap \ UNION {Blocks(i) : i \in Used}) <= cut

\* ext2.cpp line 25 and idt.cpp line 239: the prompt shows the path of the
\* current directory.  Walking it from the root must lead there.
PromptTellsDir ==
  Target([abs |-> TRUE, comps |-> g_current_path]) = g_current_dir

\* Paths after which the shown path is still a list of names, one for each
\* directory below the root: names only, or .. or . alone.  cd a/.. is not.
Plain(path) == \/ path.comps \in Seq(Name)
               \/ ~path.abs /\ path.comps \in {<<DotDot>>, <<Dot>>}

\* In the root .. leads to the root, as mkfs leaves it.
RootLoops(image) == image.content[image.inode[Root].blocks[1]][2].ino = Root

\* ext2.h line 127 says of rec_len "How long this specific entry is": it is
\* long enough for the entry's header and name.
EntriesFit ==
  \A d \in Formatted : \A k \in DOMAIN Entries(d) :
     Entries(d)[k].rec_len >= EntrySize[Entries(d)[k].name]

\* Commands and crashes are atomic for the user: the names change only when
\* the one write that links or unlinks an entry reaches the disk.
Tree == INSTANCE Namespace WITH names <- Names
NamespaceSpec == Tree!Spec
=============================================================================
