------------------------------- MODULE MCExt2 -------------------------------
EXTENDS Ext2

MCInode == 2 .. 5
MCBlock == 1 .. 4
MCName == {"a", "b"}

\* Names of nine to twelve letters take five units, . and .. take three: a
\* block of sixteen holds two of them exactly.
LongNames == [n \in {"a", "b", ".", ".."} |-> IF n \in {"a", "b"} THEN 5 ELSE 3]

\* Names of up to four letters take three units: two leave one unit.
ShortNames == [n \in {"a", "b", ".", ".."} |-> 3]

Rel(comps) == [abs |-> FALSE, comps |-> comps]
Abs(comps) == [abs |-> TRUE, comps |-> comps]

\* What a user who changes directory one name at a time types.
PlainPaths == {Rel(<<"a">>), Rel(<<"b">>), Abs(<<"a", "b">>), Rel(<<"..">>),
               Rel(<<".">>), Abs(<<>>)}

\* An image as mkfs leaves it.
RootDir == << Entry(2, ".", "dir", 3), Entry(2, "..", "dir", 13) >>

EmptyImage(n) ==
  [losses |-> n, inode_bitmap |-> {2}, block_bitmap |-> {1},
   inode   |-> [i \in MCInode |-> IF i = 2 THEN [mode |-> "dir", blocks |-> <<1>>] ELSE NoInode],
   content |-> [b \in MCBlock |-> IF b = 1 THEN RootDir ELSE <<>>]]

\* An image with a file of two blocks, written by another system.
FileImage ==
  [losses |-> 0, inode_bitmap |-> {2, 3}, block_bitmap |-> {1, 2, 3},
   inode   |-> [i \in MCInode |-> CASE i = 2 -> [mode |-> "dir", blocks |-> <<1>>]
                                  [] i = 3 -> [mode |-> "reg", blocks |-> <<2, 3>>]
                                  [] OTHER -> NoInode],
   content |-> [b \in MCBlock |-> IF b = 1
                  THEN << Entry(2, ".", "dir", 3), Entry(2, "..", "dir", 3),
                          Entry(3, "b", "reg", 10) >>
                  ELSE <<>>]]

\* Power is lost on the first only: its files are made by touch and have no
\* blocks, which rm frees before the name is gone.
BothImages == {EmptyImage(2), FileImage}

EmptyImages == {EmptyImage(0)}

\* What the theorem on the prompt asks of the paths and the disks.
ASSUME PromptAssumption == /\ \A path \in Paths : Plain(path)
                           /\ \A image \in Images : RootLoops(image)
=============================================================================
