----------------------------- MODULE Namespace ------------------------------
(***************************************************************************)
(* What the file system promises its user: a tree of names.  Creating and  *)
(* removing a name happen at once or not at all, a new name never takes a  *)
(* number that is in use, and only files are removed.                      *)
(***************************************************************************)
CONSTANTS Inode, Name, Root

VARIABLE names      \* the entries [dir, name, ino, type] of every directory

Dirs == {Root} \cup {e.ino : e \in {f \in names : f.type = "dir"}}

Init == /\ \A e \in names : e.dir \in Dirs /\ e.ino # Root
        /\ \A e, f \in names :
              (e.ino = f.ino \/ (e.dir = f.dir /\ e.name = f.name)) => e = f

Add(d, n, i, t) ==
  /\ d \in Dirs
  /\ ~\E e \in names : e.dir = d /\ e.name = n
  /\ i # Root /\ ~\E e \in names : e.ino = i
  /\ names' = names \cup {[dir |-> d, name |-> n, ino |-> i, type |-> t]}

Remove(e) == /\ e \in names
             /\ e.type = "reg"
             /\ names' = names \ {e}

Next == \/ \E d, i \in Inode, n \in Name, t \in {"dir", "reg"} : Add(d, n, i, t)
        \/ \E e \in names : Remove(e)

Spec == Init /\ [][Next]_names
=============================================================================
