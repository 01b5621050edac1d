------------------------------- MODULE MCSlab -------------------------------
EXTENDS Slab, TLC

\* Room for 12 units of objects in a page of 16.
FitSizes == <<4, 6>>        \* three and two objects to a slab
SmallSizes == <<2>>         \* six objects, more than a bitmap of four bits

Symmetry == Permutations(Frame) \cup Permutations(Handle)

=============================================================================
