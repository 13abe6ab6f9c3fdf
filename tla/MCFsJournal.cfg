\* Three managers, two destinations, one failing system call per process,
\* crashes anywhere.
CONSTANTS
  Dest = {d1, d2}
  Ino = {i1, i2, i3, i4}
  Data = {old, new}
  NoFile = NoFile
  NoIno = NoIno
  N = 3
  Recorders = {2}
  Shared = {}
  MaxFaults = 1
SPECIFICATION Spec
INVARIANTS
  NoRollbackConflict
  OriginalKept
  CommitInv
PROPERTIES
  UndoLeavesNothing
  InstallIsAtomic
SYMMETRY InodeSymmetry
