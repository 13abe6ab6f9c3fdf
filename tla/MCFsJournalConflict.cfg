\* The same two managers, without failing system calls.
CONSTANTS
  Dest = {d1}
  Ino = {i1, i2, i3, i4}
  Data = {old, new}
  NoFile = NoFile
  NoIno = NoIno
  N = 2
  Recorders = {2}
  Shared = {d1}
  MaxFaults = 0
SPECIFICATION Spec
INVARIANT FailRollsBack
