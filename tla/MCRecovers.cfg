SPECIFICATION FairSpec
CONSTANTS
  Dest = {d1, d2}
  Ino = {i1, i2, i3, i4}
  Data = {v}
  NoFile = NoFile
  NoIno = NoIno
  N = 2
  Recorders = {2}
  Shared = {d1}
  MaxFaults = 0
PROPERTY RecoveryEnds
