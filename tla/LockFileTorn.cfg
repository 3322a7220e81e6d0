SPECIFICATION Spec
CONSTANTS
  p1 = p1
  p2 = p2
  p3 = p3
  oidA = oidA
  oidB = oidB
  symref = symref
  NoInode = NoInode
  Absent = Absent
  Procs <- MCProcs2
  Values <- HeadValues
  Length <- HeadLength
  Inodes <- MCInodes4
  Kinds <- OnlyRefs
  Concurrent = TRUE
  Faults = FALSE
INVARIANT NeverTorn
