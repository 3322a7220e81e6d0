SPECIFICATION Spec
CONSTANTS
  p1 = p1
  p2 = p2
  p3 = p3
  oidA = oidA
  oidB = oidB
  symref = symref
  NoInode = NoInode
  Absent = Absent
  Procs <- MCProcs3
  Values <- OidValues
  Length <- OidLength
  Inodes <- MCInodes5
  Kinds <- OnlyRefs
  Concurrent = TRUE
  Faults = FALSE
SYMMETRY ProcSymmetry
INVARIANT WholeWhenQuiet
