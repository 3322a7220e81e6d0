----------------------------- MODULE MCLockFile -----------------------------
(* Instances of LockFile for TLC. *)
EXTENDS LockFile, TLC

CONSTANTS p1, p2, p3, oidA, oidB, symref

MCProcs2 == {p1, p2}
MCProcs3 == {p1, p2, p3}

(* Two object ids take the same number of cells; "ref: refs/heads/..." is  *)
(* shorter than an object id.                                              *)
OidValues == {oidA, oidB}
HeadValues == {oidA, oidB, symref}
OidLength == [v \in OidValues |-> 2]
HeadLength == [v \in HeadValues |-> IF v = symref THEN 1 ELSE 2]

BothKinds == {"ref", "index"}
OnlyRefs == {"ref"}

(* One inode per open descriptor, one for the file, one for the lock. *)
MCInodes4 == 1..4
MCInodes5 == 1..5

ProcSymmetry == Permutations(MCProcs3)
=============================================================================
