------------------------------ MODULE LockFile ------------------------------
(***************************************************************************)
(* fs.go's lockFile, at the level of directory entries and inodes.  Every  *)
(* file under .git the program replaces (a ref, HEAD, the index) goes      *)
(* through it: open <file>.lock, write the content, rename it over <file>. *)
(* newLockFile opens the lock with O_CREATE|O_TRUNC and without O_EXCL, so *)
(* a lock file that is already there, left by a crash or in use by another *)
(* process, is truncated and shared.                                       *)
(***************************************************************************)
EXTENDS Naturals, Sequences

CONSTANTS
  Procs,          \* the processes that write the file
  Values,         \* the contents they write
  Length,         \* Length[v]: how many cells the content v takes
  Inodes,         \* the inodes the file system may allocate
  NoInode,        \* "no such directory entry" and "no open descriptor"
  Absent,         \* the content of a file that does not exist
  Kinds,          \* kinds of file: "ref" for refs, HEAD and objects, "index" for
                  \* the index, whose Write calls Truncate(0) itself (config's
                  \* does too, but drops the errors of a write: not modelled)
  Concurrent,     \* TRUE: commands overlap; FALSE: one command at a time
  Faults          \* TRUE: a process may be killed and a write may fail

ASSUME LockFileAssumption ==
  /\ NoInode \notin Inodes
  /\ Length \in [Values -> Nat \ {0}]
  /\ Kinds \subseteq {"ref", "index"}
  /\ Concurrent \in BOOLEAN /\ Faults \in BOOLEAN

VARIABLES
  kind,    \* the kind of the file: it never changes
  target,  \* the inode <file> names, or NoInode
  lock,    \* the inode <file>.lock names, or NoInode
  data,    \* data[i]: the cells of inode i, each tagged with its value
  fd,      \* fd[p]: the inode p has open
  val,     \* val[p]: the content p is writing
  pc       \* where p is in newLockFile .. Close

vars == <<kind, target, lock, data, fd, val, pc>>

Steps == {"idle", "opening", "opened", "truncated", "written", "removing"}

(* The cells of a complete content v, and what is left of the cells old    *)
(* when v is written over them from offset 0.                              *)
Complete(v) == [i \in 1..Length[v] |-> v]

Overlay(old, v) ==
  [i \in 1..(IF Len(old) > Length[v] THEN Len(old) ELSE Length[v]) |->
     IF i <= Length[v] THEN v ELSE old[i]]

InUse == {target, lock} \cup {fd[p] : p \in Procs}

Init ==
  /\ kind \in Kinds
  /\ target = NoInode
  /\ lock = NoInode
  /\ data = [i \in Inodes |-> <<>>]
  /\ fd = [p \in Procs |-> NoInode]
  /\ val \in [Procs -> Values]
  /\ pc = [p \in Procs |-> "idle"]

(* A command that is about to replace the file with v. *)
Begin(p, v) ==
  /\ pc[p] = "idle"
  /\ Concurrent \/ \A q \in Procs : pc[q] = "idle"
  /\ val' = [val EXCEPT ![p] = v]
  /\ pc' = [pc EXCEPT ![p] = "opening"]
  /\ UNCHANGED <<kind, target, lock, data, fd>>

(* Mutants of OpenExisting: without O_TRUNC; waiting for a free lock. *)
OpenExistingUntruncated(p) ==
  /\ pc[p] = "opening"
  /\ lock # NoInode
  /\ fd' = [fd EXCEPT ![p] = lock]
  /\ pc' = [pc EXCEPT ![p] = "opened"]
  /\ UNCHANGED <<kind, target, lock, data, val>>

OpenExistingWaits(p) ==
  /\ pc[p] = "opening"
  /\ lock # NoInode
  /\ UNCHANGED vars

(* newLockFile: an existing lock file is opened and truncated, ... *)
OpenExisting(p) ==
  /\ pc[p] = "opening"
  /\ lock # NoInode
  /\ data' = [data EXCEPT ![lock] = <<>>]
  /\ fd' = [fd EXCEPT ![p] = lock]
  /\ pc' = [pc EXCEPT ![p] = "opened"]
  /\ UNCHANGED <<kind, target, lock, val>>

(* ... otherwise a new, empty one is created. *)
OpenNew(p) ==
  /\ pc[p] = "opening"
  /\ lock = NoInode
  /\ \E i \in Inodes \ InUse :
       /\ lock' = i
       /\ data' = [data EXCEPT ![i] = <<>>]
       /\ fd' = [fd EXCEPT ![p] = i]
  /\ pc' = [pc EXCEPT ![p] = "opened"]
  /\ UNCHANGED <<kind, target, val>>

(* index.Write truncates the open file once more. *)
Truncate(p) ==
  /\ pc[p] = "opened"
  /\ kind = "index"
  /\ data' = [data EXCEPT ![fd[p]] = <<>>]
  /\ pc' = [pc EXCEPT ![p] = "truncated"]
  /\ UNCHANGED <<kind, target, lock, fd, val>>

ReadyToWrite(p) == pc[p] = IF kind = "index" THEN "truncated" ELSE "opened"

(* The write goes to the inode p has open, whatever names it by now. *)
Write(p) ==
  /\ ReadyToWrite(p)
  /\ data' = [data EXCEPT ![fd[p]] = Overlay(data[fd[p]], val[p])]
  /\ pc' = [pc EXCEPT ![p] = "written"]
  /\ UNCHANGED <<kind, target, lock, fd, val>>

(* The write returns an error: Success stays false and Close removes the   *)
(* lock file without renaming it.                                          *)
WriteFails(p) ==
  /\ Faults
  /\ ReadyToWrite(p)
  /\ fd' = [fd EXCEPT ![p] = NoInode]
  /\ pc' = [pc EXCEPT ![p] = "removing"]
  /\ UNCHANGED <<kind, target, lock, data, val>>

(* Mutants of Rename: Success is set before the content is written; the    *)
(* lock stays open.                                                        *)
RenameUnwritten(p) ==
  /\ pc[p] \in {"opened", "written"}
  /\ lock # NoInode
  /\ target' = lock
  /\ lock' = NoInode
  /\ fd' = [fd EXCEPT ![p] = NoInode]
  /\ pc' = [pc EXCEPT ![p] = "idle"]
  /\ UNCHANGED <<kind, data, val>>

RenameUnclosed(p) ==
  /\ pc[p] = "written"
  /\ lock # NoInode
  /\ target' = lock
  /\ lock' = NoInode
  /\ pc' = [pc EXCEPT ![p] = "renamed"]
  /\ UNCHANGED <<kind, data, fd, val>>

(* Close with Success: rename whatever inode the lock entry names now. *)
Rename(p) ==
  /\ pc[p] = "written"
  /\ lock # NoInode
  /\ target' = lock
  /\ lock' = NoInode
  /\ fd' = [fd EXCEPT ![p] = NoInode]
  /\ pc' = [pc EXCEPT ![p] = "idle"]
  /\ UNCHANGED <<kind, data, val>>

(* The lock entry is gone, another process renamed or removed it: the      *)
(* error of os.Rename is dropped and Close goes on to os.Remove.           *)
RenameFails(p) ==
  /\ pc[p] = "written"
  /\ lock = NoInode
  /\ fd' = [fd EXCEPT ![p] = NoInode]
  /\ pc' = [pc EXCEPT ![p] = "removing"]
  /\ UNCHANGED <<kind, target, lock, data, val>>

(* Mutant of Remove: the failed write takes the file itself with it. *)
RemoveTarget(p) ==
  /\ pc[p] = "removing"
  /\ target' = NoInode
  /\ pc' = [pc EXCEPT ![p] = "idle"]
  /\ UNCHANGED <<kind, lock, data, fd, val>>

(* os.Remove(lockPath): removes the entry, even another process's. *)
Remove(p) ==
  /\ pc[p] = "removing"
  /\ lock' = NoInode
  /\ pc' = [pc EXCEPT ![p] = "idle"]
  /\ UNCHANGED <<kind, target, data, fd, val>>

(* p is killed: its descriptor is closed, the lock entry stays. *)
Crash(p) ==
  /\ Faults
  /\ pc[p] # "idle"
  /\ fd' = [fd EXCEPT ![p] = NoInode]
  /\ pc' = [pc EXCEPT ![p] = "idle"]
  /\ UNCHANGED <<kind, target, lock, data, val>>

Progress(p) ==
  \/ OpenExisting(p) \/ OpenNew(p) \/ Truncate(p) \/ Write(p)
  \/ WriteFails(p) \/ Rename(p) \/ RenameFails(p) \/ Remove(p)

Next ==
  \E p \in Procs :
    \/ \E v \in Values : Begin(p, v)
    \/ OpenExisting(p)
    \/ OpenNew(p)
    \/ Truncate(p)
    \/ Write(p)
    \/ WriteFails(p)
    \/ Rename(p)
    \/ RenameFails(p)
    \/ Remove(p)
    \/ Crash(p)

Spec == Init /\ [][Next]_vars

(* The operating system keeps running a process that has not been killed.  *)
(* Starting a command and killing it are the environment's choice.         *)
Fairness == \A p \in Procs : WF_vars(Progress(p))

FairSpec == Spec /\ Fairness
-----------------------------------------------------------------------------
TypeOK ==
  /\ kind \in Kinds
  /\ target \in Inodes \cup {NoInode}
  /\ lock \in Inodes \cup {NoInode}
  /\ data \in [Inodes -> Seq(Values)]
  /\ fd \in [Procs -> Inodes \cup {NoInode}]
  /\ val \in [Procs -> Values]
  /\ pc \in [Procs -> Steps]

(* What a reader of the file sees. *)
Content ==
  IF target = NoInode THEN Absent
  ELSE IF \E v \in Values : data[target] = Complete(v)
       THEN CHOOSE v \in Values : data[target] = Complete(v)
       ELSE data[target]

(* "lockFile implements atomic file writes via a temporary .lock file":    *)
(* a reader never sees an empty or a mixed file.                           *)
NeverTorn == target # NoInode => \E v \in Values : data[target] = Complete(v)

(* However commands overlap, once the last of them has closed its lock     *)
(* file the file is whole again: a writer whose lock was renamed away      *)
(* under it has finished writing the renamed inode by then.  It needs that *)
(* no writer is killed and that the contents are of one length, which they *)
(* are when every content is an object id.                                 *)
WholeWhenQuiet == (\A p \in Procs : pc[p] = "idle") => NeverTorn

(* A lock file left behind by a killed process never blocks a later        *)
(* command: every command that starts is over after finitely many steps.   *)
StaleLockNeverBlocks ==
  \A p \in Procs : pc[p] = "opening" ~> pc[p] = "idle"

(* The file behaves as AtomicFile says. *)
Abstract == INSTANCE AtomicFile WITH content <- Content
ImplementsAtomicFile == Abstract!ASpec
=============================================================================
