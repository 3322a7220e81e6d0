--------------------------- MODULE LockFileProofs ---------------------------
(***************************************************************************)
(* Proofs about LockFile for every set of processes, contents and inodes:  *)
(* with one command at a time the file is never torn, whatever is killed   *)
(* and whichever write fails, and it implements AtomicFile; overlapping    *)
(* commands that write contents of one length leave it whole.              *)
(***************************************************************************)
EXTENDS LockFile, TLAPS

(* What Overlay leaves when the file was truncated just before. *)
LEMMA OverlayEmpty ==
  ASSUME NEW v \in Values
  PROVE  Overlay(<<>>, v) = Complete(v)
BY LockFileAssumption DEF Overlay, Complete

LEMMA OverlayType ==
  ASSUME NEW v \in Values, NEW s \in Seq(Values)
  PROVE  Overlay(s, v) \in Seq(Values)
<1> DEFINE n == IF Len(s) > Length[v] THEN Len(s) ELSE Length[v]
<1>1. n \in Nat /\ Len(s) \in Nat /\ Length[v] \in Nat
  BY LockFileAssumption
<1>2. \A i \in 1..n : (IF i <= Length[v] THEN v ELSE s[i]) \in Values
  <2> SUFFICES ASSUME NEW i \in 1..n, ~(i <= Length[v]) PROVE s[i] \in Values
    OBVIOUS
  <2>1. i \in 1..Len(s)
    BY <1>1
  <2> QED BY <2>1
<1>3. Overlay(s, v) = [i \in 1..n |-> IF i <= Length[v] THEN v ELSE s[i]]
  BY DEF Overlay
<1> HIDE DEF n
<1> QED BY <1>1, <1>2, <1>3

(* TypeOK is an invariant: type correctness of the lock-file protocol,     *)
(* overlapping commands and faults included.                               *)
THEOREM TypeCorrect == Spec => []TypeOK
<1>1. Init => TypeOK
  BY DEF Init, TypeOK, Steps
<1>2. TypeOK /\ [Next]_vars => TypeOK'
  <2> SUFFICES ASSUME TypeOK, [Next]_vars PROVE TypeOK'
    OBVIOUS
  <2> USE DEF TypeOK, Steps
  <2>1. ASSUME NEW p \in Procs, NEW v \in Values, Begin(p, v) PROVE TypeOK'
    BY <2>1 DEF Begin
  <2>2. ASSUME NEW p \in Procs, OpenExisting(p) PROVE TypeOK'
    BY <2>2 DEF OpenExisting
  <2>3. ASSUME NEW p \in Procs, OpenNew(p) PROVE TypeOK'
    BY <2>3 DEF OpenNew
  <2>4. ASSUME NEW p \in Procs, Truncate(p) PROVE TypeOK'
    <3>1. <<>> \in Seq(Values)
      OBVIOUS
    <3>2. data' \in [Inodes -> Seq(Values)]
      BY <2>4, <3>1 DEF Truncate
    <3> QED BY <2>4, <3>2 DEF Truncate
  <2>5. ASSUME NEW p \in Procs, Write(p) PROVE TypeOK'
    <3>1. CASE fd[p] \in Inodes
      <4>1. Overlay(data[fd[p]], val[p]) \in Seq(Values)
        BY <3>1, OverlayType
      <4> QED BY <2>5, <4>1 DEF Write
    <3>2. CASE fd[p] \notin Inodes
      BY <2>5, <3>2 DEF Write
    <3> QED BY <3>1, <3>2
  <2>6. ASSUME NEW p \in Procs, WriteFails(p) PROVE TypeOK'
    BY <2>6 DEF WriteFails
  <2>7. ASSUME NEW p \in Procs, Rename(p) PROVE TypeOK'
    BY <2>7 DEF Rename
  <2>8. ASSUME NEW p \in Procs, RenameFails(p) PROVE TypeOK'
    BY <2>8 DEF RenameFails
  <2>9. ASSUME NEW p \in Procs, Remove(p) PROVE TypeOK'
    BY <2>9 DEF Remove
  <2>10. ASSUME NEW p \in Procs, Crash(p) PROVE TypeOK'
    BY <2>10 DEF Crash
  <2>11. CASE UNCHANGED vars
    BY <2>11 DEF vars
  <2> QED
    BY <2>1, <2>2, <2>3, <2>4, <2>5, <2>6, <2>7, <2>8, <2>9, <2>10, <2>11 DEF Next
<1> QED BY <1>1, <1>2, PTL DEF Spec
-----------------------------------------------------------------------------
(* The inductive invariant.  NeverTorn alone is not inductive: it needs    *)
(* that the inode about to be renamed is the one the process itself opened *)
(* and finished, and that nobody still writes to the inode of the file.    *)
Holding(p) == pc[p] \in {"opened", "truncated", "written"}

SerialInv ==
  /\ NeverTorn
  /\ lock # NoInode => lock # target
  /\ \A p, q \in Procs : pc[p] # "idle" /\ pc[q] # "idle" => p = q
  /\ \A p \in Procs : Holding(p) => fd[p] = lock /\ lock # NoInode
  /\ \A p \in Procs : pc[p] \in {"opened", "truncated"} => data[lock] = <<>>
  /\ \A p \in Procs : pc[p] = "written" => data[lock] = Complete(val[p])

LEMMA SerialInit == Init => SerialInv
BY LockFileAssumption DEF Init, SerialInv, NeverTorn, Holding

LEMMA SerialStep ==
  ASSUME TypeOK, SerialInv, ~Concurrent, [Next]_vars
  PROVE  SerialInv'
<1> USE LockFileAssumption DEF TypeOK, SerialInv, NeverTorn, Holding
<1>1. ASSUME NEW p \in Procs, NEW v \in Values, Begin(p, v) PROVE SerialInv'
  BY <1>1 DEF Begin
<1>2. ASSUME NEW p \in Procs, OpenExisting(p) PROVE SerialInv'
  BY <1>2 DEF OpenExisting
<1>3. ASSUME NEW p \in Procs, OpenNew(p) PROVE SerialInv'
  BY <1>3 DEF OpenNew, InUse
<1>4. ASSUME NEW p \in Procs, Truncate(p) PROVE SerialInv'
  BY <1>4 DEF Truncate
<1>5. ASSUME NEW p \in Procs, Write(p) PROVE SerialInv'
  <2>1. Overlay(<<>>, val[p]) = Complete(val[p])
    BY OverlayEmpty
  <2> QED BY <1>5, <2>1 DEF Write, ReadyToWrite
<1>6. ASSUME NEW p \in Procs, WriteFails(p) PROVE SerialInv'
  <2>1. Holding(p)
    BY <1>6 DEF WriteFails, ReadyToWrite
  <2>2. pc' = [pc EXCEPT ![p] = "removing"] /\ UNCHANGED <<kind, target, lock, data, val>>
        /\ fd' = [fd EXCEPT ![p] = NoInode]
    BY <1>6 DEF WriteFails
  <2>3. \A q \in Procs : q # p => pc[q] = "idle" /\ pc'[q] = "idle"
    BY <2>1, <2>2
  <2> QED BY <2>2, <2>3
<1>7. ASSUME NEW p \in Procs, Rename(p) PROVE SerialInv'
  BY <1>7 DEF Rename
<1>8. ASSUME NEW p \in Procs, RenameFails(p) PROVE SerialInv'
  BY <1>8 DEF RenameFails
<1>9. ASSUME NEW p \in Procs, Remove(p) PROVE SerialInv'
  BY <1>9 DEF Remove
<1>10. ASSUME NEW p \in Procs, Crash(p) PROVE SerialInv'
  BY <1>10 DEF Crash
<1>11. CASE UNCHANGED vars
  BY <1>11 DEF vars
<1> QED
  BY <1>1, <1>2, <1>3, <1>4, <1>5, <1>6, <1>7, <1>8, <1>9, <1>10, <1>11 DEF Next

(* NeverTorn for every instance: with one command at a time a reader finds *)
(* no file or one complete content, even after crashes and failed writes   *)
(* that left lock files of another length behind.                          *)
THEOREM SerialNeverTorn ==
  ASSUME ~Concurrent
  PROVE  Spec => []NeverTorn
<1>1. Init => SerialInv
  BY SerialInit
<1>2. TypeOK /\ SerialInv /\ [Next]_vars => SerialInv'
  BY SerialStep
<1>3. SerialInv => NeverTorn
  BY DEF SerialInv
<1> QED BY <1>1, <1>2, <1>3, TypeCorrect, PTL DEF Spec
-----------------------------------------------------------------------------
(* A step leaves the reader's view alone or replaces it by one value. *)
LEMMA ContentStep ==
  ASSUME TypeOK, SerialInv, ~Concurrent, [Next]_vars
  PROVE  [Abstract!ANext]_Content
<1> USE LockFileAssumption DEF TypeOK, SerialInv, Holding
<1>1. CASE \E p \in Procs : Rename(p)
  <2>1. PICK p \in Procs : Rename(p)
    BY <1>1
  <2>2. target' # NoInode /\ data'[target'] = Complete(val[p])
    BY <2>1 DEF Rename
  <2>3. Content' \in Values
    BY <2>2 DEF Content
  <2> QED BY <2>3 DEF Abstract!ANext, Abstract!AWrite
<1>2. CASE ~(\E p \in Procs : Rename(p))
  <2>1. target' = target /\ (target # NoInode => data'[target] = data[target])
    <3>1. CASE UNCHANGED vars
      BY <3>1 DEF vars
    <3>2. CASE Next
      BY <1>2, <3>2 DEF Next, Begin, OpenExisting, OpenNew, InUse, Truncate, Write,
           ReadyToWrite, WriteFails, RenameFails, Remove, Crash
    <3> QED BY <3>1, <3>2
  <2>2. Content' = Content
    BY <2>1 DEF Content
  <2> QED BY <2>2
<1> QED BY <1>1, <1>2

(* Refinement: seen by readers, the lock-file protocol run one command at  *)
(* a time is AtomicFile, each rename being one atomic write.               *)
THEOREM SerialRefinement ==
  ASSUME ~Concurrent
  PROVE  Spec => ImplementsAtomicFile
<1>1. Init => Abstract!AInit
  BY DEF Init, Abstract!AInit, Content
<1>2. TypeOK /\ SerialInv /\ [Next]_vars => SerialInv'
  BY SerialStep
<1>3. TypeOK /\ SerialInv /\ [Next]_vars => [Abstract!ANext]_Content
  BY ContentStep
<1> QED
  BY <1>1, <1>2, <1>3, SerialInit, TypeCorrect, PTL
  DEF Spec, ImplementsAtomicFile, Abstract!ASpec
-----------------------------------------------------------------------------
(* Overlapping commands.  An inode holds nothing or one whole content, and *)
(* whoever has emptied the file or its lock, even under another writer,    *)
(* has still to write it.                                                  *)
Whole(i) == \E v \in Values : data[i] = Complete(v)

WillWrite(p, i) == fd[p] = i /\ pc[p] \in {"opened", "truncated"}

QuietInv ==
  /\ \A i \in Inodes : data[i] = <<>> \/ Whole(i)
  /\ \A p \in Procs : Holding(p) => fd[p] \in Inodes
  /\ \A i \in {target, lock} \ {NoInode} : Whole(i) \/ \E p \in Procs : WillWrite(p, i)

OneLength == \A v, w \in Values : Length[v] = Length[w]

LEMMA OverlayWhole ==
  ASSUME OneLength, NEW v \in Values, NEW w \in Values
  PROVE  Overlay(Complete(w), v) = Complete(v)
<1>1. Length[v] \in Nat /\ Length[w] = Length[v]
  BY LockFileAssumption DEF OneLength
<1>2. Len(Complete(w)) = Length[v]
  BY <1>1 DEF Complete
<1> QED BY <1>1, <1>2 DEF Overlay, Complete

(* A step of p that changes the inodes D only, and empties one only when p *)
(* is going to write it.                                                   *)
LEMMA QuietFrame ==
  ASSUME TypeOK, QuietInv, NEW p \in Procs, NEW D \in SUBSET Inodes,
         \A q \in Procs : q # p => pc'[q] = pc[q] /\ fd'[q] = fd[q],
         \A i \in Inodes \ D : data'[i] = data[i],
         \A i \in D : Whole(i)' \/ (data'[i] = <<>> /\ WillWrite(p, i)'),
         Holding(p)' => fd'[p] \in Inodes,
         \A i \in Inodes \ D : WillWrite(p, i) => WillWrite(p, i)',
         {target', lock'} \subseteq {target, lock, NoInode} \cup D
  PROVE  QuietInv'
<1>1. \A i \in Inodes \ D : Whole(i)' = Whole(i)
  BY DEF Whole
<1>2. \A q \in Procs : q # p => (Holding(q)' => Holding(q))
  BY DEF Holding
<1>3. \A q \in Procs, i \in Inodes \ D : WillWrite(q, i) => WillWrite(q, i)'
  BY DEF WillWrite
<1>4. ASSUME NEW i \in Inodes PROVE (data[i] = <<>>)' \/ Whole(i)'
  BY <1>1, <1>4 DEF QuietInv
<1>5. ASSUME NEW q \in Procs, Holding(q)' PROVE fd'[q] \in Inodes
  BY <1>2, <1>5 DEF QuietInv
<1>6. ASSUME NEW i \in {target', lock'} \ {NoInode}
      PROVE  Whole(i)' \/ \E q \in Procs : WillWrite(q, i)'
  <2>1. CASE i \in D
    BY <2>1
  <2>2. CASE i \notin D
    <3>1. i \in {target, lock} \ {NoInode} /\ i \in Inodes \ D
      BY <1>6, <2>2 DEF TypeOK
    <3>2. Whole(i) \/ \E q \in Procs : WillWrite(q, i)
      BY <3>1 DEF QuietInv
    <3> QED BY <1>1, <1>3, <3>1, <3>2
  <2> QED BY <2>1, <2>2
<1> QED BY <1>4, <1>5, <1>6 DEF QuietInv

LEMMA QuietStep ==
  ASSUME TypeOK, QuietInv, OneLength, ~Faults, [Next]_vars
  PROVE  QuietInv'
<1> USE LockFileAssumption
<1>1. CASE UNCHANGED vars
  BY <1>1 DEF vars, QuietInv, Whole, WillWrite, Holding
<1>2. ASSUME NEW p \in Procs, \/ \E v \in Values : Begin(p, v)
                              \/ Rename(p) \/ RenameFails(p) \/ Remove(p)
      PROVE  QuietInv'
  <2>1. /\ {} \subseteq Inodes /\ \A i \in Inodes : data'[i] = data[i]
        /\ \A q \in Procs : q # p => pc'[q] = pc[q] /\ fd'[q] = fd[q]
        /\ ~Holding(p)' /\ \A i \in Inodes : ~WillWrite(p, i)
        /\ {target', lock'} \subseteq {target, lock, NoInode}
    BY <1>2 DEF TypeOK, Begin, Rename, RenameFails, Remove, Holding, WillWrite
  <2> DEFINE D == {}
  <2>2. /\ D \in SUBSET Inodes /\ \A i \in D : Whole(i)'
        /\ {target', lock'} \subseteq {target, lock, NoInode} \cup D
    BY <2>1
  <2> HIDE DEF D
  <2> QED BY <2>1, <2>2, QuietFrame
<1>3. ASSUME NEW p \in Procs, OpenExisting(p) \/ OpenNew(p) \/ Truncate(p)
      PROVE  QuietInv'
  <2>1. PICK i \in Inodes :
          /\ data' = [data EXCEPT ![i] = <<>>]
          /\ fd' = [fd EXCEPT ![p] = i] /\ pc'[p] \in {"opened", "truncated"}
          /\ \A q \in Procs : q # p => pc'[q] = pc[q]
          /\ {target', lock'} \subseteq {target, lock, i}
          /\ \A j \in Inodes \ {i} : ~WillWrite(p, j)
    <3>1. CASE OpenExisting(p)
      BY <3>1 DEF OpenExisting, TypeOK, WillWrite
    <3>2. CASE OpenNew(p)
      BY <3>2 DEF OpenNew, TypeOK, WillWrite
    <3>3. CASE Truncate(p)
      <4>1. fd[p] \in Inodes
        BY <3>3 DEF Truncate, QuietInv, Holding
      <4>2. fd' = [fd EXCEPT ![p] = fd[p]]
        BY <3>3 DEF Truncate, TypeOK
      <4> QED BY <3>3, <4>1, <4>2 DEF Truncate, TypeOK, WillWrite
    <3> QED BY <1>3, <3>1, <3>2, <3>3
  <2>2. /\ data'[i] = <<>> /\ \A j \in Inodes \ {i} : data'[j] = data[j]
        /\ fd'[p] = i /\ \A q \in Procs : q # p => fd'[q] = fd[q]
    BY <2>1 DEF TypeOK
  <2> DEFINE D == {i}
  <2>3. /\ D \in SUBSET Inodes
        /\ \A j \in D : data'[j] = <<>> /\ WillWrite(p, j)'
        /\ \A j \in Inodes \ D : data'[j] = data[j] /\ ~WillWrite(p, j)
        /\ {target', lock'} \subseteq {target, lock, NoInode} \cup D
        /\ fd'[p] \in Inodes
    BY <2>1, <2>2 DEF WillWrite
  <2> HIDE DEF D
  <2> QED BY <2>1, <2>2, <2>3, QuietFrame, SMTT(20)
<1>4. ASSUME NEW p \in Procs, Write(p) PROVE QuietInv'
  <2>1. fd[p] \in Inodes /\ val[p] \in Values
    BY <1>4 DEF Write, ReadyToWrite, QuietInv, Holding, TypeOK
  <2>2. Overlay(data[fd[p]], val[p]) = Complete(val[p])
    BY <2>1, OverlayEmpty, OverlayWhole DEF QuietInv, Whole
  <2>3. /\ data' = [data EXCEPT ![fd[p]] = Complete(val[p])]
        /\ pc' = [pc EXCEPT ![p] = "written"] /\ UNCHANGED <<target, lock, fd>>
    BY <1>4, <2>2 DEF Write
  <2>4. Whole(fd[p])'
    BY <2>1, <2>3 DEF Whole, TypeOK
  <2>5. /\ \A i \in Inodes \ {fd[p]} : data'[i] = data[i] /\ ~WillWrite(p, i)
        /\ \A q \in Procs : q # p => pc'[q] = pc[q] /\ fd'[q] = fd[q]
        /\ fd'[p] \in Inodes
    BY <2>1, <2>3 DEF WillWrite, TypeOK
  <2> DEFINE D == {fd[p]}
  <2>6. /\ D \in SUBSET Inodes /\ \A i \in D : Whole(i)'
        /\ \A i \in Inodes \ D : data'[i] = data[i] /\ ~WillWrite(p, i)
        /\ {target', lock'} \subseteq {target, lock, NoInode} \cup D
    BY <2>1, <2>3, <2>4, <2>5
  <2> HIDE DEF D
  <2> QED BY <2>5, <2>6, QuietFrame
<1>5. \A p \in Procs : ~WriteFails(p) /\ ~Crash(p)
  BY DEF WriteFails, Crash
<1> QED
  BY <1>1, <1>2, <1>3, <1>4, <1>5 DEF Next

(* WholeWhenQuiet for every instance: however many commands share a lock   *)
(* file, truncate it under each other and rename each other's, the file is *)
(* whole when the last of them is over, if none is killed and their        *)
(* contents are of one length.                                             *)
THEOREM QuietIsWhole ==
  ASSUME ~Faults, OneLength
  PROVE  Spec => []WholeWhenQuiet
<1>1. Init => QuietInv
  BY DEF Init, QuietInv, Holding, Whole, WillWrite
<1>2. TypeOK /\ QuietInv /\ [Next]_vars => QuietInv'
  BY QuietStep
<1>3. QuietInv => WholeWhenQuiet
  BY DEF QuietInv, WholeWhenQuiet, NeverTorn, Whole, WillWrite
<1> QED BY <1>1, <1>2, <1>3, TypeCorrect, PTL DEF Spec
=============================================================================
