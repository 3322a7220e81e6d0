------------------------ MODULE WorkTreeMergeProofs ------------------------
(***************************************************************************)
(* Proofs about commands that take the work dir from one tree to another,  *)
(* for every set of trees and whatever untracked files there are: a switch *)
(* or reset-dir from a clean checkout that succeeds ends in a clean        *)
(* checkout of its target, and a merge or cherry-pick from a clean         *)
(* checkout merges every path three-way, wherever diff3 finds conflicts.   *)
(***************************************************************************)
EXTENDS WorkTreeProofs


LastTypes ==
  last \in [cmd : StepCommands, force : BOOLEAN, status : {"none", "running", "ok"},
            clean : BOOLEAN, before : Files, old : Nat, new : Nat, base : Nat]

(* The note is about the command that runs, or about the last one. *)
NoteInv ==
  /\ LastTypes
  /\ run # Idle => run.cmd # "none"
  /\ last = NoLast \/ last.status # "none"
  /\ run # Idle => last.status # "ok"
  /\ last.status = "running" => run # Idle

FromClean == last.cmd \in {"switch", "reset-dir"} /\ last.clean

(* Where the tree new ends up when it is written over the files in before: *)
(* a regular file that was there keeps its mode.                           *)
Landed(before, new) == [p \in Paths |-> Overwritten(before[p], new[p])]

(* While files are moved from the tree old to the tree new: a path that is *)
(* still to do has its old entry and its old file, any other one the new.  *)
(* migrate removes files before it writes any, so that RemovePath and      *)
(* AddPath meet no other entry above or below the path.                    *)
LeftToDo(r) == {p \in Paths : p \in r.rm \/ r.put[p] # None}

Halfway(r, files, old, new, before) ==
  \A p \in Paths :
    /\ r.idx[p] = Staged(IF p \in LeftToDo(r) THEN old[p] ELSE Landed(before, new)[p])
    /\ files[p] = IF p \in LeftToDo(r) \/ (old[p] = None /\ new[p] = None)
                  THEN before[p] ELSE Landed(before, new)[p]

NoLinks(before, old, new) == LinksInTheWay(before, old, new) = {}

Moved(r, files, old, new, before) ==
  /\ r.touch
  /\ \A p \in Paths : old[p] # None => before[p] = old[p]
  /\ \A p \in r.rm : old[p] # None /\ new[p] = None
  /\ \A p \in Paths : r.put[p] # None => r.put[p] = new[p]
  /\ r.rm # {} => \A p \in Paths : new[p] \notin {None, old[p]} => r.put[p] # None
  /\ NoLinks(before, old, new) => Halfway(r, files, old, new, before)

FilesInv ==
  /\ last.old \in Commits \cup {NoCommit} /\ last.new \in Commits
  /\ NewConflicts = {}
  /\ Moved(run, work, TreeOf(last.old), TreeOf(last.new), last.before)

(* Then HEAD is written, the merge state removed, the index written. *)
IndexLanded ==
  NoLinks(last.before, TreeOf(last.old), TreeOf(last.new))
  => index = Plain(Landed(last.before, TreeOf(last.new)))

HeadInv ==
  LET shape == Shape(run.post)
  IN  \/ /\ shape \in {<<"head", "index">>, <<"head", "clear", "index">>}
         /\ Resolve(run.post[1][2]) = last.new
      \/ /\ shape \in {<<"tip", "index">>, <<"tip", "clear", "index">>}
         /\ run.post[1][2] = last.new
      \/ shape \in {<<"clear", "index">>, <<"index">>} /\ HeadCommit = last.new
      \/ /\ shape = <<>> /\ ~Migrating
         /\ HeadCommit = last.new /\ IndexLanded

SwitchInv == FromClean /\ last.status = "running" => FilesInv /\ HeadInv
-----------------------------------------------------------------------------
(* NoteInv is inductive. *)
LEMMA NoLastTypes == NoLast.cmd = "none" /\ NoLast.clean = FALSE /\ NoLast.status = "none"
                     /\ (last = NoLast => LastTypes) /\ (last' = NoLast => LastTypes')
<1>1. NoFiles \in Files
  BY IndexTypes DEF NoFiles
<1>2. NoLast \in [cmd : StepCommands, force : BOOLEAN, status : {"none", "running", "ok"},
                   clean : BOOLEAN, before : Files, old : Nat, new : Nat, base : Nat]
  BY <1>1 DEF NoLast, StepCommands, NoCommit
<1>3. NoLast.cmd = "none" /\ NoLast.clean = FALSE /\ NoLast.status = "none"
  BY DEF NoLast
<1> QED BY <1>2, <1>3 DEF LastTypes

LEMMA NoteTypes ==
  ASSUME TypeOK, NEW cmd \in StepCommands, NEW force \in BOOLEAN, NEW new \in Nat,
         NEW base \in Nat, last' = Note(cmd, force, new, base)
  PROVE  LastTypes' /\ last'.status = "running" /\ last'.cmd = cmd
<1>1. HeadCommit \in Nat
  BY HeadTypes DEF Commits, NoCommit
<1>2. (IF Clean THEN work ELSE NoFiles) \in Files
  BY IndexTypes DEF TypeOK, NoFiles
<1>3. Clean \in BOOLEAN
  BY DEF Clean
<1> QED BY <1>1, <1>2, <1>3 DEF Note, LastTypes

(* A step writes no note, a new one, or that the command has succeeded. *)
LEMMA NoteMoves ==
  ASSUME TypeOK, NoteInv, [Next]_vars
  PROVE  \/ last' = NoLast /\ (run' # Idle => run'.cmd # "none")
         \/ /\ run = Idle /\ run'.cmd # "none" /\ LastTypes' /\ last'.status = "running"
            /\ \/ last'.cmd \notin {"switch", "reset-dir"}
               \/ \E target \in Targets, force \in BOOLEAN :
                    Switch(target, force) \/ ResetDir(target, force)
            /\ \/ last'.cmd \notin Kinds
               \/ \E target \in Targets, kind \in Kinds :
                    MergeNew(kind, target) \/ MergeIntoEmpty(kind, target)
         \/ run # Idle /\ UNCHANGED last /\ run'.cmd = run.cmd
         \/ Return
         \/ UNCHANGED vars
<1>1. run \in Running(Len(commits))
  BY DEF TypeOK
<1>2. CASE UNCHANGED vars
  BY <1>2
<1>3. CASE Step
  <2>1. ASSUME NEW p \in Paths, RemoveFile(p) \/ PutFile(p)
        PROVE  run # Idle /\ UNCHANGED last /\ run'.cmd = run.cmd
    <3>1. p \in ToDo
      BY <2>1 DEF ToDo, RemoveFile, PutFile
    <3> QED BY <1>1, <2>1, <3>1, IdleFacts DEF RemoveFile, PutFile, Running
  <2>2. ASSUME NEW p \in Paths, PutFails(p) PROVE last' = NoLast /\ run' = Idle
    BY <2>2 DEF PutFails
  <2>3. CASE CommitFails
    BY <2>3 DEF CommitFails
  <2>4. CASE WriteIndex \/ ReplaceHead \/ MoveTip \/ RemoveMergeState \/ RecordMergeHead
               \/ RecordMergeMsg \/ CommitMerge
    <3>1. run # Idle /\ UNCHANGED last /\ Done1
      BY <2>4 DEF WriteIndex, ReplaceHead, MoveTip, RemoveMergeState, RecordMergeHead,
                  RecordMergeMsg, CommitMerge, Next1
    <3> QED BY <1>1, <3>1 DEF Done1, Running
  <2> QED BY <1>3, <2>1, <2>2, <2>3, <2>4 DEF Step
<1>4. CASE Next /\ ~Step
  <2>1. ASSUME NEW p \in Paths, NEW v, NEW force \in BOOLEAN,
               Edit(p, v) \/ Add(p) \/ Unadd(p) \/ Untrack(p, force)
        PROVE  last' = NoLast /\ run' = Idle
    BY <2>1 DEF Edit, Add, Unadd, Untrack, WriteIndexOnly, Ready
  <2>2. CASE Commit \/ (\E target \in Targets : ResetAdd(target)) \/ Crash
    BY <2>2 DEF Commit, ResetAdd, Crash, Ready
  <2>3. ASSUME NEW p \in Paths, NEW force \in BOOLEAN, Remove(p, force) \/ Restore(p)
        PROVE  last' = NoLast /\ run'.cmd # "none"
    BY <2>3 DEF Remove, Restore, Start, Idle
  <2>4. CASE MergeAbort \/ \E kind \in Kinds : MergeCont(kind)
    BY <2>4 DEF MergeAbort, MergeCont, SwitchDir, Start, Idle
  <2>5. ASSUME NEW target \in Targets, NEW force \in BOOLEAN,
               Switch(target, force) \/ Reset(target, force) \/ ResetDir(target, force)
        PROVE  /\ run = Idle /\ run'.cmd # "none" /\ LastTypes' /\ last'.status = "running"
               /\ last'.cmd \notin {"switch", "reset-dir"}
                    \/ Switch(target, force) \/ ResetDir(target, force)
               /\ last'.cmd \notin Kinds
    <3>1. Resolve(target) \in Nat /\ NoCommit \in Nat
      BY HeadTypes DEF Commits, NoCommit
    <3>2. PICK cmd \in {"switch", "reset", "reset-dir"} :
            /\ last' = Note(cmd, force, Resolve(target), NoCommit) /\ run'.cmd = cmd
            /\ cmd = "reset" \/ Switch(target, force) \/ ResetDir(target, force)
      BY <2>5 DEF Switch, Reset, ResetDir, SwitchDir, Start, Idle
    <3>3. cmd \in StepCommands /\ cmd \notin Kinds
      BY DEF StepCommands, Kinds
    <3>4. run = Idle
      BY <2>5 DEF Switch, Reset, ResetDir, Ready
    <3> QED BY <3>1, <3>2, <3>3, <3>4, NoteTypes
  <2>6. ASSUME NEW target \in Targets, NEW kind \in Kinds,
               MergeNew(kind, target) \/ MergeIntoEmpty(kind, target)
        PROVE  /\ run = Idle /\ run'.cmd # "none" /\ LastTypes' /\ last'.status = "running"
               /\ last'.cmd \notin {"switch", "reset-dir"}
    <3>1. Resolve(target) \in Commits
      BY HeadTypes
    <3>2. PICK base \in Bases(kind, HeadCommit, Resolve(target)) \cup {NoCommit} :
            last' = Note(kind, TRUE, Resolve(target), base)
      BY <2>6 DEF MergeNew, MergeIntoEmpty
    <3>3. Resolve(target) \in Nat /\ base \in Nat
      BY <3>1, <3>2, BasesTypes DEF Commits, NoCommit
    <3>4. run = Idle /\ run'.cmd = kind
      BY <2>6, ZenonT(30) DEF MergeNew, MergeIntoEmpty, StartMerge, Start, Idle, Ready
    <3>5. kind \in StepCommands /\ kind \notin {"none", "switch", "reset-dir"}
      BY DEF StepCommands, Kinds
    <3> QED BY <3>2, <3>3, <3>4, <3>5, NoteTypes
  <2> QED BY <1>4, <2>1, <2>2, <2>3, <2>4, <2>5, <2>6 DEF Next
<1> QED BY <1>2, <1>3, <1>4

LEMMA ReturnNote ==
  ASSUME NoteInv, Return
  PROVE  /\ LastTypes' /\ run' = Idle /\ last'.status # "running"
         /\ last' = NoLast \/ last'.status # "none"
         /\ last'.status = "ok" =>
              /\ last.status = "running"
              /\ last'.cmd = last.cmd /\ last'.clean = last.clean /\ last'.before = last.before
              /\ last'.old = last.old /\ last'.new = last.new /\ last'.base = last.base
<1>1. run' = Idle /\ run # Idle
  BY DEF Return
<1>2. CASE last = NoLast
  <2>1. last' = NoLast
    BY <1>2 DEF Return
  <2> QED BY <1>1, <2>1, NoLastTypes
<1>3. CASE last # NoLast
  <2>1. last' = [last EXCEPT !.status = "ok"]
    BY <1>3 DEF Return
  <2>2. LastTypes' /\ last'.status = "ok"
        /\ last'.cmd = last.cmd /\ last'.clean = last.clean /\ last'.before = last.before
        /\ last'.old = last.old /\ last'.new = last.new /\ last'.base = last.base
    BY <2>1 DEF NoteInv, LastTypes
  <2>3. last.status \in {"none", "running", "ok"}
    BY DEF NoteInv, LastTypes
  <2> QED BY <1>1, <1>3, <2>2, <2>3 DEF NoteInv
<1> QED BY <1>2, <1>3

LEMMA NoteStep ==
  ASSUME TypeOK, NoteInv, [Next]_vars
  PROVE  NoteInv'
<1>1. Idle.cmd = "none"
  BY IdleFacts
<1>2. CASE UNCHANGED vars
  BY <1>2 DEF vars, NoteInv, LastTypes
<1>3. CASE Return
  BY <1>3, ReturnNote DEF NoteInv
<1>4. CASE last' = NoLast /\ (run' # Idle => run'.cmd # "none")
  BY <1>4, NoLastTypes DEF NoteInv
<1>5. CASE run'.cmd # "none" /\ LastTypes' /\ last'.status = "running"
  BY <1>1, <1>5 DEF NoteInv
<1>6. CASE run # Idle /\ UNCHANGED last /\ run'.cmd = run.cmd
  BY <1>1, <1>6 DEF NoteInv, LastTypes
<1> QED BY <1>2, <1>3, <1>4, <1>5, <1>6, NoteMoves
-----------------------------------------------------------------------------
(* SwitchInv is inductive. *)
LEMMA TreeFacts ==
  ASSUME TypeOK, IndexInv, NEW c \in Commits \cup {NoCommit}
  PROVE  /\ TreeOf(c) \in Files /\ Flat(TreeOf(c))
         /\ \A p \in Paths : TreeOf(c)[p] \in Values
<1>1. TreeOf(c) \in Files
  BY HeadTypes
<1>2. Flat(EmptyTree)
  BY WorkTreeAssumption DEF Flat, EmptyTree
<1> QED BY <1>1, <1>2 DEF IndexInv, TreeOf, Files, Values

LEMMA LandedKeeps ==
  ASSUME NEW before \in Files, NEW new \in Files, NEW p \in Paths
  PROVE  /\ Landed(before, new)[p] \in Values
         /\ Landed(before, new)[p] = None <=> new[p] = None
         /\ before[p] = new[p] => Landed(before, new)[p] = new[p]
         /\ Landed(before, new)[p] = IF KeepsMode(before[p], new[p])
                                    THEN [text |-> new[p].text, mode |-> before[p].mode]
                                    ELSE new[p]
<1>1. /\ before[p] \in Values /\ new[p] \in Values
      /\ Landed(before, new)[p] = Overwritten(before[p], new[p])
  BY DEF Landed, Files, Values
<1>2. CASE KeepsMode(before[p], new[p])
  <2>1. new[p] \in Contents /\ before[p] # new[p] /\ new[p] # None
    BY <1>1, <1>2 DEF KeepsMode, Values
  <2>2. Overwritten(before[p], new[p]) = [new[p] EXCEPT !.mode = before[p].mode]
    BY <1>2 DEF Overwritten
  <2>3. [new[p] EXCEPT !.mode = before[p].mode] = [text |-> new[p].text, mode |-> before[p].mode]
    BY <2>1 DEF Contents
  <2>4. Overwritten(before[p], new[p]) \in Contents /\ None \notin Contents
    BY <1>1, <2>1, FileFacts, WorkTreeAssumption
  <2> QED BY <1>1, <1>2, <2>1, <2>2, <2>3, <2>4 DEF Values
<1>3. CASE ~KeepsMode(before[p], new[p])
  BY <1>1, <1>3 DEF Overwritten
<1> QED BY <1>2, <1>3

LEMMA LandedFacts ==
  ASSUME NEW before \in Files, NEW old \in Files, NEW new \in Files,
         \A p \in Paths : old[p] # None => before[p] = old[p]
  PROVE  /\ Landed(before, new) \in Files
         /\ \A p \in Paths :
              /\ Landed(before, new)[p] \in Values
              /\ Landed(before, new)[p] = None <=> new[p] = None
              /\ old[p] = new[p] => Landed(before, new)[p] = new[p]
         /\ Flat(new) => Flat(Landed(before, new))
<1>1. ASSUME NEW p \in Paths
      PROVE  /\ Landed(before, new)[p] \in Values
             /\ Landed(before, new)[p] = None <=> new[p] = None
             /\ old[p] = new[p] => Landed(before, new)[p] = new[p]
  <2>1. /\ Landed(before, new)[p] \in Values
        /\ Landed(before, new)[p] = None <=> new[p] = None
        /\ before[p] = new[p] => Landed(before, new)[p] = new[p]
    BY LandedKeeps
  <2> QED BY <2>1
<1>2. Landed(before, new) \in Files
  BY <1>1 DEF Landed, Files, Values
<1>3. Flat(new) => Flat(Landed(before, new))
  BY <1>1, WorkTreeAssumption DEF Flat
<1> QED BY <1>1, <1>2, <1>3

LEMMA HalfwayStart ==
  ASSUME NEW r, NEW before \in Files, NEW old \in Files, NEW new \in Files,
         \A p \in Paths : old[p] # None => before[p] = old[p],
         \A p \in Paths : r.idx[p] = Staged(old[p]),
         \A p \in Paths : old[p] # new[p] => p \in LeftToDo(r)
  PROVE  Halfway(r, before, old, new, before)
<1>1. \A p \in Paths : old[p] = new[p] => Landed(before, new)[p] = new[p]
  BY LandedFacts
<1> QED BY <1>1 DEF Halfway

LEMMA SwitchStart ==
  ASSUME TypeOK, IndexInv, NEW cmd, NEW headWrite, NEW target \in Commits, NEW force \in BOOLEAN,
         cmd # "abort", UNCHANGED <<commits, refs, work>>,
         SwitchDir(cmd, TRUE, headWrite, target, force),
         \/ headWrite[1] = "head" /\ Resolve(headWrite[2]) = target
         \/ headWrite[1] = "tip" /\ headWrite[2] = target
  PROVE  SwitchInv'
<1> DEFINE old == HeadTree
           new == TreeOf(target)
           rm == Removals(old, new)
           put == Additions(old, new)
           files == IF force THEN WithOurSides(rm, put) ELSE put
           post == <<headWrite>> \o (IF force THEN << <<"clear">> >> ELSE <<>>)
                                 \o << <<"index">> >>
<1>1. SUFFICES ASSUME FromClean' PROVE FilesInv' /\ HeadInv'
  BY DEF SwitchInv
<1>2. run' = Start(cmd, force, TRUE, rm, files, post)
      /\ last' = Note(cmd, force, target, NoCommit)
  BY Zenon DEF SwitchDir
<1>3. Clean /\ last'.before = work /\ last'.old = HeadCommit /\ last'.new = target
  BY <1>1, <1>2 DEF Note, FromClean
<1>4. HeadCommit \in Commits \cup {NoCommit} /\ old = TreeOf(HeadCommit)
  BY HeadTypes DEF HeadTree
<1>5. /\ old \in Files /\ new \in Files
      /\ \A p \in Paths : old[p] \in Values /\ new[p] \in Values
  BY <1>4, TreeFacts
<1>6. files = put
  <2>1. Conflicted(index) = {}
    BY <1>3, <1>5, PlainFacts DEF Clean
  <2>2. WithOurSides(rm, put) = put
    BY <2>1 DEF WithOurSides, Additions
  <2> QED BY <2>2
<1>7. /\ run'.rm = rm /\ run'.put = put /\ run'.idx = index /\ run'.touch = TRUE
      /\ run'.post = post /\ NewConflicts' = {}
  <2> HIDE DEF rm, put, files, post
  <2> QED BY <1>2, <1>6, StartFacts, ZenonT(30)
<1>8. FilesInv'
  <2>1. TreeOf(last.old)' = old /\ TreeOf(last.new)' = new
    BY <1>3, <1>4 DEF TreeOf
  <2>2. last'.old \in Commits' \cup {NoCommit} /\ last'.new \in Commits'
    BY <1>3, <1>4 DEF Commits
  <2>3. \A p \in Paths : index[p] = Staged(old[p]) /\ (old[p] # None => work[p] = old[p])
    BY <1>3, <1>5, PlainFacts DEF Clean
  <2>4. \A p \in rm : p \in Paths /\ old[p] # None /\ new[p] = None
    BY DEF Removals, Changed
  <2>5. \A p \in Paths : put[p] = IF old[p] # new[p] THEN new[p] ELSE None
    BY DEF Additions, Changed
  <2>6. \A p \in Paths : p \in LeftToDo(run') <=> old[p] # new[p]
    <3>1. \A p \in Paths : p \in rm <=> old[p] # new[p] /\ new[p] = None
      BY DEF Removals, Changed
    <3> HIDE DEF old, new, rm, put
    <3> QED BY <1>7, <2>5, <3>1 DEF LeftToDo
  <2> HIDE DEF old, new, rm, put
  <2>7. work \in Files
    BY DEF TypeOK
  <2>8. Halfway(run', work', old, new, last'.before)
    BY <1>3, <1>5, <1>7, <2>3, <2>6, <2>7, HalfwayStart
  <2>9. Moved(run', work', old, new, last'.before)
    BY <1>3, <1>7, <2>3, <2>4, <2>5, <2>8 DEF Moved
  <2> QED BY <1>7, <2>1, <2>2, <2>9 DEF FilesInv
<1>9. HeadInv'
  <2>1. Shape(run'.post) \in {<<"head", "index">>, <<"tip", "index">>,
                              <<"head", "clear", "index">>, <<"tip", "clear", "index">>}
    BY SwitchResolves
  <2>2. run'.post \in {<<headWrite, <<"index">> >>, <<headWrite, <<"clear">>, <<"index">> >>}
    <3>1. post = <<headWrite>> \o << <<"clear">> >> \o << <<"index">> >>
          \/ post = <<headWrite>> \o <<>> \o << <<"index">> >>
      OBVIOUS
    <3> HIDE DEF post
    <3> QED BY <1>7, <3>1, Joined
  <2>3. run'.post[1] = headWrite /\ Shape(run'.post)[1] = headWrite[1]
    BY <2>2 DEF Shape
  <2>4. Resolve(headWrite[2])' = Resolve(headWrite[2])
    BY DEF Resolve
  <2> QED BY <1>3, <2>1, <2>3, <2>4 DEF HeadInv, Resolve
<1> QED BY <1>8, <1>9

(* Of the paths at or below the file, no other is in the index; and where  *)
(* its directory is, no file stands.                                       *)
LEMMA RemoveFileMoves ==
  ASSUME TypeOK, Flat(work), NEW old \in Files, NEW new \in Files, Flat(old),
         NEW before \in Files,
         Moved(run, work, old, new, before), NEW p \in Paths, RemoveFile(p)
  PROVE  Moved(run', work', old, new, before)
<1> DEFINE land == Landed(before, new)
<1>1. /\ run \in Running(Len(commits)) /\ run.idx \in Index /\ run.put \in Files /\ work \in Files
      /\ run.touch
  BY DEF TypeOK, Running, Moved
<1>2. /\ p \in run.rm /\ run'.rm = run.rm \ {p} /\ run'.put = run.put /\ run'.touch = run.touch
      /\ run'.idx = RemovePath(run.idx, p) /\ work' = Without(work, p)
  BY <1>1 DEF RemoveFile, Running
<1>3. \A q \in Paths : old[q] \in Values /\ new[q] \in Values
  BY DEF Files, Values
<1>4. /\ \A q \in Paths : old[q] # None => before[q] = old[q]
      /\ \A q \in run.rm : old[q] # None /\ new[q] = None
      /\ \A q \in Paths : run.put[q] # None => run.put[q] = new[q]
      /\ \A q \in Paths : new[q] \notin {None, old[q]} => run.put[q] # None
  BY <1>2 DEF Moved
<1>5. LeftToDo(run') = LeftToDo(run) \ {p} /\ p \in LeftToDo(run)
  BY <1>2, <1>4 DEF LeftToDo
<1>6. /\ land \in Files
      /\ \A q \in Paths : /\ land[q] = None <=> new[q] = None
                          /\ old[q] = new[q] => land[q] = new[q]
  BY <1>4, LandedFacts
<1> HIDE DEF land
<1>7. ASSUME NoLinks(before, old, new) PROVE Halfway(run', work', old, new, before)
  <2>1. \A q \in Paths :
          /\ run.idx[q] = Staged(IF q \in LeftToDo(run) THEN old[q] ELSE land[q])
          /\ work[q] = IF q \in LeftToDo(run) \/ (old[q] = None /\ new[q] = None)
                       THEN before[q] ELSE land[q]
    BY <1>7 DEF Moved, Halfway, land
  <2>2. \A q \in Paths : run'.idx[q] = Staged(IF q \in LeftToDo(run') THEN old[q] ELSE land[q])
    <3>1. SUFFICES ASSUME NEW q \in Paths
                   PROVE  run'.idx[q] = Staged(IF q \in LeftToDo(run') THEN old[q] ELSE land[q])
      OBVIOUS
    <3>2. run'.idx[q] = IF q \in AtOrBelow(p) THEN NoEntry ELSE run.idx[q]
      BY <1>1, <1>2, RemovePathEffect
    <3>3. CASE q \notin AtOrBelow(p)
      <4>1. q # p
        BY <3>3 DEF AtOrBelow
      <4> QED BY <1>5, <2>1, <3>2, <3>3, <4>1
    <3>4. CASE q = p
      <4>1. land[p] = None /\ Staged(None) = NoEntry
        BY <1>2, <1>4, <1>6, EntryFacts DEF Values
      <4> QED BY <1>5, <3>2, <3>4, <4>1 DEF AtOrBelow
    <3>5. CASE q \in Below(p)
      <4>1. old[q] = None /\ q # p
        BY <1>2, <1>4, <3>5, WorkTreeAssumption DEF Flat, Below
      <4>2. q \in LeftToDo(run) \/ land[q] = None
        BY <1>4, <1>6, <4>1 DEF LeftToDo
      <4>3. Staged(None) = NoEntry
        BY EntryFacts DEF Values
      <4> QED BY <1>5, <3>2, <3>5, <4>1, <4>2, <4>3 DEF AtOrBelow
    <3> QED BY <3>3, <3>4, <3>5 DEF AtOrBelow
  <2>3. work[p] # None
    BY <1>2, <1>4, <1>5, <2>1
  <2>4. \A q \in Parent(p) : q \in Paths /\ work[q] = None
    BY <2>3, WorkTreeAssumption DEF Flat, Parent
  <2>5. work' = [work EXCEPT ![p] = None]
    <3>1. \A q \in Paths : Without(work, p)[q] = [work EXCEPT ![p] = None][q]
      BY <1>1, <2>4 DEF Without, Files
    <3>2. Without(work, p) = [q \in Paths |-> [work EXCEPT ![p] = None][q]]
      BY <3>1 DEF Without
    <3> QED BY <1>1, <1>2, <3>2 DEF Files
  <2>6. \A q \in Paths : work'[q] = IF q \in LeftToDo(run') \/ (old[q] = None /\ new[q] = None)
                                    THEN before[q] ELSE land[q]
    BY <1>1, <1>2, <1>4, <1>5, <1>6, <2>1, <2>5 DEF Files
  <2> QED BY <2>2, <2>6 DEF Halfway, land
<1> QED BY <1>1, <1>2, <1>4, <1>7 DEF Moved

(* To stage a file with no entry above or below it touches no other. *)
LEMMA AddFile ==
  ASSUME NEW idx \in Index, NEW files \in Files, NEW p \in Paths, FilesAt(files, p) = {p},
         Above[p] \cap Tracked(idx) = {}, Below(p) \cap Tracked(idx) = {}
  PROVE  \A q \in Paths : AddPath(idx, files, p)[q] = IF q = p THEN Staged(files[p]) ELSE idx[q]
<1> DEFINE added == FilesAt(files, p)
           above == {q \in Tracked(idx) : \E f \in added : q \in Above[f]}
           gone == UNION {AtOrBelow(q) : q \in above \cup added}
<1>1. \A q \in Paths : AddPath(idx, files, p)[q] =
        CASE q \in added -> Staged(files[q])
          [] q \in gone \ added -> NoEntry
          [] OTHER -> idx[q]
  BY DEF AddPath
<1>2. above = {}
  OBVIOUS
<1>3. added = {p}
  OBVIOUS
<1>4. gone = AtOrBelow(p)
  <2> HIDE DEF above, added
  <2> QED BY <1>2, <1>3
<1>5. \A q \in AtOrBelow(p) \ {p} : idx[q] = NoEntry
  BY DEF AtOrBelow, Below, Tracked
<1> HIDE DEF added, gone
<1> QED BY <1>1, <1>3, <1>4, <1>5

(* Of the paths above or below the file, none is in the index. *)
LEMMA PutFileMoves ==
  ASSUME TypeOK, NEW old \in Files, NEW new \in Files, Flat(new), NEW before \in Files,
         Moved(run, work, old, new, before), NEW p \in Paths, PutFile(p)
  PROVE  Moved(run', work', old, new, before)
<1> DEFINE land == Landed(before, new)
<1>1. /\ run \in Running(Len(commits)) /\ run.idx \in Index /\ run.put \in Files /\ work \in Files
      /\ work' \in Files /\ run.touch
  BY PutFileWork DEF TypeOK, Running, Moved
<1>2. /\ run.rm = {} /\ run'.rm = {} /\ run.put[p] # None
      /\ run'.put = [run.put EXCEPT ![p] = None] /\ run'.touch = run.touch
      /\ run'.idx = AddPath(run.idx, work', p)
      /\ ~FileAbove(work, p) /\ ~DirAt(work, p)
  BY <1>1 DEF PutFile, Running, CanPut
<1>3. \A q \in Paths : old[q] \in Values /\ new[q] \in Values
  BY DEF Files, Values
<1>4. /\ \A q \in Paths : old[q] # None => before[q] = old[q]
      /\ \A q \in Paths : run.put[q] # None => run.put[q] = new[q]
  BY DEF Moved
<1>5. /\ new[p] # None /\ run.put[p] = new[p]
      /\ \A q \in Paths : run'.put[q] = IF q = p THEN None ELSE run.put[q]
  BY <1>1, <1>2, <1>4 DEF Files
<1>6. /\ \A q \in Paths : q \in LeftToDo(run') <=> q \in LeftToDo(run) /\ q # p
      /\ \A q \in Paths : q \in LeftToDo(run) => new[q] # None
      /\ p \in LeftToDo(run)
  BY <1>2, <1>4, <1>5 DEF LeftToDo
<1>7. /\ land \in Files
      /\ \A q \in Paths : /\ land[q] \in Values
                          /\ land[q] = None <=> new[q] = None
      /\ land[p] = Overwritten(before[p], new[p])
  <2>1. land[p] = Overwritten(before[p], new[p])
    BY DEF Landed
  <2> QED BY <1>4, <2>1, LandedFacts
<1> HIDE DEF land
<1>8. ASSUME NoLinks(before, old, new) PROVE Halfway(run', work', old, new, before)
  <2>1. \A q \in Paths :
          /\ run.idx[q] = Staged(IF q \in LeftToDo(run) THEN old[q] ELSE land[q])
          /\ work[q] = IF q \in LeftToDo(run) \/ (old[q] = None /\ new[q] = None)
                       THEN before[q] ELSE land[q]
    BY <1>8 DEF Moved, Halfway, land
  <2>2. work[p] = before[p]
    BY <1>6, <2>1
  <2>3. ~Follows(p)
    <3>1. SUFFICES ASSUME IsLink(before[p]), ~IsLink(new[p]) PROVE FALSE
      BY <1>5, <2>2 DEF Follows
    <3>2. old[p] # new[p]
      BY <1>4, <1>5, <3>1
    <3> QED BY <1>5, <1>8, <3>1, <3>2 DEF NoLinks, LinksInTheWay, Changed
  <2>4. work' = [work EXCEPT ![p] = land[p]]
    BY <1>1, <1>5, <1>7, <2>2, <2>3, PutFileWork
  <2>5. work'[p] = land[p] /\ \A q \in Paths : q # p => work'[q] = work[q]
    BY <1>1, <2>4 DEF Files
  <2>6. FilesAt(work', p) = {p}
    <3>1. work'[p] # None
      BY <1>5, <1>7, <2>5
    <3>2. \A q \in Below(p) : q # p /\ q \in Paths /\ work[q] = None
      BY <1>2, WorkTreeAssumption DEF DirAt, Below
    <3> QED BY <2>5, <3>1, <3>2 DEF FilesAt, AtOrBelow
  <2>7. \A a \in Paths : new[a] = None => run.idx[a] = NoEntry
    <3>1. Staged(None) = NoEntry
      BY EntryFacts DEF Values
    <3> QED BY <1>6, <1>7, <2>1, <3>1
  <2>8. Above[p] \cap Tracked(run.idx) = {} /\ Below(p) \cap Tracked(run.idx) = {}
    BY <1>5, <2>7, WorkTreeAssumption DEF Flat, Below, Tracked
  <2>9. \A q \in Paths : run'.idx[q] = IF q = p THEN Staged(work'[p]) ELSE run.idx[q]
    <3>1. \A q \in Paths :
            AddPath(run.idx, work', p)[q] = IF q = p THEN Staged(work'[p]) ELSE run.idx[q]
      BY <1>1, <2>6, <2>8, AddFile
    <3> QED BY <1>2, <3>1
  <2>10. \A q \in Paths : run'.idx[q] = Staged(IF q \in LeftToDo(run') THEN old[q] ELSE land[q])
    BY <1>6, <2>1, <2>5, <2>9
  <2>11. \A q \in Paths : work'[q] = IF q \in LeftToDo(run') \/ (old[q] = None /\ new[q] = None)
                                     THEN before[q] ELSE land[q]
    BY <1>5, <1>6, <2>1, <2>5
  <2> QED BY <2>10, <2>11 DEF Halfway, land
<1>9. \A q \in Paths : run'.put[q] # None => run'.put[q] = new[q]
  BY <1>4, <1>5
<1>10. run'.rm = {} /\ run'.touch
  BY <1>1, <1>2
<1> QED BY <1>4, <1>8, <1>9, <1>10 DEF Moved

(* The steps that leave the files alone. *)
LEMMA StillMoved ==
  ASSUME NEW old, NEW new, NEW before, Moved(run, work, old, new, before), UNCHANGED work,
         run'.rm = run.rm, run'.put = run.put, run'.idx = run.idx, run'.touch = run.touch
  PROVE  Moved(run', work', old, new, before)
BY DEF Moved, Halfway, LeftToDo

LEMMA FileStepSwitch ==
  ASSUME TypeOK, IndexInv, NoteInv, FilesInv, NEW p \in Paths, RemoveFile(p) \/ PutFile(p)
  PROVE  FilesInv'
<1> DEFINE old == TreeOf(last.old)
           new == TreeOf(last.new)
<1>1. UNCHANGED <<commits, last>> /\ run'.conflicts = run.conflicts
  BY DEF RemoveFile, PutFile, repoVars, TypeOK, Running
<1>2. /\ last.old \in Commits \cup {NoCommit} /\ last.new \in Commits
      /\ Moved(run, work, old, new, last.before)
  BY DEF FilesInv
<1>3. old \in Files /\ new \in Files /\ Flat(old) /\ Flat(new)
  BY <1>2, TreeFacts
<1>4. TreeOf(last.old)' = old /\ TreeOf(last.new)' = new
  BY <1>1 DEF TreeOf
<1>5. NewConflicts' = NewConflicts
  BY <1>1 DEF NewConflicts
<1> HIDE DEF old, new
<1>6. Moved(run', work', old, new, last.before)
  <2>1. last.before \in Files /\ Flat(work)
    BY DEF NoteInv, LastTypes, IndexInv
  <2> QED BY <1>2, <1>3, <2>1, RemoveFileMoves, PutFileMoves
<1> QED BY <1>1, <1>2, <1>4, <1>5, <1>6 DEF FilesInv, Commits

(* With nothing left to do, the index is that of the target. *)
LEMMA WriteStepSwitch ==
  ASSUME TypeOK, IndexInv, FilesInv, HeadInv,
         WriteIndex \/ ReplaceHead \/ MoveTip \/ RemoveMergeState \/ RecordMergeHead
           \/ RecordMergeMsg \/ CommitMerge
  PROVE  FilesInv' /\ HeadInv'
<1> DEFINE shape == Shape(run.post)
           kind == run.post[1][1]
           new == TreeOf(last.new)
<1>1. run \in Running(Len(commits)) /\ Len(commits) \in Nat /\ run.post \in Seq(Writes(Len(commits)))
  BY HeadTypes DEF TypeOK, Running
<1>2. Done1 /\ ~Migrating /\ run.post # <<>> /\ UNCHANGED <<last, work>>
  BY DEF WriteIndex, ReplaceHead, MoveTip, RemoveMergeState, RecordMergeHead,
         RecordMergeMsg, CommitMerge, Next1
<1>3. /\ run'.post = Tail(run.post) /\ run'.rm = run.rm /\ run'.put = run.put
      /\ run'.idx = run.idx /\ run'.conflicts = run.conflicts /\ run'.touch = run.touch
  BY <1>1, <1>2 DEF Done1, Running
<1>4. Shape(run'.post) = Tail(shape) /\ shape[1] = kind /\ shape # <<>>
  BY <1>1, <1>2, <1>3, ShapeFacts
<1>5. \/ /\ shape \in {<<"head", "index">>, <<"head", "clear", "index">>}
         /\ Resolve(run.post[1][2]) = last.new
      \/ /\ shape \in {<<"tip", "index">>, <<"tip", "clear", "index">>}
         /\ run.post[1][2] = last.new
      \/ shape \in {<<"clear", "index">>, <<"index">>} /\ HeadCommit = last.new
  BY <1>4 DEF HeadInv
<1>6. ToDo = {} /\ ToDo' = {} /\ ~Migrating' /\ NewConflicts' = NewConflicts
  <2>1. ToDo = {}
    BY <1>2, MigratingFacts
  <2> QED BY <1>2, <1>3, <2>1 DEF ToDo, Migrating, NewConflicts
<1> HIDE DEF shape, kind
<1>7. kind \in {"head", "tip", "clear", "index"}
  BY <1>4, <1>5
<1>8. UNCHANGED commits
  BY <1>7 DEF WriteIndex, ReplaceHead, MoveTip, RemoveMergeState, RecordMergeHead,
              RecordMergeMsg, CommitMerge, Next1, kind, repoVars
<1>9. FilesInv'
  <2>1. TreeOf(last.old)' = TreeOf(last.old) /\ TreeOf(last.new)' = TreeOf(last.new)
    BY <1>2, <1>8 DEF TreeOf
  <2>2. Moved(run', work', TreeOf(last.old), TreeOf(last.new), last.before)
    BY <1>2, <1>3, StillMoved DEF FilesInv
  <2> QED BY <1>2, <1>6, <1>8, <2>1, <2>2 DEF FilesInv, Commits
<1>10. CASE kind \in {"head", "tip"}
  <2>1. HeadCommit' = last.new
    <3>1. CASE kind = "head"
      <4>1. ReplaceHead
        BY <3>1 DEF WriteIndex, ReplaceHead, MoveTip, RemoveMergeState, RecordMergeHead,
                    RecordMergeMsg, CommitMerge, Next1, kind
      <4>2. Resolve(run.post[1][2]) = last.new
        BY <1>4, <1>5, <3>1
      <4> QED BY <4>1, <4>2 DEF ReplaceHead, Resolve, HeadCommit
    <3>2. CASE kind = "tip"
      <4>1. MoveTip
        BY <3>2 DEF WriteIndex, ReplaceHead, MoveTip, RemoveMergeState, RecordMergeHead,
                    RecordMergeMsg, CommitMerge, Next1, kind
      <4>2. run.post[1][2] = last.new
        BY <1>4, <1>5, <3>2
      <4>3. refs \in Tips(Len(commits)) /\ head \in Heads(Len(commits))
        BY DEF TypeOK
      <4> QED BY <4>1, <4>2, <4>3 DEF MoveTip, UpdateHead, HeadCommit, Tips, Heads
    <3> QED BY <1>10, <3>1, <3>2
  <2>2. Shape(run'.post) \in {<<"clear", "index">>, <<"index">>}
    <3>1. /\ Tail(<<"head", "index">>) = <<"index">> /\ Tail(<<"tip", "index">>) = <<"index">>
          /\ Tail(<<"head", "clear", "index">>) = <<"clear", "index">>
          /\ Tail(<<"tip", "clear", "index">>) = <<"clear", "index">>
      OBVIOUS
    <3>2. shape \in {<<"head", "index">>, <<"head", "clear", "index">>,
                     <<"tip", "index">>, <<"tip", "clear", "index">>}
      BY <1>4, <1>5, <1>10
    <3> QED BY <1>4, <3>1, <3>2, Zenon
  <2> QED BY <1>2, <1>9, <2>1, <2>2 DEF HeadInv
<1>11. CASE kind = "clear"
  <2>1. HeadCommit' = HeadCommit
    BY <1>11 DEF WriteIndex, ReplaceHead, MoveTip, RemoveMergeState, RecordMergeHead,
                 RecordMergeMsg, CommitMerge, Next1, kind, HeadCommit
  <2>2. shape = <<"clear", "index">> /\ HeadCommit = last.new
    BY <1>4, <1>5, <1>11
  <2>3. Shape(run'.post) = <<"index">>
    BY <1>4, <2>2
  <2> QED BY <1>2, <1>9, <2>1, <2>2, <2>3 DEF HeadInv
<1>12. CASE kind = "index"
  <2>1. WriteIndex
    BY <1>12 DEF WriteIndex, ReplaceHead, MoveTip, RemoveMergeState, RecordMergeHead,
                 RecordMergeMsg, CommitMerge, Next1, kind
  <2>2. HeadCommit' = HeadCommit
    BY <2>1 DEF WriteIndex, repoVars, HeadCommit
  <2>3. shape = <<"index">> /\ HeadCommit = last.new
    BY <1>4, <1>5, <1>12
  <2>4. Shape(run'.post) = <<>>
    BY <1>4, <2>3
  <2>5. NoLinks(last.before, TreeOf(last.old), new) => index' = Plain(Landed(last.before, new))
    <3>1. NoLinks(last.before, TreeOf(last.old), new)
          => \A p \in Paths : run.conflicts[p] = NoEntry
                              /\ run.idx[p] = Staged(Landed(last.before, new)[p])
      BY <1>6 DEF FilesInv, NewConflicts, Moved, Halfway, LeftToDo, ToDo
    <3>2. index' = [p \in Paths |-> IF run.conflicts[p] # NoEntry THEN run.conflicts[p]
                                    ELSE run.idx[p]]
      BY <2>1 DEF WriteIndex
    <3> HIDE DEF new
    <3> QED BY <3>1, <3>2 DEF Plain
  <2>6. TreeOf(last.new)' = new /\ TreeOf(last.old)' = TreeOf(last.old)
    BY <1>2, <1>8 DEF TreeOf
  <2>7. IndexLanded'
    BY <1>2, <2>5, <2>6 DEF IndexLanded, NoLinks, LinksInTheWay, Changed, Landed, Plain
  <2> QED BY <1>2, <1>6, <1>9, <2>2, <2>3, <2>4, <2>7 DEF HeadInv
<1> QED BY <1>7, <1>10, <1>11, <1>12

LEMMA SwitchStep ==
  ASSUME TypeOK, IndexInv, NoteInv, SwitchInv, [Next]_vars
  PROVE  SwitchInv'
<1>1. CASE UNCHANGED vars
  <2>1. UNCHANGED <<commits, refs, head, index, work, run, last>>
    BY <1>1 DEF vars
  <2> QED BY <2>1, ZenonT(30) DEF SwitchInv, FromClean, FilesInv, HeadInv, TreeOf, Commits, NewConflicts,
                      Moved, Halfway, LeftToDo, IndexLanded, NoLinks, HeadCommit, Resolve,
                      Migrating, Plain
<1>2. CASE Return
  BY <1>2, ReturnNote DEF SwitchInv
<1>3. CASE last' = NoLast
  BY <1>3, NoLastTypes DEF SwitchInv, FromClean
<1>4. CASE last'.cmd \notin {"switch", "reset-dir"}
  BY <1>4 DEF SwitchInv, FromClean
<1>5. ASSUME NEW target \in Targets, NEW force \in BOOLEAN,
             Switch(target, force) \/ ResetDir(target, force)
      PROVE  SwitchInv'
  <2>1. UNCHANGED <<commits, refs, work>> /\ Resolve(target) \in Commits
    BY <1>5, HeadTypes DEF Switch, ResetDir, repoVars
  <2>2. CASE Switch(target, force)
    <3>1. SwitchDir("switch", TRUE, <<"head", target>>, Resolve(target), force)
      BY <2>2 DEF Switch
    <3> QED BY <2>1, <3>1, SwitchStart
  <2>3. CASE ResetDir(target, force)
    <3>1. SwitchDir("reset-dir", TRUE, <<"tip", Resolve(target)>>, Resolve(target), force)
      BY <2>3 DEF ResetDir
    <3> QED BY <2>1, <3>1, SwitchStart
  <2> QED BY <1>5, <2>2, <2>3
<1>6. CASE run # Idle /\ UNCHANGED last /\ last' # NoLast /\ Next /\ ~Return
  <2>1. SUFFICES ASSUME FromClean, last.status = "running"
                 PROVE  FilesInv' /\ HeadInv'
    BY <1>6 DEF SwitchInv, FromClean
  <2>2. FilesInv /\ HeadInv
    BY <2>1 DEF SwitchInv
  <2>3. ASSUME NEW p \in Paths, RemoveFile(p) \/ PutFile(p) PROVE FilesInv' /\ HeadInv'
    <3>1. run'.post = run.post /\ UNCHANGED <<refs, head, last>>
      BY <2>3 DEF RemoveFile, PutFile, repoVars, TypeOK, Running
    <3>2. p \in ToDo /\ Migrating
      BY <2>3, MigratingFacts DEF ToDo, RemoveFile, PutFile
    <3>3. HeadInv'
      BY <2>2, <3>1, <3>2 DEF HeadInv, HeadCommit, Resolve
    <3> QED BY <2>2, <2>3, <3>3, FileStepSwitch
  <2>4. Step
    BY <1>6, <2>1 DEF Next, Edit, Add, Unadd, Untrack, Remove, Restore, Commit, ResetAdd,
       Switch, Reset, ResetDir, MergeNew, MergeIntoEmpty, MergeCont, MergeAbort, Ready, Crash
  <2>5. \A p \in Paths : ~PutFails(p)
    BY <1>6 DEF PutFails
  <2>6. ~CommitFails
    BY <1>6 DEF CommitFails
  <2> QED BY <1>6, <2>2, <2>3, <2>4, <2>5, <2>6, WriteStepSwitch DEF Step
<1> QED BY <1>1, <1>2, <1>3, <1>4, <1>5, <1>6, NoteMoves

(* The command has returned: what its last step has left. *)
ExactCheckout ==
  /\ HeadCommit = last.new /\ last.new \in Commits
  /\ \A p \in Paths :
       /\ index[p] = Staged(Landed(last.before, TreeOf(last.new))[p])
       /\ work[p] = IF TreeOf(last.old)[p] = None /\ TreeOf(last.new)[p] = None
                    THEN last.before[p] ELSE Landed(last.before, TreeOf(last.new))[p]

ExactInv ==
  /\ last.status = "ok" /\ FromClean
  /\ NoLinks(last.before, TreeOf(last.old), TreeOf(last.new))
  => ExactCheckout

LEMMA ExactIsLanded ==
  ASSUME TypeOK, NoteInv, ExactInv
  PROVE  SwitchIsExact
<1> DEFINE new == TreeOf(last.new)
           Target(p) == IF KeepsMode(last.before[p], new[p])
                        THEN [text |-> new[p].text, mode |-> last.before[p].mode] ELSE new[p]
<1>1. SUFFICES ASSUME ExactCheckout
               PROVE  /\ HeadCommit = last.new
                      /\ \A p \in Paths :
                           /\ index[p] = Staged(Target(p))
                           /\ work[p] = IF new[p] # None THEN Target(p)
                                        ELSE IF TreeOf(last.old)[p] # None THEN None
                                        ELSE last.before[p]
  BY Zenon DEF SwitchIsExact, ExactInv, FromClean, NoLinks
<1>2. last.before \in Files /\ new \in Files
  BY <1>1, HeadTypes DEF ExactCheckout, NoteInv, LastTypes
<1>3. \A p \in Paths : /\ Landed(last.before, new)[p] = Target(p)
                       /\ Landed(last.before, new)[p] = None <=> new[p] = None
  <2> HIDE DEF new
  <2> QED BY <1>2, LandedKeeps
<1> HIDE DEF Target
<1> QED BY <1>1, <1>3 DEF ExactCheckout

LEMMA SwitchExactStep ==
  ASSUME TypeOK, IndexInv, NoteInv, SwitchInv, ExactInv, [Next]_vars
  PROVE  ExactInv'
<1> SUFFICES ASSUME last'.status = "ok", FromClean',
                    NoLinks(last.before, TreeOf(last.old), TreeOf(last.new))'
             PROVE  ExactCheckout'
  BY DEF ExactInv
<1>1. ASSUME UNCHANGED <<commits, refs, head, index, work>>, ExactCheckout,
             last'.old = last.old, last'.new = last.new, last'.before = last.before
      PROVE  ExactCheckout'
  BY <1>1 DEF ExactCheckout, Commits, TreeOf, HeadCommit, Landed
<1>2. CASE UNCHANGED vars
  <2>1. UNCHANGED <<commits, refs, head, index, work, run, last>>
    BY <1>2 DEF vars
  <2>2. ExactCheckout
    BY <2>1 DEF ExactInv, FromClean, TreeOf, NoLinks, LinksInTheWay, Changed
  <2> QED BY <1>1, <2>1, <2>2
<1>3. CASE Return
  <2>1. /\ last.status = "running" /\ FromClean
        /\ last'.old = last.old /\ last'.new = last.new /\ last'.before = last.before
    BY <1>3, ReturnNote DEF FromClean
  <2>2. UNCHANGED <<commits, refs, head, index, work>> /\ run.post = <<>> /\ ~Migrating
    BY <1>3 DEF Return, repoVars
  <2>3. FilesInv /\ HeadInv
    BY <2>1 DEF SwitchInv
  <2>4. Shape(run.post) = <<>> /\ ToDo = {}
    BY <2>2, EmptyShape, MigratingFacts
  <2>5. NoLinks(last.before, TreeOf(last.old), TreeOf(last.new))
    BY <2>1, <2>2 DEF TreeOf, NoLinks, LinksInTheWay, Changed
  <2>6. HeadCommit = last.new /\ index = Plain(Landed(last.before, TreeOf(last.new)))
    BY <2>3, <2>4, <2>5 DEF HeadInv, IndexLanded
  <2>7. \A p \in Paths : work[p] =
          IF TreeOf(last.old)[p] = None /\ TreeOf(last.new)[p] = None THEN last.before[p]
          ELSE Landed(last.before, TreeOf(last.new))[p]
    BY <2>3, <2>4, <2>5 DEF FilesInv, Moved, Halfway, LeftToDo, ToDo
  <2>8. ExactCheckout
    BY <2>3, <2>6, <2>7 DEF ExactCheckout, Plain, FilesInv
  <2> QED BY <1>1, <2>1, <2>2, <2>8
<1>4. CASE ~Return /\ ~UNCHANGED vars
  BY <1>4, NoteMoves, NoLastTypes DEF NoteInv
<1> QED BY <1>2, <1>3, <1>4

(* SwitchIsExact for every instance. *)
THEOREM SwitchExact == Spec => []SwitchIsExact
<1>1. Init => NoteInv /\ SwitchInv /\ ExactInv
  <2> SUFFICES ASSUME Init PROVE NoteInv /\ SwitchInv /\ ExactInv
    OBVIOUS
  <2>1. run = Idle /\ last = NoLast
    BY DEF Init
  <2> QED BY <2>1, NoLastTypes DEF NoteInv, SwitchInv, ExactInv, FromClean
<1>2. TypeOK /\ IndexInv /\ NoteInv /\ SwitchInv /\ ExactInv /\ [Next]_vars
      => NoteInv' /\ SwitchInv' /\ ExactInv'
  BY NoteStep, SwitchStep, SwitchExactStep
<1>3. TypeOK /\ NoteInv /\ ExactInv => SwitchIsExact
  BY ExactIsLanded
<1> QED BY <1>1, <1>2, <1>3, IndexInvariants, PTL DEF Spec
-----------------------------------------------------------------------------

(* What the merge of t and s over b makes of a path: the tree migrate goes *)
(* to, from that of our side.                                              *)
Clashes(b, t, s) == Clash(b, t, s) \cup Clash(b, s, t)
Touched(b, t, s) == Changed(b, s) \ {p \in Changed(b, t) : t[p] = s[p]}

Result(b, t, s) ==
  [p \in Paths |-> IF p \in Touched(b, t, s) \ Clashes(b, t, s) THEN Merged(b, t, s, p)
                   ELSE IF p \in Clash(b, t, s) THEN None
                   ELSE t[p]]

(* Conflicts without asking diff3. *)
Disputed(b, t, s) == Disputes(b, t, s) \cup Clashes(b, t, s)

LastBase == TreeOf(last.base)
LastOld == TreeOf(last.old)
LastNew == TreeOf(last.new)
Goal == Result(LastBase, LastOld, LastNew)
LinksAside == NoLinks(last.before, LastOld, Goal)

MergedFiles ==
  /\ last.base \in Commits /\ last.old \in Commits /\ last.new \in Commits
  /\ Disputed(LastBase, LastOld, LastNew) \subseteq NewConflicts
  /\ NewConflicts \subseteq Disputed(LastBase, LastOld, LastNew)
                              \cup ForDiff3(LastBase, LastOld, LastNew)
  /\ \A p \in NewConflicts :
       run.conflicts[p] = Unmerged(LastBase[p], LastOld[p], LastNew[p])
  /\ Moved(run, work, LastOld, Goal, last.before)

(* Then the index is written, and the merge goes on record, or HEAD to the *)
(* other side or to a commit of its own.                                   *)
IndexMerged ==
  LinksAside
  => index = [p \in Paths |->
                IF p \in NewConflicts THEN Unmerged(LastBase[p], LastOld[p], LastNew[p])
                ELSE Staged(Landed(last.before, Goal)[p])]

OntoRecord ==
  LET source == <<last.cmd, last.new>>
      record == <<"record", source>>
  IN  /\ HeadCommit = last.old
      /\ \/ run.post = << <<"index">>, record, <<"msg">> >>
         \/ run.post = <<record, <<"msg">> >> /\ IndexMerged
         \/ run.post = << <<"msg">> >> /\ IndexMerged /\ mergeHead = source
         \/ run.post = <<>> /\ IndexMerged /\ mergeHead = source

IntoHead ==
  LET tip == <<"tip", last.new>>
  IN  \/ run.post = << <<"index">>, tip>> /\ last.old = last.base
      \/ run.post = <<tip>> /\ last.old = last.base /\ IndexMerged
      \/ Shape(run.post) = <<"index", "commit">>
      \/ Shape(run.post) = <<"commit">> /\ IndexMerged
      \/ /\ run.post = <<>> /\ IndexMerged
         /\ \/ LinksAside => HeadTree = Landed(last.before, Goal)
            \/ HeadCommit = last.new /\ last.old = last.base

FromCleanMerge == last.cmd \in Kinds /\ last.clean /\ last.old # NoCommit

MergeInv ==
  FromCleanMerge /\ last.status = "running"
  => MergedFiles /\ IF NewConflicts # {} THEN OntoRecord ELSE IntoHead
-----------------------------------------------------------------------------
(* What the merge makes of a path. *)
LEMMA ResultFacts ==
  ASSUME NEW b \in Files, NEW t \in Files, NEW s \in Files
  PROVE  /\ Result(b, t, s) \in Files
         /\ \A p \in Paths : /\ b[p] \in Values /\ t[p] \in Values /\ s[p] \in Values
                             /\ Result(b, t, s)[p] \in Values
<1>1. \A p \in Paths : b[p] \in Values /\ t[p] \in Values /\ s[p] \in Values
  BY DEF Files, Values
<1>2. ASSUME NEW p \in Paths PROVE Merged(b, t, s, p) \in Values
  <2>1. p \in BothWrote(b, t, s) => t[p] \in Contents /\ s[p] \in Contents
    BY <1>1 DEF BothWrote, Values
  <2>2. p \in BothWrote(b, t, s) => MergedFile(b[p], t[p], s[p]) \in Values
    BY <1>1, <2>1, MergedFileTypes DEF Values
  <2> QED BY <1>1, <2>2 DEF Merged
<1>3. ASSUME NEW p \in Paths PROVE Result(b, t, s)[p] \in Values
  BY <1>1, <1>2 DEF Result, Values
<1>4. Result(b, t, s) \in Files
  BY <1>1, <1>2 DEF Result, Files, Values
<1> QED BY <1>1, <1>3, <1>4

(* The cases of a path outside of the clashes. *)
LEMMA ResultCases ==
  ASSUME NEW b \in Files, NEW t \in Files, NEW s \in Files,
         NEW p \in Paths, p \notin Clashes(b, t, s)
  PROVE  /\ s[p] = b[p] => Result(b, t, s)[p] = t[p]
         /\ s[p] # b[p] /\ t[p] \in {b[p], s[p]} => Result(b, t, s)[p] = s[p]
         /\ p \in BothWrote(b, t, s)
              => Result(b, t, s)[p] = MergedFile(b[p], t[p], s[p])
                 /\ MergedFile(b[p], t[p], s[p]) # None
         /\ s[p] # b[p] /\ t[p] = None => Result(b, t, s)[p] = s[p]
         /\ s[p] # b[p] /\ t[p] # b[p] /\ t[p] # s[p]
              => p \in BothChanged(b, t, s)
                 /\ (s[p] = None => Result(b, t, s)[p] = t[p])
<1>1. p \notin Clash(b, t, s)
  BY DEF Clashes
<1>2. Result(b, t, s)[p] = IF p \in Touched(b, t, s) THEN Merged(b, t, s, p) ELSE t[p]
  BY <1>1 DEF Result
<1>3. p \in BothWrote(b, t, s) => MergedFile(b[p], t[p], s[p]) # None
  <2>1. b[p] \in Values /\ t[p] \in Values /\ s[p] \in Values
    BY DEF Files, Values
  <2> QED BY <2>1, MergedFileTypes, WorkTreeAssumption DEF BothWrote, Values
<1> HIDE DEF MergedFile
<1> QED BY <1>2, <1>3 DEF Touched, Merged, Changed, BothChanged, BothWrote

LEMMA ClashFacts ==
  ASSUME NEW b \in Files, NEW t \in Files, NEW s \in Files
  PROVE  /\ \A p \in Clash(b, t, s) :
              p \in Paths /\ t[p] \notin {None, b[p]} /\ Result(b, t, s)[p] = None
         /\ \A p \in Clashes(b, t, s) : p \in Paths /\ (t[p] # None \/ s[p] # None)
         /\ \A p, q \in Paths :
              /\ p \in Above[q] /\ t[p] \notin {None, b[p]} /\ s[q] \notin {None, b[q]}
                 => p \in Clash(b, t, s)
              /\ p \in Above[q] /\ s[p] \notin {None, b[p]} /\ t[q] \notin {None, b[q]}
                 => p \in Clash(b, s, t)
BY DEF Clashes, Clash, Changed, Result, Touched

(* Where the other side has a file over our directory, ours has no file. *)
LEMMA ClashIsGone ==
  ASSUME NEW b \in Files, NEW t \in Files, NEW s \in Files, Flat(t),
         NEW p \in Clashes(b, t, s)
  PROVE  Result(b, t, s)[p] = None
<1>1. CASE p \in Clash(b, t, s)
  BY <1>1, ClashFacts
<1>2. CASE p \notin Clash(b, t, s)
  <2>1. PICK q \in Paths : t[q] # None /\ p \in Above[q]
    BY <1>2 DEF Clashes, Clash, Changed
  <2>2. p \in Paths /\ t[p] = None
    BY <2>1, ClashFacts DEF Flat
  <2> QED BY <1>2, <2>2 DEF Result
<1> QED BY <1>1, <1>2

(* Neither side has one file above another, so of two such files of the    *)
(* result each side has one and has put it there: a clash.                 *)
LEMMA ResultIsFlat ==
  ASSUME NEW b \in Files, NEW t \in Files, NEW s \in Files, Flat(t), Flat(s)
  PROVE  Flat(Result(b, t, s))
<1> DEFINE m == Result(b, t, s)
<1>1. SUFFICES ASSUME NEW p \in Paths, NEW q \in Above[p], m[p] # None, m[q] # None
               PROVE  FALSE
  BY DEF Flat
<1>2. q \in Paths
  BY WorkTreeAssumption
<1>3. p \notin Clashes(b, t, s) /\ q \notin Clashes(b, t, s)
  BY <1>1, ClashIsGone
<1>4. (t[p] = None \/ t[q] = None) /\ (s[p] = None \/ s[q] = None)
  BY DEF Flat
<1>5. ASSUME NEW r \in {p, q}
      PROVE  /\ t[r] # None \/ s[r] # None
             /\ s[r] = None => t[r] # b[r]
             /\ t[r] = None => s[r] # b[r]
  <2>1. r \in Paths /\ r \notin Clashes(b, t, s) /\ m[r] # None
    BY <1>1, <1>2, <1>3
  <2> QED BY <2>1, ResultCases DEF BothChanged, BothWrote, Changed
<1>6. CASE s[p] = None /\ t[q] = None
  <2>1. q \in Clash(b, s, t)
    BY <1>2, <1>5, <1>6, ClashFacts
  <2> QED BY <1>3, <2>1 DEF Clashes
<1>7. CASE t[p] = None /\ s[q] = None
  <2>1. q \in Clash(b, t, s)
    BY <1>2, <1>5, <1>7, ClashFacts
  <2> QED BY <1>3, <2>1 DEF Clashes
<1> QED BY <1>4, <1>5, <1>6, <1>7
-----------------------------------------------------------------------------
(* The plan of a merge that starts from a clean checkout. *)
LEMMA MergePlan ==
  ASSUME TypeOK, IndexInv, Clean, NEW kind, NEW source \in Commits, NEW base \in Commits,
         NEW failed3 \in SUBSET ForDiff3(TreeOf(base), HeadTree, TreeOf(source)),
         StartMerge(kind, source, base, failed3)
  PROVE  LET b == TreeOf(base)
             t == HeadTree
             s == TreeOf(source)
         IN  /\ run'.touch = TRUE /\ run'.idx = index
             /\ run'.rm \subseteq Paths
             /\ \A p \in Paths : p \in run'.rm <=> t[p] # None /\ Result(b, t, s)[p] = None
             /\ \A p \in Paths : run'.put[p] = IF p \in Touched(b, t, s) \ Clashes(b, t, s)
                                               THEN Result(b, t, s)[p] ELSE None
             /\ NewConflicts' = failed3 \cup Disputed(b, t, s)
             /\ \A p \in NewConflicts' : run'.conflicts[p] = Unmerged(b[p], t[p], s[p])
<1> DEFINE b == TreeOf(base)
           t == HeadTree
           s == TreeOf(source)
           clash == Clash(b, t, s) \cup Clash(b, s, t)
           conflicts == failed3 \cup Disputes(b, t, s) \cup clash
           touched == Changed(b, s) \ {p \in Changed(b, t) : t[p] = s[p]}
           rm == Clash(b, t, s) \cup {p \in touched \ clash : Merged(b, t, s, p) = None}
           put == [p \in Paths |-> IF p \in touched \ clash THEN Merged(b, t, s, p) ELSE None]
           marks == [p \in Paths |-> IF p \in conflicts
                                     THEN Unmerged(b[p], t[p], s[p]) ELSE NoEntry]
<1>1. b \in Files /\ t \in Files /\ s \in Files
  BY HeadTypes
<1>2. /\ run'.touch = TRUE /\ run'.idx = index /\ run'.rm = rm
      /\ run'.put = WithOurSides(rm, put) /\ run'.conflicts = marks
  BY Zenon DEF StartMerge, Start, Idle
<1>3. WithOurSides(rm, put) = put
  <2>1. Conflicted(index) = {}
    BY <1>1, PlainFacts DEF Clean
  <2>2. WithOurSides(rm, put) = [p \in Paths |-> put[p]]
    BY <2>1 DEF WithOurSides
  <2> QED BY <2>2
<1>4. clash = Clashes(b, t, s) /\ touched = Touched(b, t, s)
  BY DEF Clashes, Touched
<1>5. \A p \in Paths : put[p] = IF p \in Touched(b, t, s) \ Clashes(b, t, s)
                                THEN Result(b, t, s)[p] ELSE None
  BY <1>4 DEF Result
<1>6. rm \subseteq Paths /\ \A p \in Paths : p \in rm <=> t[p] # None /\ Result(b, t, s)[p] = None
  <2>1. ASSUME NEW p \in Paths
        PROVE  p \in rm <=> t[p] # None /\ Result(b, t, s)[p] = None
    <3>1. CASE p \in Clash(b, t, s)
      BY <1>1, <3>1, ClashFacts
    <3>2. CASE p \in clash /\ p \notin Clash(b, t, s)
      BY <1>4, <3>2 DEF Result
    <3>3. CASE p \notin clash /\ p \notin touched
      BY <1>4, <3>3 DEF Result
    <3>4. CASE p \notin clash /\ p \in touched
      <4>1. Result(b, t, s)[p] = Merged(b, t, s, p)
        BY <1>4, <3>4 DEF Result
      <4>2. p \in rm <=> Result(b, t, s)[p] = None
        BY <3>4, <4>1
      <4>3. t[p] = None => Result(b, t, s)[p] # None
        BY <3>4, <4>1 DEF Merged, BothWrote, BothChanged, Changed
      <4> QED BY <4>2, <4>3
    <3> QED BY <3>1, <3>2, <3>3, <3>4
  <2>2. rm \subseteq Paths
    BY DEF Clash, Changed
  <2> HIDE DEF rm
  <2> QED BY <2>1, <2>2
<1>7. conflicts = failed3 \cup Disputed(b, t, s)
  BY <1>4 DEF Disputed
<1>8. /\ NewConflicts' = conflicts
      /\ \A p \in conflicts : run'.conflicts[p] = Unmerged(b[p], t[p], s[p])
  <2>1. \A p \in conflicts : p \in Paths /\ (t[p] # None \/ s[p] # None)
    BY <1>1, <1>4, ClashFacts DEF Disputes, BothChanged, BothWrote, ForDiff3, Changed
  <2>2. \A p \in conflicts : Unmerged(b[p], t[p], s[p]) # NoEntry
    BY <1>1, <2>1, ResultFacts, EntryFacts
  <2> HIDE DEF conflicts
  <2> QED BY <1>2, <2>1, <2>2 DEF NewConflicts
<1> HIDE DEF conflicts, rm, put
<1> QED BY <1>2, <1>3, <1>5, <1>6, <1>7, <1>8

LEMMA MergeFilesStart ==
  ASSUME TypeOK, IndexInv, Clean, NEW kind, NEW source \in Commits, NEW base \in Commits,
         NEW failed3 \in SUBSET ForDiff3(TreeOf(base), HeadTree, TreeOf(source)),
         StartMerge(kind, source, base, failed3), HeadCommit # NoCommit,
         last' = Note(kind, TRUE, source, base), UNCHANGED <<commits, work>>
  PROVE  MergedFiles'
<1> DEFINE b == TreeOf(base)
           t == HeadTree
           s == TreeOf(source)
           m == Result(b, t, s)
<1>1. b \in Files /\ t \in Files /\ s \in Files
  BY HeadTypes
<1>2. /\ last'.before = work /\ last'.old = HeadCommit /\ last'.new = source
      /\ last'.base = base
  BY DEF Note
<1>3. HeadCommit \in Commits /\ t = TreeOf(HeadCommit)
  BY HeadTypes DEF HeadTree
<1>4. LastBase' = b /\ LastOld' = t /\ LastNew' = s
  BY <1>2, <1>3 DEF LastBase, LastOld, LastNew, TreeOf
<1>5. last'.base \in Commits' /\ last'.old \in Commits' /\ last'.new \in Commits'
  BY <1>2, <1>3 DEF Commits
<1>6. /\ run'.touch = TRUE /\ run'.idx = index
      /\ run'.rm \subseteq Paths
      /\ \A p \in Paths : p \in run'.rm <=> t[p] # None /\ m[p] = None
      /\ \A p \in Paths : run'.put[p] = IF p \in Touched(b, t, s) \ Clashes(b, t, s)
                                        THEN m[p] ELSE None
      /\ NewConflicts' = failed3 \cup Disputed(b, t, s)
      /\ \A p \in NewConflicts' : run'.conflicts[p] = Unmerged(b[p], t[p], s[p])
  BY MergePlan, ZenonT(30)
<1> HIDE DEF b, t, s
<1>7. failed3 \subseteq ForDiff3(b, t, s)
  BY DEF b, t, s
<1>8. Moved(run', work', t, m, last'.before)
  <2>1. \A p \in Paths : index[p] = Staged(t[p]) /\ (t[p] # None => work[p] = t[p])
    BY <1>1, PlainFacts DEF Clean, t
  <2>2. \A p \in Paths : m[p] # t[p] /\ m[p] # None => p \in Touched(b, t, s) \ Clashes(b, t, s)
    <3>1. \A p \in Paths : p \notin Touched(b, t, s) \ Clashes(b, t, s)
                           => m[p] = IF p \in Clash(b, t, s) THEN None ELSE t[p]
      BY DEF Result
    <3> QED BY <3>1
  <2>3. work \in Files /\ m \in Files
    BY <1>1, ResultFacts DEF TypeOK
  <2> HIDE DEF m
  <2>4. \A p \in Paths : m[p] # t[p] => p \in LeftToDo(run')
    BY <1>6, <2>2 DEF LeftToDo
  <2>5. Halfway(run', work', t, m, last'.before)
    BY <1>1, <1>2, <1>6, <2>1, <2>3, <2>4, HalfwayStart
  <2> QED BY <1>2, <1>6, <2>1, <2>2, <2>5 DEF Moved
<1> HIDE DEF m
<1>9. Moved(run', work', LastOld', Goal', last'.before)
  BY <1>4, <1>8 DEF m, Goal
<1> QED BY <1>4, <1>5, <1>6, <1>7, <1>9 DEF MergedFiles
-----------------------------------------------------------------------------
(* What follows the files: the record if there are conflicts. *)
LEMMA MergePost ==
  ASSUME TypeOK, IndexInv, Clean, NEW kind, NEW source \in Commits, NEW base \in Commits,
         NEW failed3 \in SUBSET ForDiff3(TreeOf(base), HeadTree, TreeOf(source)),
         StartMerge(kind, source, base, failed3)
  PROVE  IF NewConflicts' # {}
         THEN run'.post = << <<"index">>, <<"record", <<kind, source>> >>, <<"msg">> >>
         ELSE \/ run'.post = << <<"index">>, <<"tip", source>> >> /\ HeadCommit = base
              \/ Shape(run'.post) = <<"index", "commit">>
<1> DEFINE b == TreeOf(base)
           t == HeadTree
           s == TreeOf(source)
           clash == Clash(b, t, s) \cup Clash(b, s, t)
           conflicts == failed3 \cup Disputes(b, t, s) \cup clash
           parents == IF kind = "merge" THEN <<HeadCommit, source>> ELSE <<HeadCommit>>
           rest == IF conflicts # {} THEN << <<"record", <<kind, source>> >>, <<"msg">> >>
                   ELSE IF HeadCommit = base THEN << <<"tip", source>> >>
                   ELSE << <<"commit", parents>> >>
<1>1. run'.post = << <<"index">> >> \o rest
  BY Zenon DEF StartMerge, Start, Idle
<1>2. NewConflicts' = conflicts
  <2>1. NewConflicts' = failed3 \cup Disputed(b, t, s)
    BY MergePlan, ZenonT(30)
  <2> QED BY <2>1 DEF Disputed, Clashes
<1>3. CASE conflicts # {}
  <2>1. rest = << <<"record", <<kind, source>> >>, <<"msg">> >>
    BY <1>3
  <2> HIDE DEF rest, conflicts
  <2>2. run'.post = << <<"index">>, <<"record", <<kind, source>> >>, <<"msg">> >>
    BY <1>1, <2>1, Joined
  <2> QED BY <1>2, <1>3, <2>2
<1>4. CASE conflicts = {} /\ HeadCommit = base
  <2>1. rest = << <<"tip", source>> >>
    BY <1>4
  <2> HIDE DEF rest, conflicts
  <2>2. run'.post = << <<"index">>, <<"tip", source>> >>
    BY <1>1, <2>1, Joined
  <2> QED BY <1>2, <1>4, <2>2
<1>5. CASE conflicts = {} /\ HeadCommit # base
  <2>1. rest = << <<"commit", parents>> >>
    BY <1>5
  <2> HIDE DEF rest, conflicts
  <2>2. run'.post = << <<"index">>, <<"commit", parents>> >>
    BY <1>1, <2>1, Joined
  <2>3. Shape(run'.post) = <<"index", "commit">>
    BY <2>2 DEF Shape
  <2> QED BY <1>2, <1>5, <2>3
<1> QED BY <1>3, <1>4, <1>5

LEMMA MergeStart ==
  ASSUME TypeOK, IndexInv, NEW kind \in Kinds, NEW target \in Targets, MergeNew(kind, target)
  PROVE  MergeInv'
<1>1. SUFFICES ASSUME FromCleanMerge'
               PROVE  MergedFiles' /\ IF NewConflicts' # {} THEN OntoRecord' ELSE IntoHead'
  BY DEF MergeInv
<1> DEFINE source == Resolve(target)
<1>2. source \in Commits /\ HeadCommit # NoCommit
  BY HeadTypes DEF MergeNew
<1>3. PICK base \in Bases(kind, HeadCommit, source) :
        /\ \E failed3 \in SUBSET ForDiff3(TreeOf(base), HeadTree, TreeOf(source)) :
             StartMerge(kind, source, base, failed3)
        /\ last' = Note(kind, TRUE, source, base)
  BY Zenon DEF MergeNew
<1>4. PICK failed3 \in SUBSET ForDiff3(TreeOf(base), HeadTree, TreeOf(source)) :
        StartMerge(kind, source, base, failed3)
  BY <1>3
<1> HIDE DEF source
<1>5. base \in Commits
  BY <1>2, <1>3, BasesTypes
<1>6. Clean /\ last'.cmd = kind /\ last'.old = HeadCommit /\ last'.new = source /\ last'.base = base
  BY <1>1, <1>3 DEF Note, FromCleanMerge
<1>7. UNCHANGED <<commits, refs, head, work>>
  BY DEF MergeNew, repoVars
<1>8. MergedFiles'
  BY <1>2, <1>3, <1>4, <1>5, <1>6, <1>7, MergeFilesStart
<1>9. IF NewConflicts' # {}
      THEN run'.post = << <<"index">>, <<"record", <<kind, source>> >>, <<"msg">> >>
      ELSE \/ run'.post = << <<"index">>, <<"tip", source>> >> /\ HeadCommit = base
           \/ Shape(run'.post) = <<"index", "commit">>
  BY <1>2, <1>4, <1>5, <1>6, MergePost
<1>10. HeadCommit' = HeadCommit
  BY <1>7 DEF HeadCommit
<1> QED BY <1>6, <1>8, <1>9, <1>10 DEF OntoRecord, IntoHead
-----------------------------------------------------------------------------
(* The trees a merge began with stay, whatever is committed. *)
LEMMA TreesStay ==
  ASSUME TypeOK, UNCHANGED commits \/ \E parents : WriteCommit(parents), NEW c \in Commits
  PROVE  c \in Commits' /\ TreeOf(c)' = TreeOf(c)
<1>1. CASE UNCHANGED commits
  BY <1>1 DEF Commits, TreeOf
<1>2. ASSUME NEW parents, WriteCommit(parents)
      PROVE  c \in Commits' /\ TreeOf(c)' = TreeOf(c)
  <2> DEFINE new == [tree |-> TreeOfIndex(index), parents |-> parents]
  <2>1. commits \in Seq(CommitObjects) /\ commits' = Append(commits, new)
    BY <1>2 DEF TypeOK, WriteCommit
  <2> HIDE DEF new
  <2>2. Len(commits') = Len(commits) + 1 /\ Len(commits) \in Nat /\ commits'[c] = commits[c]
    BY <2>1 DEF Commits
  <2> QED BY <2>2 DEF Commits, TreeOf
<1> QED BY <1>1, <1>2

LEMMA MergeFrame ==
  ASSUME TypeOK, MergedFiles, UNCHANGED last, run'.conflicts = run.conflicts,
         UNCHANGED commits \/ \E parents : WriteCommit(parents)
  PROVE  /\ LastBase' = LastBase /\ LastOld' = LastOld /\ LastNew' = LastNew
         /\ Goal' = Goal /\ LinksAside' = LinksAside
         /\ last'.base \in Commits' /\ last'.old \in Commits' /\ last'.new \in Commits'
         /\ NewConflicts' = NewConflicts
         /\ UNCHANGED index /\ IndexMerged => IndexMerged'
         /\ Moved(run', work', LastOld, Goal, last.before) => MergedFiles'
<1>1. last.base \in Commits /\ last.old \in Commits /\ last.new \in Commits
  BY DEF MergedFiles
<1>2. \A c \in Commits : c \in Commits' /\ TreeOf(c)' = TreeOf(c)
  BY TreesStay
<1>3. LastBase' = LastBase /\ LastOld' = LastOld /\ LastNew' = LastNew
  BY <1>1, <1>2 DEF LastBase, LastOld, LastNew, TreeOf
<1>4. last'.base \in Commits' /\ last'.old \in Commits' /\ last'.new \in Commits'
  BY <1>1, <1>2
<1>5. NewConflicts' = NewConflicts
  BY DEF NewConflicts
<1>6. Goal' = Goal
  BY <1>3 DEF Goal, Result, Touched, Clashes, Merged
<1>7. LinksAside' = LinksAside
  BY <1>3, <1>6 DEF LinksAside, NoLinks, LinksInTheWay, Changed
<1>8. UNCHANGED index /\ IndexMerged => IndexMerged'
  BY <1>3, <1>5, <1>6, <1>7 DEF IndexMerged, Landed
<1>9. Moved(run', work', LastOld, Goal, last.before) => MergedFiles'
  BY <1>3, <1>4, <1>5, <1>6 DEF MergedFiles
<1> QED BY <1>3, <1>4, <1>5, <1>6, <1>7, <1>8, <1>9

LEMMA FileStepMerge ==
  ASSUME TypeOK, IndexInv, NoteInv, MergedFiles, NEW p \in Paths, RemoveFile(p) \/ PutFile(p)
  PROVE  MergedFiles'
<1> DEFINE old == LastOld
           new == Goal
<1>1. UNCHANGED <<commits, last>> /\ run'.conflicts = run.conflicts
  BY DEF RemoveFile, PutFile, repoVars, TypeOK, Running
<1>2. /\ LastBase \in Files /\ old \in Files /\ LastNew \in Files
      /\ Flat(old) /\ Flat(LastNew)
  BY TreeFacts DEF MergedFiles, LastBase, LastOld, LastNew
<1>3. new \in Files /\ Flat(new)
  BY <1>2, ResultFacts, ResultIsFlat DEF Goal
<1>4. Moved(run, work, old, new, last.before)
  BY DEF MergedFiles
<1> HIDE DEF old, new
<1>5. Moved(run', work', old, new, last.before)
  <2>1. last.before \in Files /\ Flat(work)
    BY DEF NoteInv, LastTypes, IndexInv
  <2> QED BY <1>2, <1>3, <1>4, <2>1, RemoveFileMoves, PutFileMoves
<1> QED BY <1>1, <1>5, MergeFrame DEF old, new
-----------------------------------------------------------------------------
(* With nothing left to do, the index is the merged one, and a commit of   *)
(* it has the merged tree.                                                 *)
LEMMA IndexIsMerged ==
  ASSUME TypeOK, MergedFiles, ~Migrating, WriteIndex
  PROVE  IndexMerged'
<1> DEFINE land == Landed(last.before, Goal)
           entry(p) == IF p \in NewConflicts THEN Unmerged(LastBase[p], LastOld[p], LastNew[p])
                       ELSE Staged(land[p])
<1>1. /\ UNCHANGED <<commits, last>> /\ run'.conflicts = run.conflicts
      /\ index' = [p \in Paths |-> IF run.conflicts[p] # NoEntry THEN run.conflicts[p]
                                   ELSE run.idx[p]]
  BY DEF WriteIndex, Done1, repoVars, TypeOK, Running
<1>2. /\ LastBase' = LastBase /\ LastOld' = LastOld /\ LastNew' = LastNew
      /\ NewConflicts' = NewConflicts /\ Goal' = Goal /\ LinksAside' = LinksAside
  BY <1>1, MergeFrame
<1>3. \A p \in Paths : p \notin LeftToDo(run)
  BY MigratingFacts DEF LeftToDo, ToDo
<1>4. LinksAside => \A p \in Paths : run.idx[p] = Staged(land[p])
  BY <1>3 DEF MergedFiles, LinksAside, Moved, Halfway
<1>5. \A p \in NewConflicts : run.conflicts[p] = Unmerged(LastBase[p], LastOld[p], LastNew[p])
  BY DEF MergedFiles
<1>6. \A p \in Paths : p \in NewConflicts <=> run.conflicts[p] # NoEntry
  BY DEF NewConflicts
<1>7. LinksAside => index' = [p \in Paths |-> entry(p)]
  <2> HIDE DEF land
  <2> QED BY <1>1, <1>4, <1>5, <1>6
<1>8. land' = land
  BY <1>1, <1>2 DEF Landed
<1> HIDE DEF land
<1>9. IndexMerged' <=> (LinksAside => index' = [p \in Paths |-> entry(p)])
  BY <1>2, <1>8 DEF IndexMerged, land
<1> QED BY <1>7, <1>9

LEMMA PlainTree ==
  ASSUME NEW m \in Files, Flat(m)
  PROVE  TreeOfIndex(Plain(m)) = m
<1>1. \A p \in Paths : Above[p] \subseteq Paths /\ m[p] \in Values
  BY WorkTreeAssumption DEF Files, Values
<1>2. \A p \in Paths : Plain(m)[p] = Staged(m[p]) /\ Plain(m)[p][0] = m[p]
  BY <1>1, PlainFacts, EntryFacts
<1>3. Tracked(Plain(m)) = {p \in Paths : m[p] # None}
  BY PlainFacts
<1>4. \A p \in Paths : (IF Above[p] \cap Tracked(Plain(m)) = {} THEN Plain(m)[p][0] ELSE None) = m[p]
  BY <1>1, <1>2, <1>3 DEF Flat
<1>5. TreeOfIndex(Plain(m)) = [p \in Paths |-> m[p]]
  BY <1>4 DEF TreeOfIndex
<1> QED BY <1>5 DEF Files

LEMMA MergedIsPlain ==
  ASSUME IndexMerged, LinksAside, NewConflicts = {}
  PROVE  index = Plain(Landed(last.before, Goal))
BY DEF IndexMerged, Plain

(* HEAD after the commit of a merge without conflicts. *)
LEMMA CommitIsMerged ==
  ASSUME TypeOK, IndexInv, NoteInv, MergedFiles, IndexMerged, LinksAside, NewConflicts = {},
         NEW parents, WriteCommit(parents)
  PROVE  HeadTree' = Landed(last.before, Goal)
<1> DEFINE m == Landed(last.before, Goal)
           c == Len(commits) + 1
           new == [tree |-> TreeOfIndex(index), parents |-> parents]
<1>1. /\ LastBase \in Files /\ LastOld \in Files /\ LastNew \in Files
      /\ Flat(LastOld) /\ Flat(LastNew)
  BY TreeFacts DEF MergedFiles, LastBase, LastOld, LastNew
<1>2. m \in Files /\ Flat(m)
  <2>1. Goal \in Files /\ Flat(Goal)
    BY <1>1, ResultFacts, ResultIsFlat DEF Goal
  <2>2. \A p \in Paths : LastOld[p] # None => last.before[p] = LastOld[p]
    BY DEF MergedFiles, Moved
  <2>3. last.before \in Files
    BY DEF NoteInv, LastTypes
  <2> QED BY <1>1, <2>1, <2>2, <2>3, LandedFacts
<1>3. TreeOfIndex(index) = m
  BY <1>2, MergedIsPlain, PlainTree
<1>4. commits \in Seq(CommitObjects) /\ commits' = Append(commits, new) /\ UpdateHead(c)
  BY DEF WriteCommit, TypeOK
<1>5. HeadCommit' = c
  BY <1>4 DEF UpdateHead, HeadCommit, TypeOK, Tips, Heads
<1>6. commits'[c] = new /\ c # NoCommit
  <2> HIDE DEF new
  <2> QED BY <1>4 DEF NoCommit
<1> HIDE DEF m, c
<1> QED BY <1>3, <1>5, <1>6 DEF HeadTree, TreeOf, m
-----------------------------------------------------------------------------
(* MergeInv is inductive. *)
LEMMA WriteStepMerge ==
  ASSUME TypeOK, IndexInv, NoteInv, MergedFiles, IF NewConflicts # {} THEN OntoRecord ELSE IntoHead,
         WriteIndex \/ ReplaceHead \/ MoveTip \/ RemoveMergeState \/ RecordMergeHead
           \/ RecordMergeMsg \/ CommitMerge
  PROVE  MergedFiles' /\ IF NewConflicts' # {} THEN OntoRecord' ELSE IntoHead'
<1> DEFINE source == <<last.cmd, last.new>>
           record == <<"record", source>>
           tip == <<"tip", last.new>>
<1>1. run \in Running(Len(commits)) /\ Len(commits) \in Nat /\ run.post \in Seq(Writes(Len(commits)))
  BY HeadTypes DEF TypeOK, Running
<1>2. Done1 /\ ~Migrating /\ run.post # <<>> /\ UNCHANGED <<last, work>>
      /\ (UNCHANGED commits \/ \E parents : WriteCommit(parents))
  BY DEF WriteIndex, ReplaceHead, MoveTip, RemoveMergeState, RecordMergeHead,
         RecordMergeMsg, CommitMerge, Next1, repoVars
<1>3. /\ run'.post = Tail(run.post) /\ run'.rm = run.rm /\ run'.put = run.put
      /\ run'.idx = run.idx /\ run'.conflicts = run.conflicts /\ run'.touch = run.touch
  BY <1>1, <1>2 DEF Done1, Running
<1>4. MergedFiles'
  <2>1. Moved(run', work', LastOld, Goal, last.before)
    BY <1>2, <1>3, StillMoved DEF MergedFiles
  <2> QED BY <1>2, <1>3, <2>1, MergeFrame
<1>5. /\ LastBase' = LastBase /\ LastOld' = LastOld /\ LastNew' = LastNew
      /\ NewConflicts' = NewConflicts
      /\ UNCHANGED index /\ IndexMerged => IndexMerged'
      /\ Goal' = Goal /\ LinksAside' = LinksAside
  BY <1>2, <1>3, MergeFrame
<1>6. /\ run.post[1][1] = "index" => WriteIndex
      /\ run.post[1][1] = "record" => RecordMergeHead
      /\ run.post[1][1] = "msg" => RecordMergeMsg
      /\ run.post[1][1] = "tip" => MoveTip
      /\ run.post[1][1] = "commit" => CommitMerge
  BY DEF WriteIndex, ReplaceHead, MoveTip, RemoveMergeState, RecordMergeHead,
         RecordMergeMsg, CommitMerge, Next1
<1>7. /\ Shape(run'.post) = Tail(Shape(run.post)) /\ run.post[1][1] = Shape(run.post)[1]
      /\ Shape(run'.post) = <<>> => run'.post = <<>>
  <2>1. /\ Shape(run'.post) = Tail(Shape(run.post)) /\ run.post[1][1] = Shape(run.post)[1]
    BY <1>1, <1>2, <1>3, ShapeFacts
  <2>2. run'.post \in Seq(Writes(Len(commits)))
    BY <1>1, <1>2, <1>3
  <2> QED BY <1>1, <2>1, <2>2, ShapeFacts
<1>8. WriteIndex => IndexMerged'
  BY <1>2, IndexIsMerged
<1>9. CASE NewConflicts # {}
  <2>1. HeadCommit = last.old /\ OntoRecord
    BY <1>9 DEF OntoRecord
  <2>2. CASE run.post = << <<"index">>, record, <<"msg">> >>
    <3>1. WriteIndex
      BY <1>6, <2>2
    <3>2. run'.post = <<record, <<"msg">> >>
      BY <1>3, <2>2
    <3>3. HeadCommit' = HeadCommit
      BY <3>1 DEF WriteIndex, repoVars, HeadCommit
    <3> QED BY <1>2, <1>4, <1>5, <1>8, <1>9, <2>1, <3>1, <3>2, <3>3 DEF OntoRecord
  <2>3. CASE run.post = <<record, <<"msg">> >> /\ IndexMerged
    <3>1. RecordMergeHead /\ run.post[1][2] = source
      BY <1>6, <2>3
    <3>2. run'.post = << <<"msg">> >>
      BY <1>3, <2>3
    <3>3. HeadCommit' = HeadCommit /\ UNCHANGED index /\ mergeHead' = source
      BY <3>1 DEF RecordMergeHead, HeadCommit
    <3> QED BY <1>2, <1>4, <1>5, <1>9, <2>1, <2>3, <3>2, <3>3 DEF OntoRecord
  <2>4. CASE run.post = << <<"msg">> >> /\ IndexMerged /\ mergeHead = source
    <3>1. RecordMergeMsg
      BY <1>6, <2>4
    <3>2. run'.post = <<>>
      BY <1>3, <2>4
    <3>3. HeadCommit' = HeadCommit /\ UNCHANGED <<index, mergeHead>>
      BY <3>1 DEF RecordMergeMsg, HeadCommit
    <3> QED BY <1>2, <1>4, <1>5, <1>9, <2>1, <2>4, <3>2, <3>3 DEF OntoRecord
  <2> QED BY <1>2, <2>1, <2>2, <2>3, <2>4 DEF OntoRecord
<1>10. CASE NewConflicts = {}
  <2>1. IntoHead
    BY <1>10
  <2>2. CASE run.post = << <<"index">>, tip>> /\ last.old = last.base
    <3>1. WriteIndex
      BY <1>6, <2>2
    <3>2. run'.post = <<tip>>
      BY <1>3, <2>2
    <3> QED BY <1>2, <1>4, <1>5, <1>8, <1>10, <2>2, <3>1, <3>2 DEF IntoHead
  <2>3. CASE run.post = <<tip>> /\ last.old = last.base /\ IndexMerged
    <3>1. MoveTip /\ run.post[1][2] = last.new
      BY <1>6, <2>3
    <3>2. run'.post = <<>>
      BY <1>3, <2>3
    <3>3. UNCHANGED <<commits, index>> /\ UpdateHead(last.new)
      BY <3>1 DEF MoveTip
    <3>4. HeadCommit' = last.new
      BY <3>3 DEF UpdateHead, HeadCommit, TypeOK, Tips, Heads
    <3> QED BY <1>2, <1>4, <1>5, <1>10, <2>3, <3>2, <3>3, <3>4 DEF IntoHead
  <2>4. CASE Shape(run.post) = <<"index", "commit">>
    <3>1. Shape(run'.post) = Tail(<<"index", "commit">>) /\ run.post[1][1] = "index"
      BY <1>7, <2>4
    <3>2. Tail(<<"index", "commit">>) = <<"commit">>
      OBVIOUS
    <3>3. Shape(run'.post) = <<"commit">>
      BY <3>1, <3>2, Zenon
    <3> QED BY <1>4, <1>5, <1>6, <1>8, <1>10, <3>1, <3>3 DEF IntoHead
  <2>5. CASE Shape(run.post) = <<"commit">> /\ IndexMerged
    <3>1. Shape(run'.post) = Tail(<<"commit">>) /\ run.post[1][1] = "commit"
      BY <1>7, <2>5
    <3>2. run'.post = <<>>
      <4>1. Tail(<<"commit">>) = <<>>
        OBVIOUS
      <4> QED BY <1>7, <3>1, <4>1, Zenon
    <3>3. CommitMerge
      BY <1>6, <3>1
    <3>4. WriteCommit(run.post[1][2]) /\ UNCHANGED index
      BY <3>3 DEF CommitMerge
    <3>5. LinksAside => HeadTree' = Landed(last.before, Goal)
      BY <1>10, <2>5, <3>4, CommitIsMerged
    <3>6. Landed(last.before, Goal)' = Landed(last.before, Goal)
      BY <1>2, <1>5 DEF Landed
    <3> QED BY <1>4, <1>5, <1>10, <2>5, <3>2, <3>4, <3>5, <3>6 DEF IntoHead
  <2>6. run.post # <<>>
    BY <1>2
  <2> QED BY <2>1, <2>2, <2>3, <2>4, <2>5, <2>6 DEF IntoHead
<1> QED BY <1>9, <1>10

LEMMA MergeStep ==
  ASSUME TypeOK, IndexInv, NoteInv, MergeInv, [Next]_vars
  PROVE  MergeInv'
<1>1. CASE UNCHANGED vars
  <2>1. UNCHANGED <<commits, refs, head, index, work, mergeHead, run, last>>
    BY <1>1 DEF vars
  <2>2. SUFFICES ASSUME FromCleanMerge, last.status = "running"
                 PROVE  MergedFiles' /\ IF NewConflicts' # {} THEN OntoRecord' ELSE IntoHead'
    BY <2>1 DEF MergeInv, FromCleanMerge
  <2>3. MergedFiles /\ IF NewConflicts # {} THEN OntoRecord ELSE IntoHead
    BY <2>2 DEF MergeInv
  <2>4. /\ LastBase' = LastBase /\ LastOld' = LastOld /\ LastNew' = LastNew
        /\ NewConflicts' = NewConflicts /\ HeadCommit' = HeadCommit /\ HeadTree' = HeadTree
        /\ Goal' = Goal /\ LinksAside' = LinksAside
        /\ IndexMerged => IndexMerged'
        /\ Moved(run', work', LastOld, Goal, last.before) => MergedFiles'
    BY <2>1, <2>3, MergeFrame DEF HeadCommit, HeadTree, TreeOf
  <2>5. MergedFiles'
    <3>1. Moved(run, work, LastOld, Goal, last.before)
      BY <2>3 DEF MergedFiles
    <3> QED BY <2>1, <2>4, <3>1, StillMoved
  <2>6. Landed(last.before, Goal)' = Landed(last.before, Goal)
    BY <2>1, <2>4 DEF Landed
  <2> QED BY <2>1, <2>3, <2>4, <2>5, <2>6 DEF OntoRecord, IntoHead
<1>2. CASE Return
  BY <1>2, ReturnNote DEF MergeInv
<1>3. CASE last' = NoLast
  <2>1. NoLast.cmd \notin Kinds
    BY NoLastTypes DEF Kinds
  <2> QED BY <1>3, <2>1 DEF MergeInv, FromCleanMerge
<1>4. CASE last'.cmd \notin Kinds
  BY <1>4 DEF MergeInv, FromCleanMerge
<1>5. ASSUME NEW target \in Targets, NEW kind \in Kinds,
             MergeNew(kind, target) \/ MergeIntoEmpty(kind, target)
      PROVE  MergeInv'
  <2>1. CASE MergeNew(kind, target)
    BY <2>1, MergeStart
  <2>2. CASE MergeIntoEmpty(kind, target)
    <3>1. last'.old = NoCommit
      BY <2>2 DEF MergeIntoEmpty, Note
    <3> QED BY <3>1 DEF MergeInv, FromCleanMerge
  <2> QED BY <1>5, <2>1, <2>2
<1>6. CASE run # Idle /\ UNCHANGED last /\ last' # NoLast /\ Next /\ ~Return
  <2>1. SUFFICES ASSUME FromCleanMerge, last.status = "running"
                 PROVE  MergedFiles' /\ IF NewConflicts' # {} THEN OntoRecord' ELSE IntoHead'
    BY <1>6 DEF MergeInv, FromCleanMerge
  <2>2. MergedFiles /\ IF NewConflicts # {} THEN OntoRecord ELSE IntoHead
    BY <2>1 DEF MergeInv
  <2>3. ASSUME NEW p \in Paths, RemoveFile(p) \/ PutFile(p)
        PROVE  MergedFiles' /\ IF NewConflicts' # {} THEN OntoRecord' ELSE IntoHead'
    <3>1. /\ run'.post = run.post /\ run'.conflicts = run.conflicts
          /\ UNCHANGED <<commits, refs, head, index, mergeHead, last>>
      BY <2>3 DEF RemoveFile, PutFile, repoVars, TypeOK, Running
    <3>2. MergedFiles'
      BY <2>2, <2>3, FileStepMerge
    <3>3. /\ LastBase' = LastBase /\ LastOld' = LastOld /\ LastNew' = LastNew
          /\ NewConflicts' = NewConflicts /\ HeadCommit' = HeadCommit /\ HeadTree' = HeadTree
          /\ Goal' = Goal /\ LinksAside' = LinksAside
          /\ IndexMerged => IndexMerged'
      BY <2>2, <3>1, MergeFrame DEF HeadCommit, HeadTree, TreeOf
    <3>4. Landed(last.before, Goal)' = Landed(last.before, Goal)
      BY <3>1, <3>3 DEF Landed
    <3> QED BY <2>2, <3>1, <3>2, <3>3, <3>4 DEF OntoRecord, IntoHead
  <2>4. Step
    BY <1>6, <2>1 DEF Next, Edit, Add, Unadd, Untrack, Remove, Restore, Commit, ResetAdd,
       Switch, Reset, ResetDir, MergeNew, MergeIntoEmpty, MergeCont, MergeAbort, Ready, Crash
  <2>5. \A p \in Paths : ~PutFails(p)
    BY <1>6 DEF PutFails
  <2>6. ~CommitFails
    BY <1>6 DEF CommitFails
  <2> QED BY <1>6, <2>2, <2>3, <2>4, <2>5, <2>6, WriteStepMerge DEF Step
<1> QED BY <1>1, <1>2, <1>3, <1>4, <1>5, <1>6, NoteMoves
-----------------------------------------------------------------------------
(* What the last step of a merge has left. *)
Part(old, ours, theirs, disputed) ==
  IF theirs = old THEN ours
  ELSE IF ours \in {old, theirs} THEN theirs ELSE disputed

ThreeWay(p) ==
  IF LastNew[p] = LastBase[p] THEN LastOld[p]
  ELSE IF LastOld[p] = LastBase[p] \/ LastOld[p] = LastNew[p] THEN LastNew[p]
  ELSE IF LastOld[p] = None THEN LastNew[p]
  ELSE IF LastNew[p] = None THEN LastOld[p]
  ELSE [text |-> Part(TextOf(LastBase[p]), LastOld[p].text, LastNew[p].text, MergedText),
        mode |-> Part(ModeOf(LastBase[p]), LastOld[p].mode, LastNew[p].mode, LastOld[p].mode)]

Kept(p) ==
  IF KeepsMode(last.before[p], ThreeWay(p))
  THEN [text |-> ThreeWay(p).text, mode |-> last.before[p].mode]
  ELSE ThreeWay(p)

FileOverDir(mine, theirs, p) ==
  mine[p] \notin {None, LastBase[p]}
  /\ \E q \in Below(p) : theirs[q] \notin {None, LastBase[q]}

MayConflict(p) ==
  \/ LastOld[p] # LastBase[p] /\ LastNew[p] # LastBase[p] /\ LastOld[p] # LastNew[p]
  \/ FileOverDir(LastOld, LastNew, p) \/ FileOverDir(LastNew, LastOld, p)

NoLinkMeetsFile ==
  LinksInTheWay(last.before, LastOld, [p \in Paths |-> ThreeWay(p)]) = {}

Outcome ==
  /\ \A p \in Paths \ Conflicted(index) : index[p] = Staged(Kept(p))
  /\ \A p \in Conflicted(index) :
       MayConflict(p) /\ index[p] = Unmerged(LastBase[p], LastOld[p], LastNew[p])
  /\ \A p \in Paths : index[p][0] # None => work[p] = index[p][0]
  /\ IF Conflicted(index) = {}
     THEN index = Plain(HeadTree) \/ (HeadCommit = last.new /\ last.old = last.base)
     ELSE HeadCommit = last.old /\ mergeHead = <<last.cmd, last.new>>

LEMMA OutcomeIsThreeWay ==
  MergeIsThreeWay <=> (last.status = "ok" /\ FromCleanMerge /\ NoLinkMeetsFile => Outcome)
BY Zenon DEF MergeIsThreeWay, FromCleanMerge, NoLinkMeetsFile, Outcome, ThreeWay, Kept, Part,
       MayConflict, FileOverDir, LastBase, LastOld, LastNew

LEMMA GoalIsThreeWay ==
  ASSUME TypeOK, MergedFiles, NEW p \in Paths, p \notin Clashes(LastBase, LastOld, LastNew)
  PROVE  Goal[p] = ThreeWay(p)
<1> DEFINE b == LastBase
           t == LastOld
           s == LastNew
<1>1. b \in Files /\ t \in Files /\ s \in Files
  BY HeadTypes DEF MergedFiles, LastBase, LastOld, LastNew
<1>2. ThreeWay(p) =
        IF s[p] = b[p] THEN t[p]
        ELSE IF t[p] = b[p] \/ t[p] = s[p] THEN s[p]
        ELSE IF t[p] = None THEN s[p]
        ELSE IF s[p] = None THEN t[p]
        ELSE [text |-> Part(TextOf(b[p]), t[p].text, s[p].text, MergedText),
              mode |-> Part(ModeOf(b[p]), t[p].mode, s[p].mode, t[p].mode)]
  BY DEF ThreeWay
<1>3. MergedFile(b[p], t[p], s[p]) =
        [text |-> Part(TextOf(b[p]), t[p].text, s[p].text, MergedText),
         mode |-> Part(ModeOf(b[p]), t[p].mode, s[p].mode, t[p].mode)]
  <2>1. \A old, ours, theirs, disputed :
          Side(old, ours, theirs, disputed) = Part(old, ours, theirs, disputed)
    BY DEF Side, Part
  <2> QED BY <2>1 DEF MergedFile
<1> HIDE DEF b, t, s
<1>4. /\ s[p] = b[p] => Result(b, t, s)[p] = t[p]
      /\ s[p] # b[p] /\ t[p] \in {b[p], s[p]} => Result(b, t, s)[p] = s[p]
      /\ p \in BothWrote(b, t, s) => Result(b, t, s)[p] = MergedFile(b[p], t[p], s[p])
      /\ s[p] # b[p] /\ t[p] = None => Result(b, t, s)[p] = s[p]
      /\ s[p] # b[p] /\ t[p] # b[p] /\ t[p] # s[p] /\ s[p] = None
           => Result(b, t, s)[p] = t[p]
  BY <1>1, ResultCases DEF b, t, s
<1>5. s[p] # b[p] /\ t[p] # b[p] /\ t[p] # s[p] /\ t[p] # None /\ s[p] # None
      => p \in BothWrote(b, t, s)
  BY DEF BothWrote, BothChanged, Changed
<1>6. Goal = Result(b, t, s)
  BY DEF Goal, b, t, s
<1> QED BY <1>2, <1>3, <1>4, <1>5, <1>6

LEMMA MergeOutcome ==
  ASSUME TypeOK, IndexInv, NoteInv, MergedFiles, NoLinkMeetsFile,
         IF NewConflicts # {} THEN OntoRecord ELSE IntoHead,
         ~Migrating, run.post = <<>>
  PROVE  Outcome
<1> DEFINE b == LastBase
           t == LastOld
           s == LastNew
           m == Goal
           land == Landed(last.before, Goal)
<1>1. b \in Files /\ t \in Files /\ s \in Files /\ Flat(t)
  BY TreeFacts DEF MergedFiles, LastBase, LastOld, LastNew
<1>2. m \in Files /\ \A p \in Paths : b[p] \in Values /\ t[p] \in Values /\ s[p] \in Values
  BY <1>1, ResultFacts DEF Goal
<1>3. /\ Disputed(b, t, s) \subseteq NewConflicts
      /\ NewConflicts \subseteq Disputed(b, t, s) \cup ForDiff3(b, t, s)
      /\ Moved(run, work, t, m, last.before)
  BY DEF MergedFiles
<1>4. \A p \in Paths : p \notin Clashes(b, t, s) => m[p] = ThreeWay(p)
  BY GoalIsThreeWay
<1>5. LinksAside
  <2>1. SUFFICES ASSUME NEW p \in LinksInTheWay(last.before, t, m) PROVE FALSE
    BY DEF LinksAside, NoLinks
  <2>2. p \in Paths /\ t[p] # m[p] /\ IsLink(last.before[p]) /\ m[p] # None /\ ~IsLink(m[p])
    BY <2>1 DEF LinksInTheWay, Changed
  <2>3. p \notin Clashes(b, t, s)
    BY <1>1, <2>2, ClashIsGone DEF Goal
  <2>4. m[p] = ThreeWay(p)
    BY <1>4, <2>2, <2>3
  <2>5. p \in LinksInTheWay(last.before, t, [q \in Paths |-> ThreeWay(q)])
    BY <2>2, <2>4 DEF LinksInTheWay, Changed
  <2> QED BY <2>5 DEF NoLinkMeetsFile
<1>6. /\ IndexMerged
      /\ IF NewConflicts # {} THEN HeadCommit = last.old /\ mergeHead = <<last.cmd, last.new>>
         ELSE HeadTree = land \/ (HeadCommit = last.new /\ last.old = last.base)
  BY <1>5, EmptyShape DEF OntoRecord, IntoHead
<1>7. \A p \in Paths : index[p] = IF p \in NewConflicts THEN Unmerged(b[p], t[p], s[p])
                                  ELSE Staged(land[p])
  BY <1>5, <1>6 DEF IndexMerged
<1>8. \A p \in Paths :
        /\ land[p] \in Values /\ (land[p] = None <=> m[p] = None)
        /\ land[p] = IF KeepsMode(last.before[p], m[p])
                     THEN [text |-> m[p].text, mode |-> last.before[p].mode] ELSE m[p]
  <2>1. last.before \in Files
    BY DEF NoteInv, LastTypes
  <2> HIDE DEF t, m
  <2>2. /\ \A p \in Paths : Landed(last.before, m)[p] \in Values
                             /\ (Landed(last.before, m)[p] = None <=> m[p] = None)
        /\ \A p \in Paths :
             Landed(last.before, m)[p] =
               IF KeepsMode(last.before[p], m[p])
               THEN [text |-> m[p].text, mode |-> last.before[p].mode] ELSE m[p]
    BY <1>2, <2>1, LandedKeeps
  <2> QED BY <2>2 DEF m
<1>9. \A p \in Paths : p \notin LeftToDo(run)
  BY MigratingFacts DEF LeftToDo, ToDo
<1>10. \A p \in Paths : work[p] = IF t[p] = None /\ m[p] = None THEN last.before[p] ELSE land[p]
  BY <1>3, <1>5, <1>9 DEF Moved, Halfway, LinksAside
<1>11. NewConflicts = {} => index = Plain(HeadTree) \/ (HeadCommit = last.new /\ last.old = last.base)
  BY <1>5, <1>6, MergedIsPlain
<1> HIDE DEF b, t, s, m, land
<1>12. NewConflicts \subseteq Paths
       /\ \A p \in NewConflicts : t[p] # None \/ s[p] # None
  BY <1>1, <1>3, ClashFacts
     DEF Disputed, Disputes, BothChanged, BothWrote, ForDiff3, Changed, NewConflicts
<1>13. Conflicted(index) = NewConflicts
  <2>1. ASSUME NEW p \in NewConflicts PROVE index[p] # NoEntry /\ index[p][0] = None
    BY <1>2, <1>7, <1>12, EntryFacts
  <2>2. ASSUME NEW p \in Paths \ NewConflicts PROVE index[p] = NoEntry \/ index[p][0] # None
    BY <1>7, <1>8, EntryFacts
  <2> QED BY <1>12, <2>1, <2>2 DEF Conflicted, Tracked
<1>14. ASSUME NEW p \in Paths \ Conflicted(index) PROVE index[p] = Staged(Kept(p))
  <2>1. p \notin Clashes(b, t, s)
    BY <1>3, <1>13 DEF Disputed
  <2>2. m[p] = ThreeWay(p)
    BY <1>4, <2>1
  <2> QED BY <1>7, <1>8, <1>13, <2>2 DEF Kept
<1>15. ASSUME NEW p \in Conflicted(index)
       PROVE  MayConflict(p) /\ index[p] = Unmerged(b[p], t[p], s[p])
  <2>1. p \in BothChanged(b, t, s) \/ p \in Clash(b, t, s) \/ p \in Clash(b, s, t)
    BY <1>3, <1>13 DEF Disputed, Disputes, Clashes, ForDiff3, BothWrote
  <2>2. MayConflict(p)
    BY <2>1 DEF MayConflict, FileOverDir, BothChanged, Clash, Changed, Below, b, t, s
  <2> QED BY <1>7, <1>12, <1>13, <2>2
<1>16. ASSUME NEW p \in Paths, index[p][0] # None PROVE work[p] = index[p][0]
  <2>1. p \notin NewConflicts
    BY <1>2, <1>7, <1>16, EntryFacts
  <2>2. index[p] = Staged(land[p]) /\ land[p] \in Values
    BY <1>7, <1>8, <2>1
  <2>3. index[p][0] = land[p]
    BY <2>2, EntryFacts
  <2> QED BY <1>8, <1>10, <1>16, <2>3
<1> QED BY <1>6, <1>11, <1>13, <1>14, <1>15, <1>16 DEF Outcome, b, t, s

LEMMA ThreeWayStep ==
  ASSUME TypeOK, IndexInv, NoteInv, MergeInv, MergeIsThreeWay, [Next]_vars
  PROVE  MergeIsThreeWay'
<1>1. SUFFICES ASSUME last'.status = "ok", FromCleanMerge', NoLinkMeetsFile' PROVE Outcome'
  <2>1. MergeIsThreeWay'
        <=> (last'.status = "ok" /\ FromCleanMerge' /\ NoLinkMeetsFile' => Outcome')
    BY Zenon DEF MergeIsThreeWay, FromCleanMerge, NoLinkMeetsFile, Outcome, ThreeWay, Kept, Part,
           MayConflict, FileOverDir, LastBase, LastOld, LastNew
  <2> QED BY <2>1
<1>2. ASSUME UNCHANGED <<commits, refs, head, index, work, mergeHead>>,
             last'.cmd = last.cmd, last'.old = last.old, last'.new = last.new,
             last'.base = last.base, last'.before = last.before
      PROVE  NoLinkMeetsFile /\ (Outcome => Outcome')
  <2>1. LastBase' = LastBase /\ LastOld' = LastOld /\ LastNew' = LastNew
        /\ HeadCommit' = HeadCommit /\ HeadTree' = HeadTree
    BY <1>2 DEF LastBase, LastOld, LastNew, HeadCommit, HeadTree, TreeOf
  <2>2. \A p \in Paths : ThreeWay(p)' = ThreeWay(p)
    BY <2>1 DEF ThreeWay, Part
  <2>3. \A p \in Paths : Kept(p)' = Kept(p)
    BY <1>2, <2>2 DEF Kept
  <2>4. [p \in Paths |-> ThreeWay(p)]' = [p \in Paths |-> ThreeWay(p)]
    BY <2>2
  <2>5. NoLinkMeetsFile
    BY <1>1, <1>2, <2>1, <2>4 DEF NoLinkMeetsFile, LinksInTheWay, Changed
  <2>6. \A p \in Paths : MayConflict(p)' <=> MayConflict(p)
    BY <2>1 DEF MayConflict, FileOverDir
  <2>7. Conflicted(index)' = Conflicted(index) /\ Conflicted(index) \subseteq Paths
    BY <1>2 DEF Conflicted, Tracked
  <2>8. Outcome => Outcome'
    BY <1>2, <2>1, <2>3, <2>6, <2>7 DEF Outcome, Plain
  <2> QED BY <2>5, <2>8
<1>3. CASE UNCHANGED vars
  <2>1. UNCHANGED <<commits, refs, head, index, work, mergeHead, last>>
    BY <1>3 DEF vars
  <2>2. Outcome
    BY <1>1, <1>2, <2>1, OutcomeIsThreeWay DEF FromCleanMerge
  <2> QED BY <1>2, <2>1, <2>2
<1>4. CASE Return
  <2>1. /\ last.status = "running" /\ FromCleanMerge
        /\ last'.cmd = last.cmd /\ last'.old = last.old /\ last'.new = last.new
        /\ last'.base = last.base /\ last'.before = last.before
    BY <1>1, <1>4, ReturnNote DEF FromCleanMerge
  <2>2. /\ UNCHANGED <<commits, refs, head, index, work, mergeHead>>
        /\ run.post = <<>> /\ ~Migrating
    BY <1>4 DEF Return, repoVars
  <2>3. NoLinkMeetsFile
    BY <1>2, <2>1, <2>2
  <2>4. Outcome
    BY <2>1, <2>2, <2>3, MergeOutcome DEF MergeInv
  <2> QED BY <1>2, <2>1, <2>2, <2>4
<1>5. CASE ~Return /\ ~UNCHANGED vars
  BY <1>1, <1>5, NoteMoves, NoLastTypes DEF NoteInv
<1> QED BY <1>3, <1>4, <1>5

(* MergeIsThreeWay for every instance: however the three trees differ, on  *)
(* paths of any depth, and wherever diff3 finds conflicts.                 *)
THEOREM MergeThreeWay == Spec => []MergeIsThreeWay
<1>1. Init => NoteInv /\ MergeInv /\ MergeIsThreeWay
  <2> SUFFICES ASSUME Init PROVE NoteInv /\ MergeInv /\ MergeIsThreeWay
    OBVIOUS
  <2>1. run = Idle /\ last = NoLast
    BY DEF Init
  <2> QED BY <2>1, NoLastTypes DEF NoteInv, MergeInv, MergeIsThreeWay
<1>2. TypeOK /\ IndexInv /\ NoteInv /\ MergeInv /\ MergeIsThreeWay /\ [Next]_vars
      => NoteInv' /\ MergeInv' /\ MergeIsThreeWay'
  BY NoteStep, MergeStep, ThreeWayStep
<1> QED BY <1>1, <1>2, IndexInvariants, PTL DEF Spec
=============================================================================
