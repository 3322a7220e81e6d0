------------------------------ MODULE WorkTree ------------------------------
(***************************************************************************)
(* The working copy of one repository: HEAD and the branches, the index,   *)
(* the files of the work dir and the record of an unfinished merge, and    *)
(* the commands of repo.go, workdir.go, index.go and merge.go that move    *)
(* content between them.  A command that writes more than one file runs in *)
(* steps, in the order of the code, and may be killed between two of them. *)
(*                                                                         *)
(* A tree, the index and the work dir are total functions on Paths.  A     *)
(* file has a text and a mode; the text of a symbolic link is what it says *)
(* it leads to, a directory exists when a file below it does, and a commit *)
(* is its position in commits.                                             *)
(***************************************************************************)
EXTENDS History

CONSTANTS
  Paths,       \* the file paths, with the directories that lead to them
  Above,       \* Above[p]: the paths that are proper directory prefixes of p
  Texts,       \* the texts a user writes
  MergedText,  \* a text only diff3 makes
  None,        \* no file, no entry
  Branches,
  Starts,      \* the repositories to start from, checked out and clean, each with
               \* the commands its user may run and a bound on the user's edits
  MaxCommits   \* bound on the number of commits

Modes == {"regular", "executable", "link"}
Contents == [text : Texts \cup {MergedText}, mode : Modes]

ASSUME WorkTreeAssumption ==
  /\ None \notin Contents \cup Texts \cup {MergedText} \cup Modes
  /\ Above \in [Paths -> SUBSET Paths]
  /\ \A p \in Paths : p \notin Above[p] /\ \A q \in Above[p] : Above[q] \subseteq Above[p]
  /\ \A p \in Paths : \A q, r \in Above[p] : q = r \/ q \in Above[r] \/ r \in Above[q]
  /\ MaxCommits \in Nat

NoCommit == 0

(* What the repositories of Starts have to be for the rest to make sense.  *)
(* In a tree a name is that of a file or of a directory.                   *)
CommitObjects == [tree : [Paths -> Contents \cup {None}], parents : Seq(Nat)]
Older(cs) == \A c \in 1..Len(cs) : \A i \in DOMAIN cs[c].parents : cs[c].parents[i] \in 1..(c - 1)
Flat(files) == \A p \in Paths : \A q \in Above[p] : files[p] = None \/ files[q] = None
Tips(n) == [Branches -> (1..n) \cup {NoCommit}]
Heads(n) == ({"ref"} \X Branches) \cup ({"oid"} \X (1..n))

(* What a user may do: edit, or be killed in the middle of a command, too. *)
UserCommands ==
  {"edit", "add", "unadd", "untrack", "rm", "restore", "commit", "reset-add", "switch",
   "reset", "reset-dir", "merge", "pick", "continue", "abort", "crash"}
Users == [commands : SUBSET UserCommands, blobs : SUBSET Contents, edits : Nat]

ASSUME StartsAssumption ==
  \A s \in Starts :
    /\ s.commits \in Seq(CommitObjects) /\ Older(s.commits)
    /\ \A c \in DOMAIN s.commits : Flat(s.commits[c].tree)
    /\ s.refs \in Tips(Len(s.commits))
    /\ s.head \in Heads(Len(s.commits))
    /\ s.user \in Users

VARIABLES
  commits,     \* the commit objects: [tree, parents]
  refs,        \* refs[b]: the commit of branch b, or NoCommit
  head,        \* HEAD: <<"ref", branch>> or <<"oid", commit>>
  index,       \* .git/index: index[p][s] is the entry of p in stage s
  work,        \* the files of the work dir
  mergeHead,   \* MERGE_HEAD or CHERRY_PICK_HEAD: <<kind, commit>>
  mergeMsg,    \* does MERGE_MSG exist?
  run,         \* the command that is running
  last,        \* history variable: what the last switch, reset or merge began with
  interrupted, \* history variable: was a command killed, did an abort fail midway?
  user         \* the commands the user may run, what an edit writes, how many are left

vars == <<commits, refs, head, index, work, mergeHead, mergeMsg, run, last,
          interrupted, user>>

repoVars == <<commits, refs, head, mergeHead, mergeMsg>>
-----------------------------------------------------------------------------
(* Trees and the index. *)
Files == [Paths -> Contents \cup {None}]
EmptyTree == [p \in Paths |-> None]

Stages == 0..3
Entry == [Stages -> Contents \cup {None}]
NoEntry == [s \in Stages |-> None]
Staged(v) == [s \in Stages |-> IF s = 0 THEN v ELSE None]
Unmerged(base, target, source) ==
  [s \in Stages |-> IF s = 0 THEN None ELSE <<base, target, source>>[s]]
Index == [Paths -> Entry]

Plain(tree) == [p \in Paths |-> Staged(tree[p])]
Tracked(idx) == {p \in Paths : idx[p] # NoEntry}
Conflicted(idx) == {p \in Tracked(idx) : idx[p][0] = None}

Below(p) == {q \in Paths : p \in Above[q]}
AtOrBelow(p) == {p} \cup Below(p)

IsDir(idx, p) == Below(p) \cap Tracked(idx) # {}

(* index.RemovePath: the entry of p and all entries below it. *)
RemovePath(idx, p) ==
  [q \in Paths |-> IF q \in AtOrBelow(p) THEN NoEntry ELSE idx[q]]

FilesAt(files, p) == {q \in AtOrBelow(p) : files[q] # None}
Exists(files, p) == FilesAt(files, p) # {}

(* A file where a directory above p should be: Lstat says ENOTDIR. *)
FileAbove(files, p) == \E q \in Above[p] : files[q] # None
DirAt(files, p) == \E q \in Below(p) : files[q] # None

(* Mutant of AddPath: it leaves the entries above p alone. *)
AddPathOnly(idx, files, p) ==
  [q \in Paths |-> IF q \in FilesAt(files, p) THEN Staged(files[q])
                   ELSE IF \E f \in FilesAt(files, p) : f \in Above[q] THEN NoEntry
                   ELSE idx[q]]

(* index.AddPath: stage what the work dir has at p.  It removes every      *)
(* entry above p through RemovePath, and so the entries below that one.    *)
AddPath(idx, files, p) ==
  LET added == FilesAt(files, p)
      above == {q \in Tracked(idx) : \E f \in added : q \in Above[f]}
      gone == UNION {AtOrBelow(q) : q \in above \cup added}
  IN  [q \in Paths |-> CASE q \in added -> Staged(files[q])
                         [] q \in gone \ added -> NoEntry
                         [] OTHER -> idx[q]]

(* writeTree: unmerged entries, and what lies below an entry, are left out. *)
TreeOfIndex(idx) ==
  [p \in Paths |-> IF Above[p] \cap Tracked(idx) = {} THEN idx[p][0] ELSE None]
-----------------------------------------------------------------------------
(* Commits and HEAD. *)
Commits == 1..Len(commits)

TreeOf(c) == IF c = NoCommit THEN EmptyTree ELSE commits[c].tree
Graph == [c \in Commits |-> commits[c].parents]

HeadCommit == IF head[1] = "ref" THEN refs[head[2]] ELSE head[2]
HeadTree == TreeOf(HeadCommit)

Targets ==
  {<<"ref", b>> : b \in {b \in Branches : refs[b] # NoCommit}}
    \cup {<<"oid", c>> : c \in Commits}

Resolve(target) == IF target[1] = "ref" THEN refs[target[2]] ELSE target[2]

(* updateHead: writeRefRecur follows HEAD to the branch it names. *)
UpdateHead(c) ==
  IF head[1] = "ref"
  THEN refs' = [refs EXCEPT ![head[2]] = c] /\ UNCHANGED head
  ELSE head' = <<"oid", c>> /\ UNCHANGED refs

NoMerge == <<"none", NoCommit>>

(* writeCommit: refused while a merge is unfinished, and when it would     *)
(* leave the tree of its only parent as it is.                             *)
CanCommit(parents) ==
  /\ mergeHead = NoMerge
  /\ Len(parents) = 0 => Tracked(index) # {}
  /\ Len(parents) = 1 => TreeOfIndex(index) # TreeOf(parents[1])

WriteCommit(parents) ==
  /\ Len(commits) < MaxCommits
  /\ commits' = Append(commits, [tree |-> TreeOfIndex(index), parents |-> parents])
  /\ UpdateHead(Len(commits) + 1)
-----------------------------------------------------------------------------
(* The running command: the files migrate has still to remove and to       *)
(* write, the index it holds in memory, and the writes to the repository   *)
(* that follow.                                                            *)
NoFiles == EmptyTree

Idle == [cmd |-> "none", force |-> FALSE, touch |-> FALSE, rm |-> {},
         put |-> NoFiles, idx |-> Plain(EmptyTree), conflicts |-> Plain(EmptyTree),
         post |-> <<>>]

NoLast == [cmd |-> "none", force |-> FALSE, status |-> "none", clean |-> FALSE,
           before |-> NoFiles, old |-> NoCommit, new |-> NoCommit, base |-> NoCommit]

(* Nothing staged, no tracked file changed. *)
Clean ==
  /\ index = Plain(HeadTree)
  /\ \A p \in Paths : HeadTree[p] # None => work[p] = HeadTree[p]

Start(cmd, force, touch, rm, put, post) ==
  [Idle EXCEPT !.cmd = cmd, !.force = force, !.touch = touch, !.rm = rm,
               !.put = put, !.idx = index, !.post = post]

Note(cmd, force, new, base) ==
  [cmd |-> cmd, force |-> force, status |-> "running", clean |-> Clean,
   before |-> IF Clean THEN work ELSE NoFiles,
   old |-> HeadCommit, new |-> new, base |-> base]

Ready(cmd) == run = Idle /\ cmd \in user.commands

Init ==
  /\ \E s \in Starts :
       /\ commits = s.commits
       /\ refs = s.refs
       /\ head = s.head
       /\ user = s.user
  /\ index = Plain(HeadTree)
  /\ work = HeadTree
  /\ mergeHead = NoMerge
  /\ mergeMsg = FALSE
  /\ run = Idle
  /\ last = NoLast
  /\ interrupted = FALSE
-----------------------------------------------------------------------------
(* The user edits a file, makes one, or deletes one. *)
Edit(p, v) ==
  /\ Ready("edit")
  /\ user.edits > 0
  /\ v \in (user.blobs \cup {None}) \ {work[p]}
  /\ v # None => ~FileAbove(work, p) /\ ~DirAt(work, p)
  /\ work' = [work EXCEPT ![p] = v]
  /\ user' = [user EXCEPT !.edits = @ - 1]
  /\ last' = NoLast
  /\ UNCHANGED <<repoVars, index, run, interrupted>>

(* Commands that write the index once, and nothing else. *)
WriteIndexOnly(idx) ==
  /\ index' = idx
  /\ last' = NoLast
  /\ UNCHANGED <<repoVars, work, run, interrupted, user>>

(* AddOrRemovePath with indexActionAdd. *)
Add(p) ==
  /\ Ready("add")
  /\ \/ Exists(work, p) /\ WriteIndexOnly(AddPath(index, work, p))
     \/ /\ ~Exists(work, p) /\ ~FileAbove(work, p)
        /\ p \in Tracked(index) \/ IsDir(index, p)
        /\ WriteIndexOnly(RemovePath(index, p))

(* AddOrRemovePath with indexActionRm succeeds. *)
CanUnstage(p) ==
  /\ p \in Tracked(index) \/ IsDir(index, p)
  /\ Exists(work, p) \/ ~FileAbove(work, p)

(* restoreTreeEntryToIndex: put back what HEAD has at and below p. *)
RestoreToIndex(idx, p) ==
  [q \in Paths |-> IF q \in AtOrBelow(p) /\ HeadTree[q] # None THEN Staged(HeadTree[q])
                   ELSE idx[q]]

Unadd(p) ==
  /\ Ready("unadd")
  /\ CanUnstage(p)
  /\ WriteIndexOnly(RestoreToIndex(RemovePath(index, p), p))

(* removePaths' safety check, for one path that has a stage 0 entry and    *)
(* something in the work dir.                                              *)
DiffersFromHead(p) ==
  \/ HeadTree[p] # None /\ index[p][0] # HeadTree[p]
  \/ DirAt(HeadTree, p)
DiffersFromWorkDir(p) == work[p] # index[p][0]

Checked(p) ==
  {q \in AtOrBelow(p) : index[q][0] # None /\ Exists(work, q)}

Untrack(p, force) ==
  /\ Ready("untrack")
  /\ CanUnstage(p)
  /\ ~force => \A q \in Checked(p) : ~(DiffersFromHead(q) /\ DiffersFromWorkDir(q))
  /\ WriteIndexOnly(RemovePath(index, p))

Remove(p, force) ==
  /\ Ready("rm")
  /\ CanUnstage(p)
  /\ ~force => \A q \in Checked(p) : ~DiffersFromHead(q) /\ ~DiffersFromWorkDir(q)
  /\ run' = Start("rm", force, TRUE, AtOrBelow(p) \cap Tracked(index), NoFiles,
                  << <<"index">> >>)
  /\ last' = NoLast
  /\ UNCHANGED <<repoVars, index, work, interrupted, user>>

(* Restore: write what HEAD has at p to the work dir. *)
Restore(p) ==
  /\ Ready("restore")
  /\ Exists(HeadTree, p)
  /\ run' = Start("restore", TRUE, TRUE, {},
                  [q \in Paths |-> IF q \in AtOrBelow(p) THEN HeadTree[q] ELSE None], <<>>)
  /\ last' = NoLast
  /\ UNCHANGED <<repoVars, index, work, interrupted, user>>

Commit ==
  /\ Ready("commit")
  /\ LET parents == IF HeadCommit = NoCommit THEN <<>> ELSE <<HeadCommit>>
     IN  CanCommit(parents) /\ WriteCommit(parents)
  /\ last' = NoLast
  /\ UNCHANGED <<index, work, mergeHead, mergeMsg, run, interrupted, user>>

(* Mutant of ResetAdd: the name of a branch is written as an object id. *)
ResetAddDetached(target) ==
  /\ Ready("reset-add")
  /\ head' = <<"oid", target[2]>>
  /\ last' = NoLast
  /\ UNCHANGED <<commits, refs, mergeHead, mergeMsg, index, work, run, interrupted, user>>

(* ResetAdd: point HEAD at the target and leave everything else alone. *)
ResetAdd(target) ==
  /\ Ready("reset-add")
  /\ IF target[1] = "ref" THEN head' = target /\ UNCHANGED refs
     ELSE UpdateHead(target[2])
  /\ last' = NoLast
  /\ UNCHANGED <<commits, mergeHead, mergeMsg, index, work, run, interrupted, user>>
-----------------------------------------------------------------------------
(* switchDir and migrate. *)
Changed(old, new) == {p \in Paths : old[p] # new[p]}

(* Mutant of Obstructed: only the index is compared with the trees. *)
ObstructedInIndex(old, new, p) ==
  old[p] # index[p][0] /\ new[p] # index[p][0]

(* untrackedFile. *)
Untracked(q) == work[q] # None /\ q \notin Tracked(index)

(* What an unforced migrate refuses to overwrite, at one changed path. *)
Obstructed(old, new, p) ==
  LET entry == index[p][0]
  IN  IF old[p] # entry /\ new[p] # entry THEN TRUE
      ELSE IF work[p] # None THEN entry = None \/ work[p] # entry
      ELSE IF DirAt(work, p) THEN \E q \in Below(p) : Untracked(q)
      ELSE \E q \in Above[p] : Untracked(q)

(* A forced migrate takes our side of the conflicts it does not touch. *)
OurSide(entry) == IF entry[2] # None THEN entry[2] ELSE entry[3]

WithOurSides(rm, put) ==
  [p \in Paths |-> IF p \in Conflicted(index) \ rm /\ put[p] = None
                   THEN OurSide(index[p]) ELSE put[p]]

Removals(old, new) == {p \in Changed(old, new) : new[p] = None}
Additions(old, new) == [p \in Paths |-> IF p \in Changed(old, new) THEN new[p] ELSE None]

MayMigrate(old, new) ==
  /\ Conflicted(index) = {}
  /\ \A p \in Changed(old, new) : ~Obstructed(old, new, p)

(* switchDir.  The index is renamed into place last, by the deferred Close *)
(* of its lock file.                                                       *)
SwitchDir(cmd, touch, headWrite, target, force) ==
  LET old == HeadTree
      new == TreeOf(target)
      rm == Removals(old, new)
      put == Additions(old, new)
  IN  /\ force \/ MayMigrate(old, new)
      /\ run' = Start(cmd, force, touch, rm, IF force THEN WithOurSides(rm, put) ELSE put,
                      <<headWrite>> \o (IF force THEN << <<"clear">> >> ELSE <<>>)
                                    \o << <<"index">> >>)
      /\ last' = IF cmd = "abort" THEN NoLast ELSE Note(cmd, force, target, NoCommit)

Switch(target, force) ==
  /\ Ready("switch")
  /\ SwitchDir("switch", TRUE, <<"head", target>>, Resolve(target), force)
  /\ UNCHANGED <<repoVars, index, work, interrupted, user>>

Reset(target, force) ==
  /\ Ready("reset")
  /\ SwitchDir("reset", FALSE, <<"tip", Resolve(target)>>, Resolve(target), force)
  /\ UNCHANGED <<repoVars, index, work, interrupted, user>>

ResetDir(target, force) ==
  /\ Ready("reset-dir")
  /\ SwitchDir("reset-dir", TRUE, <<"tip", Resolve(target)>>, Resolve(target), force)
  /\ UNCHANGED <<repoVars, index, work, interrupted, user>>
-----------------------------------------------------------------------------
(* Merge. *)
Kinds == {"merge", "pick"}

(* The candidates for the base: none when the call fails. *)
Bases(kind, target, source) ==
  IF kind = "merge"
  THEN {c \in Commits : BestCommonAncestors(Graph, target, source) = {c}}
  ELSE {commits[source].parents[i] : i \in {1} \cap DOMAIN commits[source].parents}

(* Paths both sides changed, differently; and where both wrote a file. *)
BothChanged(b, t, s) ==
  {p \in Changed(b, s) \cap Changed(b, t) : t[p] # s[p]}
BothWrote(b, t, s) == {p \in BothChanged(b, t, s) : t[p] # None /\ s[p] # None}

(* samePathConflict merges texts and modes each for themselves: a side     *)
(* that left one as it was in the base takes the other's.                  *)
TextOf(v) == IF v = None THEN None ELSE v.text
ModeOf(v) == IF v = None THEN None ELSE v.mode
Settled(b, t, s) == t = s \/ b = t \/ b = s
Side(b, t, s, unsettled) ==
  IF t = s \/ b = s THEN t ELSE IF b = t THEN s ELSE unsettled

ForDiff3(b, t, s) ==
  {p \in BothWrote(b, t, s) : ~Settled(TextOf(b[p]), t[p].text, s[p].text)}

(* Conflicts whatever diff3 says: one side deleted the file, or the modes  *)
(* are in dispute.  When diff3 merges the texts, writeBlobWithDiff3 sets   *)
(* hasConflict anew and a dispute over the modes is forgotten.             *)
Disputes(b, t, s) ==
  (BothChanged(b, t, s) \ BothWrote(b, t, s))
    \cup {p \in BothWrote(b, t, s) \ ForDiff3(b, t, s) :
            ~Settled(ModeOf(b[p]), t[p].mode, s[p].mode)}

MergedFile(b, t, s) ==
  [text |-> Side(TextOf(b), t.text, s.text, MergedText),
   mode |-> Side(ModeOf(b), t.mode, s.mode, t.mode)]

(* fileDirConflict: files one side has where the other has a directory. *)
Clash(b, mine, theirs) ==
  {q \in Changed(b, mine) : mine[q] # None
     /\ \E p \in Changed(b, theirs) : theirs[p] # None /\ q \in Above[p]}

(* Mutant of Merged: our side wins without asking diff3. *)
MergedOurs(b, t, s, p) ==
  IF p \in BothWrote(b, t, s) THEN MergedFile(b[p], t[p], s[p]) ELSE t[p]

(* samePathConflict's side of cleanDiff. *)
Merged(b, t, s, p) ==
  IF p \in BothWrote(b, t, s) THEN MergedFile(b[p], t[p], s[p])
  ELSE IF p \notin Changed(b, t) \/ t[p] = None THEN s[p] ELSE t[p]

(* The rest of Merge once the base is known; diff3 marks the paths in      *)
(* failed3 as conflicts.                                                   *)
StartMerge(kind, source, base, failed3) ==
  LET b == TreeOf(base)
      t == HeadTree
      s == TreeOf(source)
      clash == Clash(b, t, s) \cup Clash(b, s, t)
      conflicts == failed3 \cup Disputes(b, t, s) \cup clash
      touched == Changed(b, s) \ {p \in Changed(b, t) : t[p] = s[p]}
      rm == Clash(b, t, s) \cup {p \in touched \ clash : Merged(b, t, s, p) = None}
      put == [p \in Paths |-> IF p \in touched \ clash THEN Merged(b, t, s, p) ELSE None]
      parents == IF kind = "merge" THEN <<HeadCommit, source>> ELSE <<HeadCommit>>
  IN  run' = [Start(kind, TRUE, TRUE, rm, WithOurSides(rm, put),
                    << <<"index">> >> \o
                      (IF conflicts # {} THEN << <<"record", <<kind, source>> >>, <<"msg">> >>
                       ELSE IF HeadCommit = base THEN << <<"tip", source>> >>
                       ELSE << <<"commit", parents>> >>))
              EXCEPT !.conflicts =
                       [p \in Paths |-> IF p \in conflicts
                                        THEN Unmerged(b[p], t[p], s[p]) ELSE NoEntry]]

MergeNew(kind, target) ==
  /\ Ready(kind)
  /\ mergeHead = NoMerge
  /\ HeadCommit # NoCommit
  /\ LET source == Resolve(target)
     IN  \E base \in Bases(kind, HeadCommit, source) :
           /\ base # source
           /\ \E failed3 \in SUBSET ForDiff3(TreeOf(base), HeadTree, TreeOf(source)) :
                StartMerge(kind, source, base, failed3)
           /\ last' = Note(kind, TRUE, source, base)
  /\ UNCHANGED <<repoVars, index, work, interrupted, user>>

(* Merge into a branch without commits: HEAD first, then the files; the    *)
(* index migrate fills in memory is not written.                           *)
MergeIntoEmpty(kind, target) ==
  /\ Ready(kind)
  /\ mergeHead = NoMerge
  /\ HeadCommit = NoCommit
  /\ LET source == Resolve(target)
     IN  /\ UpdateHead(source)
         /\ run' = Start(kind, TRUE, TRUE, {},
                         WithOurSides({}, Additions(EmptyTree, TreeOf(source))), <<>>)
         /\ last' = Note(kind, TRUE, source, NoCommit)
  /\ UNCHANGED <<commits, mergeHead, mergeMsg, index, work, interrupted, user>>

(* Mutant of MergeCont: unmerged entries do not stop it. *)
MergeContUnchecked(kind) ==
  /\ Ready("continue")
  /\ mergeHead[1] = kind
  /\ mergeMsg
  /\ HeadCommit # NoCommit
  /\ run' = Start("continue", TRUE, TRUE, {}, NoFiles,
                  << <<"clear">>,
                     <<"commit", IF kind = "merge" THEN <<HeadCommit, mergeHead[2]>>
                                 ELSE <<HeadCommit>> >> >>)
  /\ last' = NoLast
  /\ UNCHANGED <<repoVars, index, work, interrupted, user>>

(* --continue: the merge state is removed before the commit is made. *)
MergeCont(kind) ==
  /\ Ready("continue")
  /\ Conflicted(index) = {}
  /\ mergeHead[1] = kind
  /\ mergeMsg
  /\ HeadCommit # NoCommit
  /\ Bases(kind, HeadCommit, mergeHead[2]) # {}
  /\ run' = Start("continue", TRUE, TRUE, {}, NoFiles,
                  << <<"clear">>,
                     <<"commit", IF kind = "merge" THEN <<HeadCommit, mergeHead[2]>>
                                 ELSE <<HeadCommit>> >> >>)
  /\ last' = NoLast
  /\ UNCHANGED <<repoVars, index, work, interrupted, user>>

(* --abort: remove the merge state, then a forced ResetDir to HEAD, whose  *)
(* tree diff is empty: only the unmerged paths are put back.               *)
MergeAbort ==
  /\ Ready("abort")
  /\ HeadCommit # NoCommit
  /\ mergeHead' = NoMerge
  /\ mergeMsg' = FALSE
  /\ SwitchDir("abort", TRUE, <<"tip", HeadCommit>>, HeadCommit, TRUE)
  /\ UNCHANGED <<commits, refs, head, index, work, interrupted, user>>
-----------------------------------------------------------------------------
(* The steps of a running command. *)
Migrating == run.rm # {} \/ run.put # NoFiles

(* The directory p is in. *)
Parent(p) == {q \in Above[p] : Above[p] \subseteq {q} \cup Above[q]}

(* os.Remove takes p away, and then what is left of the directory, until   *)
(* it fails: an empty directory, or a file that stands in its place.       *)
Without(files, p) ==
  [q \in Paths |-> IF q \in {p} \cup Parent(p) THEN None ELSE files[q]]

(* Mutant of RemoveFile: the entry of the file stays in the index. *)
RemoveFileOnly(p) ==
  /\ p \in run.rm
  /\ work' = IF run.touch THEN Without(work, p) ELSE work
  /\ run' = [run EXCEPT !.rm = @ \ {p}]
  /\ UNCHANGED <<repoVars, index, last, interrupted, user>>

RemoveFile(p) ==
  /\ p \in run.rm
  /\ work' = IF run.touch THEN Without(work, p) ELSE work
  /\ run' = [run EXCEPT !.rm = @ \ {p}, !.idx = RemovePath(@, p)]
  /\ UNCHANGED <<repoVars, index, last, interrupted, user>>

(* objectToFile succeeds when no file is above p and no directory at p.    *)
(* Without the work dir, AddPath only needs something to be there.         *)
CanPut(p) ==
  IF run.touch THEN ~FileAbove(work, p) /\ ~DirAt(work, p) ELSE Exists(work, p)

(* objectToFile unlinks what a symbolic link replaces, but opens a regular *)
(* file with O_CREATE and O_TRUNC: a file that exists keeps its mode, and  *)
(* a symbolic link is followed.                                            *)
IsLink(v) == v # None /\ v.mode = "link"
KeepsMode(old, new) ==
  /\ old # None /\ new # None
  /\ ~IsLink(old) /\ ~IsLink(new)
  /\ old.mode # new.mode
Overwritten(old, new) == IF KeepsMode(old, new) THEN [new EXCEPT !.mode = old.mode] ELSE new
Follows(p) == run.touch /\ IsLink(work[p]) /\ ~IsLink(run.put[p])

(* What the link leads to: a file outside of the work dir or one of it.    *)
WriteThrough(v) ==
  \/ UNCHANGED work
  \/ \E q \in Paths : /\ ~FileAbove(work, q) /\ ~DirAt(work, q) /\ ~IsLink(work[q])
                       /\ work' = [work EXCEPT ![q] = Overwritten(@, v)]

PutFile(p) ==
  /\ run.rm = {} /\ run.put[p] # None
  /\ CanPut(p)
  /\ IF Follows(p) THEN WriteThrough(run.put[p])
     ELSE work' = IF run.touch THEN [work EXCEPT ![p] = Overwritten(@, run.put[p])]
                  ELSE work
  /\ run' = [run EXCEPT !.put[p] = None, !.idx = AddPath(@, work', p)]
  /\ UNCHANGED <<repoVars, index, last, interrupted, user>>

(* The command returns the error; what it has done so far stays done.  A   *)
(* link may lead to where no file can be made.                             *)
PutFails(p) ==
  /\ run.rm = {} /\ run.put[p] # None
  /\ ~CanPut(p) \/ Follows(p)
  /\ run' = Idle
  /\ last' = NoLast
  /\ interrupted' = (interrupted \/ run.cmd = "abort")
  /\ UNCHANGED <<repoVars, index, work, user>>

Next1(kind) == run # Idle /\ ~Migrating /\ run.post # <<>> /\ run.post[1][1] = kind
Done1 == run' = [run EXCEPT !.post = Tail(@)]

(* addConflictEntries, and the index is renamed into place. *)
WriteIndex ==
  /\ Next1("index")
  /\ index' = [p \in Paths |-> IF run.conflicts[p] # NoEntry THEN run.conflicts[p]
                               ELSE run.idx[p]]
  /\ Done1
  /\ UNCHANGED <<repoVars, work, last, interrupted, user>>

ReplaceHead ==
  /\ Next1("head")
  /\ head' = run.post[1][2]
  /\ Done1
  /\ UNCHANGED <<commits, refs, mergeHead, mergeMsg, index, work, last, interrupted, user>>

MoveTip ==
  /\ Next1("tip")
  /\ UpdateHead(run.post[1][2])
  /\ Done1
  /\ UNCHANGED <<commits, mergeHead, mergeMsg, index, work, last, interrupted, user>>

RemoveMergeState ==
  /\ Next1("clear")
  /\ mergeHead' = NoMerge
  /\ mergeMsg' = FALSE
  /\ Done1
  /\ UNCHANGED <<commits, refs, head, index, work, last, interrupted, user>>

RecordMergeHead ==
  /\ Next1("record")
  /\ mergeHead' = run.post[1][2]
  /\ Done1
  /\ UNCHANGED <<commits, refs, head, mergeMsg, index, work, last, interrupted, user>>

RecordMergeMsg ==
  /\ Next1("msg")
  /\ mergeMsg' = TRUE
  /\ Done1
  /\ UNCHANGED <<commits, refs, head, mergeHead, index, work, last, interrupted, user>>

CommitMerge ==
  /\ Next1("commit")
  /\ CanCommit(run.post[1][2])
  /\ WriteCommit(run.post[1][2])
  /\ Done1
  /\ UNCHANGED <<mergeHead, mergeMsg, index, work, last, interrupted, user>>

(* "empty commit": the merge state is gone by now. *)
CommitFails ==
  /\ Next1("commit")
  /\ ~CanCommit(run.post[1][2])
  /\ run' = Idle
  /\ last' = NoLast
  /\ UNCHANGED <<repoVars, index, work, interrupted, user>>

Return ==
  /\ run # Idle /\ ~Migrating /\ run.post = <<>>
  /\ run' = Idle
  /\ last' = IF last = NoLast THEN NoLast ELSE [last EXCEPT !.status = "ok"]
  /\ UNCHANGED <<repoVars, index, work, interrupted, user>>

(* The process is killed. *)
Crash ==
  /\ run # Idle
  /\ "crash" \in user.commands
  /\ run' = Idle
  /\ last' = NoLast
  /\ interrupted' = TRUE
  /\ UNCHANGED <<repoVars, index, work, user>>

Step ==
  \/ \E p \in Paths : RemoveFile(p) \/ PutFile(p) \/ PutFails(p)
  \/ WriteIndex \/ ReplaceHead \/ MoveTip
  \/ RemoveMergeState \/ RecordMergeHead \/ RecordMergeMsg
  \/ CommitMerge \/ CommitFails
  \/ Return

Next ==
  \/ \E p \in Paths :
       \/ \E v \in Contents \cup {None} : Edit(p, v)
       \/ Add(p) \/ Unadd(p) \/ Restore(p)
       \/ \E force \in BOOLEAN : Untrack(p, force) \/ Remove(p, force)
  \/ Commit
  \/ \E target \in Targets :
       \/ ResetAdd(target)
       \/ \E force \in BOOLEAN :
            Switch(target, force) \/ Reset(target, force) \/ ResetDir(target, force)
       \/ \E kind \in Kinds : MergeNew(kind, target) \/ MergeIntoEmpty(kind, target)
  \/ \E kind \in Kinds : MergeCont(kind)
  \/ MergeAbort
  \/ Step
  \/ Crash

Spec == Init /\ [][Next]_vars
-----------------------------------------------------------------------------
(* The writes that can follow in a repository with n commits. *)
Writes(n) ==
  {<<"index">>, <<"clear">>, <<"msg">>}
    \cup ({"head"} \X Heads(n))
    \cup ({"tip"} \X (1..n))
    \cup ({"record"} \X (Kinds \X (1..n)))
    \cup ({"commit"} \X ({<<c>> : c \in 1..n} \cup ((1..n) \X (1..n))))

StepCommands ==
  {"none", "rm", "restore", "switch", "reset", "reset-dir", "continue", "abort"} \cup Kinds

Running(n) ==
  [cmd : StepCommands, force : BOOLEAN, touch : BOOLEAN, rm : SUBSET Paths, put : Files,
   idx : Index, conflicts : Index, post : Seq(Writes(n))]

TypeOK ==
  /\ commits \in Seq(CommitObjects) /\ Older(commits)
  /\ refs \in Tips(Len(commits))
  /\ head \in Heads(Len(commits))
  /\ index \in Index
  /\ work \in Files
  /\ mergeHead \in {NoMerge} \cup (Kinds \X Commits)
  /\ mergeMsg \in BOOLEAN
  /\ run \in Running(Len(commits))
  /\ interrupted \in BOOLEAN
  /\ user \in Users

(* While no merge is unfinished, the next commit holds every staged entry: *)
(* writeTree leaves out unmerged entries and what is staged below another  *)
(* entry, so there must not be any.  addEntry does not see to it, every    *)
(* caller has to.  (On paths of three levels it fails: a merge over a      *)
(* staged file leaves a conflict below that file, and unadd restores what  *)
(* HEAD has below the conflict.)                                           *)
CommitKeepsStaged ==
  run = Idle /\ ~interrupted /\ mergeHead = NoMerge
  => \A p \in Paths : TreeOfIndex(index)[p] = index[p][0]

(* Where a symbolic link is in the way of a regular file. *)
LinksInTheWay(files, old, new) ==
  {p \in Changed(old, new) : IsLink(files[p]) /\ new[p] # None /\ ~IsLink(new[p])}

(* Without -f, switch, reset-dir and rm never overwrite or delete a file   *)
(* whose content is not in the index: the checks of migrate and            *)
(* removePaths stop them before the first file is touched.  There are      *)
(* three exceptions.  rm deletes the file of an unmerged path; a file that *)
(* stands where the directory of a removed path was is unlinked with it;   *)
(* and when the target has a regular file where a symbolic link is, its    *)
(* text overwrites, unchecked, what the link leads to.                     *)
UnforcedKeepsWork ==
  [][\A p \in Paths :
       /\ run.cmd \in {"switch", "reset-dir", "rm"} /\ ~run.force
       /\ work[p] # None /\ work'[p] # work[p]
       => \/ work[p] = index[p][0]
          \/ run.cmd = "rm" /\ p \in Conflicted(index)
          \/ \E q \in run.rm \ run'.rm : p \in Parent(q)
          \/ \E q \in LinksInTheWay(work, TreeOf(last.old), TreeOf(last.new)) :
               TreeOf(last.new)[q].text \in {TextOf(work[p]), TextOf(work'[p])}]_vars

(* A switch or reset-dir that starts from a clean checkout and succeeds    *)
(* ends in a clean checkout of its target, and leaves the untracked files  *)
(* alone, even though migrate works path by path on a tree diff.  Only the *)
(* mode of a regular file that existed before is kept, in the work dir and *)
(* in the index, and nothing is promised when a symbolic link was in the   *)
(* way of a regular file.                                                  *)
SwitchIsExact ==
  LET old == TreeOf(last.old)
      new == TreeOf(last.new)
      Target(p) == IF KeepsMode(last.before[p], new[p])
                   THEN [text |-> new[p].text, mode |-> last.before[p].mode] ELSE new[p]
  IN  /\ last.status = "ok" /\ last.cmd \in {"switch", "reset-dir"} /\ last.clean
      /\ LinksInTheWay(last.before, old, new) = {}
      => /\ HeadCommit = last.new
         /\ \A p \in Paths :
              /\ index[p] = Staged(Target(p))
              /\ work[p] = IF new[p] # None THEN Target(p)
                           ELSE IF old[p] # None THEN None ELSE last.before[p]

(* A merge or cherry-pick that starts from a clean checkout merges every   *)
(* path three-way: where one side did not change it, the other's version;  *)
(* where the two differ, text and mode each for themselves, with diff3 for *)
(* the text and our mode when both sides changed it.  Only the mode of a   *)
(* regular file that existed before is kept, and nothing is promised when  *)
(* a symbolic link was in the way of a regular file.  A path is left       *)
(* unmerged only when both sides changed it differently, or one put a file *)
(* where the other put one below, and then with the versions of the base   *)
(* and of both sides.  Without conflicts what is staged is committed, or   *)
(* HEAD moves to the source, whose modes it then has; with conflicts HEAD  *)
(* stays and the merge is on record.                                       *)
MergeIsThreeWay ==
  LET b == TreeOf(last.base)
      t == TreeOf(last.old)
      s == TreeOf(last.new)
      Part(old, ours, theirs, disputed) ==
        IF theirs = old THEN ours
        ELSE IF ours \in {old, theirs} THEN theirs ELSE disputed
      ThreeWay(p) ==
        IF s[p] = b[p] THEN t[p]
        ELSE IF t[p] = b[p] \/ t[p] = s[p] THEN s[p]
        ELSE IF t[p] = None THEN s[p]
        ELSE IF s[p] = None THEN t[p]
        ELSE [text |-> Part(TextOf(b[p]), t[p].text, s[p].text, MergedText),
              mode |-> Part(ModeOf(b[p]), t[p].mode, s[p].mode, t[p].mode)]
      Outcome(p) == IF KeepsMode(last.before[p], ThreeWay(p))
                    THEN [text |-> ThreeWay(p).text, mode |-> last.before[p].mode]
                    ELSE ThreeWay(p)
      FileOverDir(mine, theirs, p) ==
        mine[p] \notin {None, b[p]} /\ \E q \in Below(p) : theirs[q] \notin {None, b[q]}
      MayConflict(p) == \/ t[p] # b[p] /\ s[p] # b[p] /\ t[p] # s[p]
                        \/ FileOverDir(t, s, p) \/ FileOverDir(s, t, p)
  IN  /\ last.status = "ok" /\ last.cmd \in Kinds /\ last.clean /\ last.old # NoCommit
      /\ LinksInTheWay(last.before, t, [p \in Paths |-> ThreeWay(p)]) = {}
      => /\ \A p \in Paths \ Conflicted(index) : index[p] = Staged(Outcome(p))
         /\ \A p \in Conflicted(index) : MayConflict(p) /\ index[p] = Unmerged(b[p], t[p], s[p])
         /\ \A p \in Paths : index[p][0] # None => work[p] = index[p][0]
         /\ IF Conflicted(index) = {}
            THEN \/ index = Plain(HeadTree)
                 \/ HeadCommit = last.new /\ last.old = last.base
            ELSE HeadCommit = last.old /\ mergeHead = <<last.cmd, last.new>>

(* As long as no command was killed and no abort failed midway, unmerged   *)
(* entries mean that the merge is on record, so that commit refuses to     *)
(* drop them.                                                              *)
UnmergedIsOnRecord ==
  run = Idle /\ ~interrupted /\ Conflicted(index) # {} => mergeHead # NoMerge

(* "Switch switches HEAD, the index, and the working directory to a new    *)
(* target."                                                                *)
SwitchReachesTarget ==
  last.status = "ok" /\ last.cmd = "switch" /\ last.clean
  => \A p \in Paths : TreeOf(last.new)[p] # None => work[p] = TreeOf(last.new)[p]

(* "remove empty parent directories": a removal takes away, beside the     *)
(* paths to be removed, directories and no file.                           *)
OnlyDirectoriesGo ==
  [][\A p \in Paths : run'.rm # run.rm /\ work'[p] # work[p] => p \in run.rm]_vars
=============================================================================
