--------------------------- MODULE WorkTreeProofs ---------------------------
(***************************************************************************)
(* Proofs about WorkTree for every set of paths, contents and branches,    *)
(* every starting repository and every set of commands: type correctness,  *)
(* that a command without -f never destroys work that is not staged; that  *)
(* what is unmerged is on record, and that the next commit holds all that  *)
(* is staged.                                                              *)
(***************************************************************************)
EXTENDS WorkTree, SequenceTheorems, TLAPS

Values == Contents \cup {None}

(* Files: what objectToFile leaves, and what a same-path merge makes. *)
LEMMA FileFacts ==
  ASSUME NEW old \in Values, NEW new \in Contents
  PROVE  /\ new # None
         /\ Overwritten(old, new) \in Contents
         /\ TextOf(Overwritten(old, new)) = new.text
         /\ ~IsLink(new) => ~IsLink(Overwritten(old, new))
         /\ IsLink(new) => Overwritten(old, new) = new
         /\ IsLink(old) => Overwritten(old, new) = new
<1>1. new # None
  BY WorkTreeAssumption
<1>2. CASE KeepsMode(old, new)
  <2>1. old # None /\ old \in Contents /\ ~IsLink(old) /\ ~IsLink(new)
    BY <1>2 DEF KeepsMode, Values
  <2>2. Overwritten(old, new) = [new EXCEPT !.mode = old.mode]
    BY <1>2 DEF Overwritten
  <2>3. [new EXCEPT !.mode = old.mode] \in Contents
    BY <2>1 DEF Contents
  <2>4. /\ [new EXCEPT !.mode = old.mode].text = new.text
        /\ [new EXCEPT !.mode = old.mode].mode = old.mode
    BY DEF Contents
  <2>5. TextOf(Overwritten(old, new)) = new.text
    BY <2>2, <2>3, <2>4, WorkTreeAssumption DEF TextOf
  <2>6. ~IsLink(Overwritten(old, new))
    BY <1>1, <2>1, <2>2, <2>4 DEF IsLink
  <2>7. Overwritten(old, new) \in Contents
    BY <2>2, <2>3
  <2> QED BY <1>1, <2>1, <2>5, <2>6, <2>7
<1>3. CASE ~KeepsMode(old, new)
  BY <1>3, WorkTreeAssumption DEF Overwritten, TextOf
<1> QED BY <1>2, <1>3

LEMMA MergedFileTypes ==
  ASSUME NEW b \in Values, NEW t \in Contents, NEW s \in Contents
  PROVE  MergedFile(b, t, s) \in Contents
<1>1. t.text \in Texts \cup {MergedText} /\ s.text \in Texts \cup {MergedText}
      /\ t.mode \in Modes /\ s.mode \in Modes
  BY DEF Contents
<1> QED BY <1>1 DEF MergedFile, Side, Contents

(* What the helpers on entries, trees and the index return. *)
LEMMA EntryTypes ==
  /\ NoEntry \in Entry
  /\ \A v \in Values : Staged(v) \in Entry
  /\ \A b, t, s \in Values : Unmerged(b, t, s) \in Entry
  /\ \A e \in Entry : OurSide(e) \in Values
<1>1. NoEntry \in Entry
  BY DEF NoEntry, Entry
<1>2. ASSUME NEW v \in Values PROVE Staged(v) \in Entry
  BY DEF Staged, Entry, Values
<1>3. ASSUME NEW b \in Values, NEW t \in Values, NEW s \in Values
      PROVE  Unmerged(b, t, s) \in Entry
  <2>1. ASSUME NEW i \in Stages
        PROVE  (IF i = 0 THEN None ELSE <<b, t, s>>[i]) \in Values
    <3>1. i = 0 \/ i = 1 \/ i = 2 \/ i = 3
      BY DEF Stages
    <3> QED BY <3>1 DEF Values
  <2> QED BY <2>1 DEF Unmerged, Entry, Values
<1>4. ASSUME NEW e \in Entry PROVE OurSide(e) \in Values
  BY DEF OurSide, Entry, Stages, Values
<1> QED BY <1>1, <1>2, <1>3, <1>4

LEMMA IndexTypes ==
  /\ EmptyTree \in Files
  /\ \A tree \in Files : Plain(tree) \in Index
  /\ \A idx \in Index, p \in Paths : RemovePath(idx, p) \in Index
  /\ \A idx \in Index, files \in Files, p \in Paths : AddPath(idx, files, p) \in Index
  /\ \A idx \in Index : TreeOfIndex(idx) \in Files
<1> USE EntryTypes DEF Files, Index, Values
<1>1. EmptyTree \in Files
  BY DEF EmptyTree
<1>2. \A tree \in Files : Plain(tree) \in Index
  BY DEF Plain
<1>3. \A idx \in Index, p \in Paths : RemovePath(idx, p) \in Index
  BY DEF RemovePath
<1>4. ASSUME NEW idx \in Index, NEW files \in Files, NEW p \in Paths
      PROVE  AddPath(idx, files, p) \in Index
  <2> DEFINE added == FilesAt(files, p)
             above == {q \in Tracked(idx) : \E f \in added : q \in Above[f]}
             gone == UNION {AtOrBelow(q) : q \in above \cup added}
  <2>1. AddPath(idx, files, p) = [q \in Paths |-> CASE q \in added -> Staged(files[q])
                                                   [] q \in gone \ added -> NoEntry
                                                   [] OTHER -> idx[q]]
    BY DEF AddPath
  <2> HIDE DEF added, gone
  <2>2. \A q \in Paths : (CASE q \in added -> Staged(files[q])
                            [] q \in gone \ added -> NoEntry
                            [] OTHER -> idx[q]) \in Entry
    OBVIOUS
  <2> QED BY <2>1, <2>2
<1>5. \A idx \in Index : TreeOfIndex(idx) \in Files
  BY DEF TreeOfIndex, Entry, Stages
<1> QED BY <1>1, <1>2, <1>3, <1>4, <1>5
-----------------------------------------------------------------------------
(* HEAD and the targets of the commands name commits that exist. *)
LEMMA HeadTypes ==
  ASSUME TypeOK
  PROVE  /\ Len(commits) \in Nat
         /\ HeadCommit \in Commits \cup {NoCommit}
         /\ \A c \in Commits \cup {NoCommit} : TreeOf(c) \in Files
         /\ HeadTree \in Files
         /\ \A target \in Targets : /\ target \in Heads(Len(commits))
                                    /\ Resolve(target) \in Commits
<1> USE DEF TypeOK, Commits, Heads, Tips
<1>1. Len(commits) \in Nat
  OBVIOUS
<1>2. HeadCommit \in Commits \cup {NoCommit}
  BY DEF HeadCommit
<1>3. ASSUME NEW c \in Commits \cup {NoCommit} PROVE TreeOf(c) \in Files
  <2>1. CASE c = NoCommit
    BY <2>1, IndexTypes DEF TreeOf
  <2>2. CASE c # NoCommit
    <3>1. commits[c] \in CommitObjects
      BY <2>2
    <3> QED BY <2>2, <3>1 DEF TreeOf, CommitObjects, Files
  <2> QED BY <2>1, <2>2
<1>4. HeadTree \in Files
  BY <1>2, <1>3 DEF HeadTree
<1>5. ASSUME NEW target \in Targets
      PROVE  target \in Heads(Len(commits)) /\ Resolve(target) \in Commits
  BY DEF Targets, Resolve
<1> QED BY <1>1, <1>2, <1>3, <1>4, <1>5

(* The writes of a longer history include those of a shorter one. *)
LEMMA WritesGrow ==
  ASSUME NEW n \in Nat
  PROVE  /\ Writes(n) \subseteq Writes(n + 1)
         /\ Seq(Writes(n)) \subseteq Seq(Writes(n + 1))
<1> DEFINE ps(k) == {<<c>> : c \in 1..k} \cup ((1..k) \X (1..k))
           rec(k) == Kinds \X (1..k)
           tips(k) == 1..k
<1>1. /\ 1..n \subseteq 1..(n + 1)
      /\ tips(n) \subseteq tips(n + 1)
      /\ rec(n) \subseteq rec(n + 1)
  OBVIOUS
<1>2. Heads(n) \subseteq Heads(n + 1)
  BY <1>1 DEF Heads
<1>3. ps(n) \subseteq ps(n + 1)
  BY <1>1
<1>4. Writes(n) \subseteq Writes(n + 1)
  <2>1. \A k : Writes(k) = {<<"index">>, <<"clear">>, <<"msg">>} \cup ({"head"} \X Heads(k))
                 \cup ({"tip"} \X tips(k)) \cup ({"record"} \X rec(k)) \cup ({"commit"} \X ps(k))
    BY DEF Writes
  <2> HIDE DEF ps, rec, tips
  <2> QED BY <1>1, <1>2, <1>3, <2>1
<1>5. \A S, T : S \subseteq T => Seq(S) \subseteq Seq(T)
  OBVIOUS
<1> QED BY <1>4, <1>5

(* What each kind of write carries. *)
LEMMA WriteParts ==
  ASSUME NEW n \in Nat, NEW w \in Writes(n)
  PROVE  /\ w[1] = "head" => w[2] \in Heads(n)
         /\ w[1] = "tip" => w[2] \in 1..n
         /\ w[1] = "record" => w[2] \in Kinds \X (1..n)
         /\ w[1] = "commit" => w[2] \in {<<c>> : c \in 1..n} \cup ((1..n) \X (1..n))
<1> DEFINE ps == {<<c>> : c \in 1..n} \cup ((1..n) \X (1..n))
           rec == Kinds \X (1..n)
           heads == Heads(n)
           tips == 1..n
<1>1. w \in {<<"index">>, <<"clear">>, <<"msg">>} \cup ({"head"} \X heads)
          \cup ({"tip"} \X tips) \cup ({"record"} \X rec) \cup ({"commit"} \X ps)
  BY DEF Writes
<1> HIDE DEF ps, rec, heads, tips
<1>2. /\ w[1] = "head" => w[2] \in heads
      /\ w[1] = "tip" => w[2] \in tips
      /\ w[1] = "record" => w[2] \in rec
      /\ w[1] = "commit" => w[2] \in ps
  BY <1>1
<1> QED BY <1>2 DEF ps, rec, heads, tips
-----------------------------------------------------------------------------
(* The operators the actions share keep the types. *)
LEMMA IdleTypes == Idle \in Running(Len(commits))
<1>1. <<>> \in Seq(Writes(Len(commits)))
  OBVIOUS
<1>2. NoFiles \in Files /\ Plain(EmptyTree) \in Index
  BY IndexTypes DEF NoFiles
<1> QED BY <1>1, <1>2 DEF Idle, Running, StepCommands

LEMMA StartTypes ==
  ASSUME TypeOK, NEW cmd \in StepCommands, NEW force \in BOOLEAN, NEW touch \in BOOLEAN,
         NEW rm \in SUBSET Paths, NEW put \in Files,
         NEW post \in Seq(Writes(Len(commits)))
  PROVE  Start(cmd, force, touch, rm, put, post) \in Running(Len(commits))
<1>1. index \in Index
  BY DEF TypeOK
<1> QED BY <1>1, IdleTypes DEF Start, Running, Idle

LEMMA WithOurSidesTypes ==
  ASSUME TypeOK, NEW rm, NEW put \in Files
  PROVE  WithOurSides(rm, put) \in Files
<1>1. \A p \in Paths : OurSide(index[p]) \in Values
  BY EntryTypes DEF TypeOK, Index
<1> QED BY <1>1 DEF WithOurSides, Files, Values

LEMMA SwitchDirTypes ==
  ASSUME TypeOK, NEW cmd \in StepCommands, NEW touch \in BOOLEAN, NEW force \in BOOLEAN,
         NEW headWrite \in Writes(Len(commits)), NEW target \in Commits,
         SwitchDir(cmd, touch, headWrite, target, force)
  PROVE  run' \in Running(Len(commits))
<1> DEFINE W == Writes(Len(commits))
           old == HeadTree
           new == TreeOf(target)
           rm == Removals(old, new)
           put == Additions(old, new)
           files == IF force THEN WithOurSides(rm, put) ELSE put
           post == <<headWrite>> \o (IF force THEN << <<"clear">> >> ELSE <<>>)
                                 \o << <<"index">> >>
<1>1. rm \in SUBSET Paths
  BY DEF Removals, Changed
<1>2. put \in Files
  BY HeadTypes, IndexTypes DEF Additions, Files, Values
<1>3. files \in Files
  BY <1>2, WithOurSidesTypes
<1>4. post \in Seq(W)
  <2>1. <<"clear">> \in W /\ <<"index">> \in W /\ headWrite \in W
    BY DEF Writes
  <2> HIDE DEF W
  <2> QED BY <2>1
<1>5. run' = Start(cmd, force, touch, rm, files, post)
  BY Zenon DEF SwitchDir
<1> HIDE DEF files, post, rm
<1> QED BY <1>1, <1>3, <1>4, <1>5, StartTypes

LEMMA BasesTypes ==
  ASSUME TypeOK, NEW kind, NEW target, NEW source \in Commits
  PROVE  Bases(kind, target, source) \subseteq Commits
<1>1. CASE kind = "merge"
  BY <1>1 DEF Bases
<1>2. CASE kind # "merge"
  <2>1. source \in Nat /\ Len(commits) \in Nat /\ source <= Len(commits)
    BY HeadTypes DEF Commits
  <2>2. \A i \in DOMAIN commits[source].parents :
          commits[source].parents[i] \in 1..(source - 1)
    BY DEF TypeOK, Older, Commits
  <2>3. 1..(source - 1) \subseteq Commits
    BY <2>1 DEF Commits
  <2> QED BY <1>2, <2>2, <2>3 DEF Bases
<1> QED BY <1>1, <1>2

LEMMA StartMergeTypes ==
  ASSUME TypeOK, HeadCommit # NoCommit, NEW kind \in Kinds, NEW source \in Commits,
         NEW base \in Commits, NEW failed3, StartMerge(kind, source, base, failed3)
  PROVE  run' \in Running(Len(commits))
<1> DEFINE W == Writes(Len(commits))
           b == TreeOf(base)
           t == HeadTree
           s == TreeOf(source)
           clash == Clash(b, t, s) \cup Clash(b, s, t)
           conflicts == failed3 \cup Disputes(b, t, s) \cup clash
           touched == Changed(b, s) \ {p \in Changed(b, t) : t[p] = s[p]}
           rm == Clash(b, t, s) \cup {p \in touched \ clash : Merged(b, t, s, p) = None}
           put == [p \in Paths |-> IF p \in touched \ clash THEN Merged(b, t, s, p) ELSE None]
           parents == IF kind = "merge" THEN <<HeadCommit, source>> ELSE <<HeadCommit>>
           post == << <<"index">> >> \o
                     (IF conflicts # {} THEN << <<"record", <<kind, source>> >>, <<"msg">> >>
                      ELSE IF HeadCommit = base THEN << <<"tip", source>> >>
                      ELSE << <<"commit", parents>> >>)
           marks == [p \in Paths |-> IF p \in conflicts
                                     THEN Unmerged(b[p], t[p], s[p]) ELSE NoEntry]
<1>1. b \in Files /\ t \in Files /\ s \in Files
  BY HeadTypes
<1>2. HeadCommit \in Commits
  BY HeadTypes
<1>3. rm \in SUBSET Paths
  BY DEF Clash, Changed
<1> HIDE DEF b, t, s
<1>4. ASSUME NEW p \in Paths PROVE Merged(b, t, s, p) \in Values
  <2>1. b[p] \in Values /\ t[p] \in Values /\ s[p] \in Values
    BY <1>1 DEF Files, Values
  <2>2. p \in BothWrote(b, t, s) => t[p] \in Contents /\ s[p] \in Contents
    BY <2>1 DEF BothWrote, Values
  <2> QED BY <2>1, <2>2, MergedFileTypes DEF Merged, Values
<1>5. put \in Files
  BY <1>4 DEF Files, Values
<1>6. marks \in Index
  BY <1>1, EntryTypes DEF Files, Index, Values
<1>7. post \in Seq(W)
  <2>1. parents \in {<<c>> : c \in Commits} \cup (Commits \X Commits)
    BY <1>2
  <2>2. <<kind, source>> \in Kinds \X Commits
    OBVIOUS
  <2>3. <<"index">> \in W /\ <<"msg">> \in W /\ <<"tip", source>> \in W
    BY DEF Writes, Commits
  <2>4. <<"record", <<kind, source>> >> \in W
    BY <2>2 DEF Writes, Commits
  <2>5. <<"commit", parents>> \in W
    BY <2>1 DEF Writes, Commits
  <2> HIDE DEF W, parents, conflicts
  <2> QED BY <2>3, <2>4, <2>5
<1>8. run' = [Start(kind, TRUE, TRUE, rm, WithOurSides(rm, put), post)
                EXCEPT !.conflicts = marks]
  BY Zenon DEF StartMerge, b, t, s
<1> HIDE DEF rm, put, post, marks
<1>9. WithOurSides(rm, put) \in Files
  BY <1>5, WithOurSidesTypes
<1>10. kind \in StepCommands
  BY DEF StepCommands
<1>11. Start(kind, TRUE, TRUE, rm, WithOurSides(rm, put), post) \in Running(Len(commits))
  BY <1>3, <1>7, <1>9, <1>10, StartTypes
<1> QED BY <1>6, <1>8, <1>11 DEF Running

LEMMA UpdateHeadTypes ==
  ASSUME TypeOK, NEW n \in Nat, Len(commits) <= n, NEW c \in 1..n, UpdateHead(c)
  PROVE  refs' \in Tips(n) /\ head' \in Heads(n)
<1>1. Len(commits) \in Nat /\ 1..Len(commits) \subseteq 1..n
  BY HeadTypes
<1>2. refs \in Tips(n) /\ head \in Heads(n)
  BY <1>1 DEF TypeOK, Tips, Heads
<1> QED BY <1>2 DEF UpdateHead, Tips, Heads

LEMMA WriteCommitTypes ==
  ASSUME TypeOK, NEW parents \in Seq(Commits), WriteCommit(parents)
  PROVE  /\ commits' \in Seq(CommitObjects) /\ Older(commits')
         /\ Len(commits') = Len(commits) + 1
         /\ refs' \in Tips(Len(commits')) /\ head' \in Heads(Len(commits'))
<1> DEFINE n == Len(commits)
           new == [tree |-> TreeOfIndex(index), parents |-> parents]
<1>1. n \in Nat /\ commits \in Seq(CommitObjects) /\ Older(commits)
  BY DEF TypeOK
<1>2. new \in CommitObjects
  <2>1. TreeOfIndex(index) \in Files
    BY IndexTypes DEF TypeOK
  <2>2. parents \in Seq(Nat)
    BY DEF Commits
  <2> QED BY <2>1, <2>2 DEF CommitObjects, Files
<1>3. commits' = Append(commits, new) /\ UpdateHead(n + 1)
  BY DEF WriteCommit
<1>4. new.parents = parents
  OBVIOUS
<1> HIDE DEF new
<1>5. commits' \in Seq(CommitObjects) /\ Len(commits') = n + 1
  BY <1>1, <1>2, <1>3
<1>6. Older(commits')
  <2> SUFFICES ASSUME NEW c \in 1..(n + 1), NEW i \in DOMAIN commits'[c].parents
               PROVE  commits'[c].parents[i] \in 1..(c - 1)
    BY <1>5 DEF Older
  <2>1. CASE c = n + 1
    <3>1. commits'[c] = new
      BY <1>1, <1>3, <2>1
    <3>2. parents[i] \in 1..n
      BY <1>4, <3>1 DEF Commits
    <3> QED BY <1>1, <1>4, <2>1, <3>1, <3>2
  <2>2. CASE c # n + 1
    <3>1. c \in 1..n
      BY <1>1, <2>2
    <3>2. commits'[c] = commits[c]
      BY <1>1, <1>3, <3>1
    <3> QED BY <1>1, <3>1, <3>2 DEF Older
  <2> QED BY <2>1, <2>2
<1>7. refs' \in Tips(n + 1) /\ head' \in Heads(n + 1)
  BY <1>1, <1>3, UpdateHeadTypes
<1> QED BY <1>5, <1>6, <1>7
-----------------------------------------------------------------------------
(* One lemma per group of actions: they keep TypeOK. *)
LEMMA PlainTypes ==
  ASSUME TypeOK, NEW p \in Paths, NEW v \in Contents \cup {None}, NEW force \in BOOLEAN,
         Edit(p, v) \/ Add(p) \/ Unadd(p) \/ Untrack(p, force)
  PROVE  TypeOK'
<1>1. CASE Edit(p, v)
  <2>1. work' \in Files
    BY <1>1 DEF Edit, TypeOK, Files, Contents
  <2>2. user' \in Users
    BY <1>1 DEF Edit, TypeOK, Users
  <2>3. UNCHANGED <<commits, refs, head, mergeHead, mergeMsg, index, run, interrupted>>
    BY <1>1 DEF Edit, repoVars
  <2> QED BY <2>1, <2>2, <2>3 DEF TypeOK, Commits
<1>2. ASSUME NEW idx \in Index, WriteIndexOnly(idx) PROVE TypeOK'
  <2>1. index' \in Index /\ UNCHANGED <<commits, refs, head, mergeHead, mergeMsg, work, run,
                                          interrupted, user>>
    BY <1>2 DEF WriteIndexOnly, repoVars
  <2> QED BY <2>1 DEF TypeOK, Commits
<1>3. index \in Index /\ work \in Files
  BY DEF TypeOK
<1>4. CASE Add(p)
  BY <1>2, <1>3, <1>4, IndexTypes DEF Add
<1>5. CASE Unadd(p)
  <2>1. RemovePath(index, p) \in Index /\ HeadTree \in Files
    BY <1>3, IndexTypes, HeadTypes
  <2>2. RestoreToIndex(RemovePath(index, p), p) \in Index
    BY <2>1, EntryTypes DEF RestoreToIndex, Index, Files, Values
  <2>3. WriteIndexOnly(RestoreToIndex(RemovePath(index, p), p))
    BY <1>5 DEF Unadd
  <2> QED BY <1>2, <2>2, <2>3
<1>6. CASE Untrack(p, force)
  BY <1>2, <1>3, <1>6, IndexTypes DEF Untrack
<1> QED BY <1>1, <1>4, <1>5, <1>6

LEMMA RunOnlyTypes ==
  ASSUME TypeOK, run' \in Running(Len(commits)),
         UNCHANGED <<commits, refs, head, mergeHead, mergeMsg, index, work, user>>,
         interrupted' \in BOOLEAN
  PROVE  TypeOK'
BY DEF TypeOK, Commits

LEMMA FileCommandTypes ==
  ASSUME TypeOK, NEW p \in Paths, NEW force \in BOOLEAN, Remove(p, force) \/ Restore(p)
  PROVE  TypeOK'
<1> DEFINE W == Writes(Len(commits))
<1>1. << <<"index">> >> \in Seq(W) /\ <<>> \in Seq(W)
  <2>1. <<"index">> \in W
    BY DEF Writes
  <2> HIDE DEF W
  <2> QED BY <2>1
<1>2. interrupted \in BOOLEAN
  BY DEF TypeOK
<1>3. CASE Remove(p, force)
  <2> DEFINE rm == AtOrBelow(p) \cap Tracked(index)
  <2>1. rm \in SUBSET Paths /\ NoFiles \in Files /\ "rm" \in StepCommands
    BY IndexTypes DEF Tracked, NoFiles, StepCommands
  <2>2. run' = Start("rm", force, TRUE, rm, NoFiles, << <<"index">> >>)
        /\ UNCHANGED <<commits, refs, head, mergeHead, mergeMsg, index, work, user, interrupted>>
    BY <1>3 DEF Remove, repoVars
  <2> HIDE DEF rm
  <2>3. run' \in Running(Len(commits))
    BY <1>1, <2>1, <2>2, StartTypes
  <2> QED BY <1>2, <2>2, <2>3, RunOnlyTypes
<1>4. CASE Restore(p)
  <2> DEFINE put == [q \in Paths |-> IF q \in AtOrBelow(p) THEN HeadTree[q] ELSE None]
  <2>1. put \in Files /\ "restore" \in StepCommands /\ {} \in SUBSET Paths
    BY HeadTypes DEF Files, StepCommands
  <2>2. run' = Start("restore", TRUE, TRUE, {}, put, <<>>)
        /\ UNCHANGED <<commits, refs, head, mergeHead, mergeMsg, index, work, user, interrupted>>
    BY <1>4 DEF Restore, repoVars
  <2> HIDE DEF put
  <2>3. run' \in Running(Len(commits))
    BY <1>1, <2>1, <2>2, StartTypes
  <2> QED BY <1>2, <2>2, <2>3, RunOnlyTypes
<1> QED BY <1>3, <1>4

LEMMA CommitTypes ==
  ASSUME TypeOK, Commit
  PROVE  TypeOK'
<1> DEFINE parents == IF HeadCommit = NoCommit THEN <<>> ELSE <<HeadCommit>>
<1>1. parents \in Seq(Commits)
  BY HeadTypes
<1>2. WriteCommit(parents)
  BY DEF Commit
<1> HIDE DEF parents
<1>3. /\ commits' \in Seq(CommitObjects) /\ Older(commits')
      /\ Len(commits') = Len(commits) + 1
      /\ refs' \in Tips(Len(commits')) /\ head' \in Heads(Len(commits'))
  BY <1>1, <1>2, WriteCommitTypes
<1>4. UNCHANGED <<index, work, mergeHead, mergeMsg, run, interrupted, user>>
  BY DEF Commit
<1>5. Len(commits) \in Nat /\ Commits \subseteq Commits'
  BY <1>3, HeadTypes DEF Commits
<1>6. mergeHead' \in {NoMerge} \cup (Kinds \X Commits')
  BY <1>4, <1>5 DEF TypeOK
<1>7. run' \in Running(Len(commits'))
  BY <1>3, <1>4, <1>5, WritesGrow DEF TypeOK, Running
<1> QED BY <1>3, <1>4, <1>6, <1>7 DEF TypeOK

LEMMA ResetAddTypes ==
  ASSUME TypeOK, NEW target \in Targets, ResetAdd(target)
  PROVE  TypeOK'
<1>1. target \in Heads(Len(commits)) /\ Resolve(target) \in Commits /\ Len(commits) \in Nat
  BY HeadTypes
<1>2. refs' \in Tips(Len(commits)) /\ head' \in Heads(Len(commits))
  <2>1. CASE target[1] = "ref"
    BY <1>1, <2>1 DEF ResetAdd, TypeOK
  <2>2. CASE target[1] # "ref"
    <3>1. UpdateHead(target[2]) /\ target[2] \in 1..Len(commits)
      BY <1>1, <2>2 DEF ResetAdd, Resolve, Commits
    <3> QED BY <1>1, <3>1, UpdateHeadTypes
  <2> QED BY <2>1, <2>2
<1>3. UNCHANGED <<commits, mergeHead, mergeMsg, index, work, run, interrupted, user>>
  BY DEF ResetAdd
<1> QED BY <1>2, <1>3 DEF TypeOK, Commits

LEMMA MoveTypes ==
  ASSUME TypeOK, NEW target \in Targets, NEW force \in BOOLEAN,
         Switch(target, force) \/ Reset(target, force) \/ ResetDir(target, force)
  PROVE  TypeOK'
<1> DEFINE W == Writes(Len(commits))
<1>1. target \in Heads(Len(commits)) /\ Resolve(target) \in Commits
  BY HeadTypes
<1>2. <<"head", target>> \in W /\ <<"tip", Resolve(target)>> \in W
  BY <1>1 DEF Writes, Commits
<1>3. {"switch", "reset", "reset-dir"} \subseteq StepCommands
  BY DEF StepCommands
<1>4. run' \in Running(Len(commits))
  <2>1. CASE Switch(target, force)
    BY <1>1, <1>2, <1>3, <2>1, SwitchDirTypes DEF Switch
  <2>2. CASE Reset(target, force)
    BY <1>1, <1>2, <1>3, <2>2, SwitchDirTypes DEF Reset
  <2>3. CASE ResetDir(target, force)
    BY <1>1, <1>2, <1>3, <2>3, SwitchDirTypes DEF ResetDir
  <2> QED BY <2>1, <2>2, <2>3
<1>5. UNCHANGED <<commits, refs, head, mergeHead, mergeMsg, index, work, user, interrupted>>
  BY DEF Switch, Reset, ResetDir, repoVars
<1> QED BY <1>4, <1>5, RunOnlyTypes DEF TypeOK

LEMMA MergeNewTypes ==
  ASSUME TypeOK, NEW kind \in Kinds, NEW target \in Targets, MergeNew(kind, target)
  PROVE  TypeOK'
<1>1. Resolve(target) \in Commits /\ HeadCommit # NoCommit
  BY HeadTypes DEF MergeNew
<1>2. PICK base \in Bases(kind, HeadCommit, Resolve(target)) :
        \E failed3 \in SUBSET ForDiff3(TreeOf(base), HeadTree, TreeOf(Resolve(target))) :
          StartMerge(kind, Resolve(target), base, failed3)
  BY DEF MergeNew
<1>3. base \in Commits
  BY <1>1, <1>2, BasesTypes
<1>4. run' \in Running(Len(commits))
  BY <1>1, <1>2, <1>3, StartMergeTypes
<1>5. UNCHANGED <<commits, refs, head, mergeHead, mergeMsg, index, work, user, interrupted>>
  BY DEF MergeNew, repoVars
<1> QED BY <1>4, <1>5, RunOnlyTypes DEF TypeOK

LEMMA MergeIntoEmptyTypes ==
  ASSUME TypeOK, NEW kind \in Kinds, NEW target \in Targets, MergeIntoEmpty(kind, target)
  PROVE  TypeOK'
<1> DEFINE source == Resolve(target)
           put == Additions(EmptyTree, TreeOf(source))
           files == WithOurSides({}, put)
<1>1. source \in Commits /\ Len(commits) \in Nat /\ TreeOf(source) \in Files
  BY HeadTypes
<1>2. refs' \in Tips(Len(commits)) /\ head' \in Heads(Len(commits))
  BY <1>1, UpdateHeadTypes DEF MergeIntoEmpty, Commits
<1>3. put \in Files
  BY <1>1 DEF Additions, Files
<1>4. files \in Files
  BY <1>3, WithOurSidesTypes
<1>5. run' = Start(kind, TRUE, TRUE, {}, files, <<>>)
  BY DEF MergeIntoEmpty
<1>6. kind \in StepCommands /\ {} \in SUBSET Paths
  BY DEF StepCommands
<1>7. <<>> \in Seq(Writes(Len(commits)))
  OBVIOUS
<1> HIDE DEF files
<1>8. run' \in Running(Len(commits))
  BY <1>4, <1>5, <1>6, <1>7, StartTypes
<1>9. UNCHANGED <<commits, mergeHead, mergeMsg, index, work, interrupted, user>>
  BY DEF MergeIntoEmpty
<1> QED BY <1>2, <1>8, <1>9 DEF TypeOK, Commits

LEMMA MergeContTypes ==
  ASSUME TypeOK, NEW kind \in Kinds, MergeCont(kind)
  PROVE  TypeOK'
<1> DEFINE W == Writes(Len(commits))
           parents == IF kind = "merge" THEN <<HeadCommit, mergeHead[2]>> ELSE <<HeadCommit>>
           post == << <<"clear">>, <<"commit", parents>> >>
<1>1. HeadCommit \in Commits
  BY HeadTypes DEF MergeCont
<1>2. mergeHead[2] \in Commits
  <2>1. mergeHead # NoMerge
    BY DEF MergeCont, NoMerge, Kinds
  <2> QED BY <2>1 DEF TypeOK
<1>3. parents \in {<<c>> : c \in Commits} \cup (Commits \X Commits)
  BY <1>1, <1>2
<1>4. post \in Seq(W)
  <2>1. <<"clear">> \in W /\ <<"commit", parents>> \in W
    BY <1>3 DEF Writes, Commits
  <2> HIDE DEF W, parents
  <2> QED BY <2>1
<1>5. run' = Start("continue", TRUE, TRUE, {}, NoFiles, post)
  BY DEF MergeCont
<1>6. "continue" \in StepCommands /\ {} \in SUBSET Paths /\ NoFiles \in Files
  BY IndexTypes DEF StepCommands, NoFiles
<1> HIDE DEF post
<1>7. run' \in Running(Len(commits))
  BY <1>4, <1>5, <1>6, StartTypes
<1>8. UNCHANGED <<commits, refs, head, mergeHead, mergeMsg, index, work, user, interrupted>>
  BY DEF MergeCont, repoVars
<1> QED BY <1>7, <1>8, RunOnlyTypes DEF TypeOK

LEMMA MergeAbortTypes ==
  ASSUME TypeOK, MergeAbort
  PROVE  TypeOK'
<1>1. HeadCommit \in Commits
  BY HeadTypes DEF MergeAbort
<1>2. <<"tip", HeadCommit>> \in Writes(Len(commits)) /\ "abort" \in StepCommands
  BY <1>1 DEF Writes, Commits, StepCommands
<1>3. run' \in Running(Len(commits))
  BY <1>1, <1>2, SwitchDirTypes DEF MergeAbort
<1>4. mergeHead' = NoMerge /\ mergeMsg' = FALSE
      /\ UNCHANGED <<commits, refs, head, index, work, interrupted, user>>
  BY DEF MergeAbort
<1> QED BY <1>3, <1>4 DEF TypeOK, Commits

(* What a written file does to the work dir. *)
LEMMA PutFileWork ==
  ASSUME TypeOK, NEW p \in Paths, PutFile(p)
  PROVE  /\ work' \in Files
         /\ run.put[p] \in Contents
         /\ \/ work' = work
            \/ \E q \in Paths, v \in Contents :
                 ~FileAbove(work, q) /\ ~DirAt(work, q) /\ work' = [work EXCEPT ![q] = v]
         /\ \A q \in Paths : work[q] # None => work'[q] # None
         /\ run.touch => work'[p] # None
         /\ ~run.touch => work' = work
         /\ run.touch /\ ~Follows(p)
            => work' = [work EXCEPT ![p] = Overwritten(work[p], run.put[p])]
         /\ Follows(p) => \A q \in Paths :
              \/ work'[q] = work[q]
              \/ ~IsLink(work[q]) /\ TextOf(work'[q]) = run.put[p].text
<1>1. run \in Running(Len(commits)) /\ work \in Files /\ run.put \in Files
  BY DEF TypeOK, Running
<1>2. run.put[p] \in Contents /\ \A q \in Paths : work[q] \in Values
  BY <1>1 DEF PutFile, Files, Values
<1>3. \A q \in Paths : Overwritten(work[q], run.put[p]) \in Contents
                       /\ TextOf(Overwritten(work[q], run.put[p])) = run.put[p].text
  BY <1>2, FileFacts
<1>4. None \notin Contents
  BY WorkTreeAssumption
<1>5. CASE ~run.touch
  BY <1>1, <1>2, <1>5 DEF PutFile, Follows
<1>6. CASE run.touch /\ ~Follows(p)
  <2>1. /\ work' = [work EXCEPT ![p] = Overwritten(work[p], run.put[p])]
        /\ ~FileAbove(work, p) /\ ~DirAt(work, p)
    BY <1>6 DEF PutFile, CanPut
  <2>2. work' \in Files
    BY <1>1, <1>3, <2>1 DEF Files
  <2>3. work'[p] # None /\ \A q \in Paths : work[q] # None => work'[q] # None
    BY <1>1, <1>3, <1>4, <2>1 DEF Files
  <2> QED BY <1>2, <1>3, <1>6, <2>1, <2>2, <2>3
<1>7. CASE Follows(p)
  <2>1. run.touch /\ WriteThrough(run.put[p]) /\ work[p] # None
    BY <1>7 DEF PutFile, Follows, IsLink
  <2>2. CASE UNCHANGED work
    BY <1>1, <1>2, <1>7, <2>1, <2>2
  <2>3. CASE ~UNCHANGED work
    <3>1. PICK r \in Paths : /\ ~FileAbove(work, r) /\ ~DirAt(work, r) /\ ~IsLink(work[r])
                             /\ work' = [work EXCEPT ![r] = Overwritten(work[r], run.put[p])]
      BY <2>1, <2>3 DEF WriteThrough
    <3>2. work' \in Files
      BY <1>1, <1>3, <3>1 DEF Files
    <3>3. \A q \in Paths : \/ work'[q] = work[q]
                           \/ ~IsLink(work[q]) /\ TextOf(work'[q]) = run.put[p].text
      BY <1>1, <1>3, <3>1 DEF Files
    <3>4. \A q \in Paths : work[q] # None => work'[q] # None
      BY <1>1, <1>3, <1>4, <3>1 DEF Files
    <3> QED BY <1>2, <1>3, <1>7, <2>1, <3>1, <3>2, <3>3, <3>4
  <2> QED BY <2>2, <2>3
<1> QED BY <1>5, <1>6, <1>7

LEMMA FileStepTypes ==
  ASSUME TypeOK, NEW p \in Paths, RemoveFile(p) \/ PutFile(p) \/ PutFails(p)
  PROVE  TypeOK'
<1>1. run \in Running(Len(commits)) /\ work \in Files /\ interrupted \in BOOLEAN
  BY DEF TypeOK
<1>2. CASE RemoveFile(p)
  <2>1. work' \in Files
    BY <1>1, <1>2 DEF RemoveFile, Without, Files
  <2>2. RemovePath(run.idx, p) \in Index
    BY <1>1, IndexTypes DEF Running
  <2>3. run' \in Running(Len(commits))
    BY <1>1, <1>2, <2>2 DEF RemoveFile, Running
  <2>4. UNCHANGED <<commits, refs, head, mergeHead, mergeMsg, index, user, interrupted>>
    BY <1>2 DEF RemoveFile, repoVars
  <2> QED BY <2>1, <2>3, <2>4 DEF TypeOK, Commits
<1>3. CASE PutFile(p)
  <2>1. run.put \in Files /\ run.put[p] \in Values
    BY <1>1 DEF Running, Files, Values
  <2>2. work' \in Files
    BY <1>3, PutFileWork
  <2>3. AddPath(run.idx, work', p) \in Index
    BY <1>1, <2>2, IndexTypes DEF Running
  <2>4. [run.put EXCEPT ![p] = None] \in Files
    BY <2>1 DEF Files
  <2>5. run' = [run EXCEPT !.put[p] = None, !.idx = AddPath(run.idx, work', p)]
    BY <1>3 DEF PutFile
  <2>6. run' \in Running(Len(commits))
    BY <1>1, <2>3, <2>4, <2>5 DEF Running
  <2>7. UNCHANGED <<commits, refs, head, mergeHead, mergeMsg, index, user, interrupted>>
    BY <1>3 DEF PutFile, repoVars
  <2> QED BY <2>2, <2>6, <2>7 DEF TypeOK, Commits
<1>4. CASE PutFails(p)
  <2>1. Idle \in Running(Len(commits))
    BY IdleTypes
  <2>2. UNCHANGED <<commits, refs, head, mergeHead, mergeMsg, index, work, user>>
        /\ interrupted' \in BOOLEAN /\ run' = Idle
    BY <1>1, <1>4 DEF PutFails, repoVars
  <2> QED BY <2>1, <2>2, RunOnlyTypes
<1> QED BY <1>2, <1>3, <1>4

LEMMA WriteStepTypes ==
  ASSUME TypeOK,
         WriteIndex \/ ReplaceHead \/ MoveTip \/ RemoveMergeState \/ RecordMergeHead
           \/ RecordMergeMsg
  PROVE  TypeOK'
<1> DEFINE W == Writes(Len(commits))
           w == run.post[1]
<1>1. run \in Running(Len(commits)) /\ run.post \in Seq(W) /\ Len(commits) \in Nat
  BY HeadTypes DEF TypeOK, Running
<1>2. run.post # <<>>
  BY DEF WriteIndex, ReplaceHead, MoveTip, RemoveMergeState, RecordMergeHead,
         RecordMergeMsg, Next1
<1>3. w \in W /\ Tail(run.post) \in Seq(W)
  <2> HIDE DEF W
  <2> QED BY <1>1, <1>2
<1>4. Done1 => run' \in Running(Len(commits))
  BY <1>1, <1>3 DEF Done1, Running
<1>5. CASE WriteIndex
  <2>1. index' \in Index
    BY <1>1, <1>5 DEF WriteIndex, Running, Index
  <2> QED BY <1>4, <1>5, <2>1 DEF WriteIndex, TypeOK, repoVars, Commits
<1>6. CASE ReplaceHead
  <2>1. head' = w[2] /\ w[1] = "head"
    BY <1>6 DEF ReplaceHead, Next1
  <2>2. head' \in Heads(Len(commits))
    BY <1>1, <1>3, <2>1, WriteParts
  <2> QED BY <1>4, <1>6, <2>2 DEF ReplaceHead, TypeOK, Commits
<1>7. CASE MoveTip
  <2>1. UpdateHead(w[2]) /\ w[1] = "tip"
    BY <1>7 DEF MoveTip, Next1
  <2>2. w[2] \in 1..Len(commits)
    BY <1>1, <1>3, <2>1, WriteParts
  <2>3. refs' \in Tips(Len(commits)) /\ head' \in Heads(Len(commits))
    BY <1>1, <2>1, <2>2, UpdateHeadTypes
  <2> QED BY <1>4, <1>7, <2>3 DEF MoveTip, TypeOK, Commits
<1>8. CASE RemoveMergeState
  BY <1>4, <1>8 DEF RemoveMergeState, TypeOK, Commits
<1>9. CASE RecordMergeHead
  <2>1. mergeHead' = w[2] /\ w[1] = "record"
    BY <1>9 DEF RecordMergeHead, Next1
  <2>2. mergeHead' \in Kinds \X (1..Len(commits))
    BY <1>1, <1>3, <2>1, WriteParts
  <2> QED BY <1>4, <1>9, <2>2 DEF RecordMergeHead, TypeOK, Commits
<1>10. CASE RecordMergeMsg
  BY <1>4, <1>10 DEF RecordMergeMsg, TypeOK, Commits
<1> QED BY <1>5, <1>6, <1>7, <1>8, <1>9, <1>10

LEMMA CommitMergeTypes ==
  ASSUME TypeOK, CommitMerge
  PROVE  TypeOK'
<1> DEFINE W == Writes(Len(commits))
           w == run.post[1]
<1>1. run \in Running(Len(commits)) /\ run.post \in Seq(W) /\ Len(commits) \in Nat
  BY HeadTypes DEF TypeOK, Running
<1>2. run.post # <<>> /\ w[1] = "commit" /\ WriteCommit(w[2])
  BY DEF CommitMerge, Next1
<1>3. w \in W /\ Tail(run.post) \in Seq(W)
  <2> HIDE DEF W
  <2> QED BY <1>1, <1>2
<1>4. w[2] \in {<<c>> : c \in 1..Len(commits)} \cup ((1..Len(commits)) \X (1..Len(commits)))
  BY <1>1, <1>2, <1>3, WriteParts
<1>5. w[2] \in Seq(Commits)
  <2>1. CASE w[2] \in {<<c>> : c \in 1..Len(commits)}
    <3>1. PICK c \in 1..Len(commits) : w[2] = <<c>>
      BY <2>1
    <3> QED BY <3>1 DEF Commits
  <2>2. CASE w[2] \in (1..Len(commits)) \X (1..Len(commits))
    <3>1. PICK c \in 1..Len(commits), d \in 1..Len(commits) : w[2] = <<c, d>>
      BY <2>2
    <3> QED BY <3>1 DEF Commits
  <2> QED BY <1>4, <2>1, <2>2
<1> HIDE DEF w
<1>6. /\ commits' \in Seq(CommitObjects) /\ Older(commits')
      /\ Len(commits') = Len(commits) + 1
      /\ refs' \in Tips(Len(commits')) /\ head' \in Heads(Len(commits'))
  BY <1>2, <1>5, WriteCommitTypes
<1>7. UNCHANGED <<index, work, mergeHead, mergeMsg, interrupted, user>>
      /\ run' = [run EXCEPT !.post = Tail(run.post)]
  BY DEF CommitMerge, Done1
<1>8. Commits \subseteq Commits'
  BY <1>1, <1>6 DEF Commits
<1>9. mergeHead' \in {NoMerge} \cup (Kinds \X Commits')
  BY <1>7, <1>8 DEF TypeOK
<1>10. Tail(run.post) \in Seq(Writes(Len(commits')))
  BY <1>1, <1>3, <1>6, WritesGrow
<1>11. run' \in Running(Len(commits'))
  BY <1>1, <1>7, <1>10 DEF Running
<1> QED BY <1>6, <1>7, <1>9, <1>11 DEF TypeOK

LEMMA EndTypes ==
  ASSUME TypeOK, CommitFails \/ Return \/ Crash
  PROVE  TypeOK'
<1>1. Idle \in Running(Len(commits)) /\ interrupted \in BOOLEAN
  BY IdleTypes DEF TypeOK
<1>2. UNCHANGED <<commits, refs, head, mergeHead, mergeMsg, index, work, user>>
      /\ interrupted' \in BOOLEAN /\ run' = Idle
  BY <1>1 DEF CommitFails, Return, Crash, repoVars
<1> QED BY <1>1, <1>2, RunOnlyTypes

LEMMA TypeStep ==
  ASSUME TypeOK, [Next]_vars
  PROVE  TypeOK'
<1>1. CASE UNCHANGED vars
  BY <1>1 DEF vars, repoVars, TypeOK, Commits
<1>2. CASE Step
  BY <1>2, FileStepTypes, WriteStepTypes, CommitMergeTypes, EndTypes DEF Step
<1>3. CASE Next /\ ~Step
  BY <1>3, PlainTypes, FileCommandTypes, CommitTypes, ResetAddTypes, MoveTypes,
     MergeNewTypes, MergeIntoEmptyTypes, MergeContTypes, MergeAbortTypes, EndTypes DEF Next
<1> QED BY <1>1, <1>2, <1>3
-----------------------------------------------------------------------------
(* TypeOK is an invariant: commits only point to older ones, HEAD and the  *)
(* branches to commits that exist, whatever is killed or fails midway.     *)
THEOREM TypeCorrect == Spec => []TypeOK
<1>1. Init => TypeOK
  <2> SUFFICES ASSUME Init PROVE TypeOK
    OBVIOUS
  <2>1. /\ commits \in Seq(CommitObjects) /\ Older(commits)
        /\ refs \in Tips(Len(commits))
        /\ head \in Heads(Len(commits))
    BY StartsAssumption DEF Init
  <2>2. HeadTree \in Files
    <3>1. Len(commits) \in Nat /\ HeadCommit \in Commits \cup {NoCommit}
      BY <2>1 DEF HeadCommit, Commits, Tips, Heads
    <3>2. HeadCommit # NoCommit => commits[HeadCommit] \in CommitObjects
      BY <2>1, <3>1 DEF Commits
    <3> QED BY <3>2, IndexTypes DEF HeadTree, TreeOf, CommitObjects, Files
  <2>3. index \in Index /\ work \in Files
    BY <2>2, IndexTypes DEF Init
  <2>4. Idle \in Running(Len(commits))
    BY IdleTypes
  <2>5. user \in Users
    BY StartsAssumption DEF Init
  <2> QED BY <2>1, <2>3, <2>4, <2>5 DEF Init, TypeOK
<1>2. TypeOK /\ [Next]_vars => TypeOK'
  BY TypeStep
<1> QED BY <1>1, <1>2, PTL DEF Spec
-----------------------------------------------------------------------------
(* The inductive invariant behind UnforcedKeepsWork: from its checks to    *)
(* its last file, an unforced command only has files ahead of it that are  *)
(* staged as they are, or that it wrote itself through a link.  It holds   *)
(* because nothing but the command itself changes the work dir while it    *)
(* runs, because the index on disk is replaced only when no file is left,  *)
(* and because all removals come before the first file that is written.    *)
Ahead(p) == p \in run.rm \/ run.put[p] # None

Safe(p) ==
  work[p] # None => work[p] = index[p][0] \/ (run.cmd = "rm" /\ p \in Conflicted(index))

OldTree == TreeOf(last.old)
NewTree == TreeOf(last.new)

Passed(p) ==
  \E q \in LinksInTheWay(work, OldTree, NewTree) : TextOf(work[p]) = NewTree[q].text

NoLossAhead ==
  run.cmd \in {"switch", "reset-dir", "rm"} /\ ~run.force
  => \A p \in Paths :
       /\ Ahead(p) => Safe(p) \/ (run.rm = {} /\ Passed(p))
       /\ run.put[p] # None => p \in Changed(OldTree, NewTree) /\ run.put[p] = NewTree[p]

(* The conflict check of migrate covers every file of the tree diff. *)
LEMMA SwitchIsSafe ==
  ASSUME TypeOK, NEW cmd, NEW touch, NEW headWrite, NEW target, NEW force \in BOOLEAN,
         force \/ cmd # "abort", SwitchDir(cmd, touch, headWrite, target, force),
         UNCHANGED <<commits, index, work>>
  PROVE  NoLossAhead'
<1> DEFINE old == HeadTree
           new == TreeOf(target)
<1>1. CASE force
  <2>1. run'.force = TRUE
    BY <1>1 DEF SwitchDir, Start, Idle
  <2> QED BY <2>1 DEF NoLossAhead
<1>2. CASE ~force
  <2>1. /\ run'.rm = Removals(old, new)
        /\ run'.put = Additions(old, new)
        /\ MayMigrate(old, new)
    BY <1>2 DEF SwitchDir, Start, Idle
  <2>2. ASSUME NEW p \in Paths, Ahead(p)', work[p] # None
        PROVE  work[p] = index[p][0]
    <3>1. p \in Changed(old, new)
      BY <2>1, <2>2 DEF Ahead, Removals, Additions, Changed
    <3>2. ~Obstructed(old, new, p)
      BY <2>1, <3>1 DEF MayMigrate
    <3> QED BY <2>2, <3>2 DEF Obstructed
  <2>3. last'.old = HeadCommit /\ last'.new = target
    BY <1>2 DEF SwitchDir, Note
  <2>4. OldTree' = old /\ NewTree' = new
    BY <2>3 DEF OldTree, NewTree, TreeOf, HeadTree
  <2>5. ASSUME NEW p \in Paths, run'.put[p] # None
        PROVE  p \in Changed(old, new) /\ run'.put[p] = new[p]
    BY <2>1, <2>5 DEF Additions
  <2>6. \A p \in Paths : run'.put[p] # None
          => p \in Changed(OldTree, NewTree)' /\ run'.put[p] = NewTree'[p]
    BY <2>4, <2>5 DEF Changed
  <2>7. \A p \in Paths : Ahead(p)' => Safe(p)'
    BY <2>2 DEF Safe
  <2> QED BY <2>6, <2>7 DEF NoLossAhead
<1> QED BY <1>1, <1>2

(* The safety check of removePaths covers every tracked file, except that  *)
(* it skips those that have no entry in stage 0.                           *)
LEMMA RemoveIsSafe ==
  ASSUME TypeOK, NEW p \in Paths, NEW force \in BOOLEAN, Remove(p, force)
  PROVE  NoLossAhead'
<1>1. UNCHANGED <<index, work>>
  BY DEF Remove
<1>2. CASE force
  <2>1. run'.force = TRUE
    BY <1>2 DEF Remove, Start, Idle
  <2> QED BY <2>1 DEF NoLossAhead
<1>3. CASE ~force
  <2>1. /\ run'.rm = AtOrBelow(p) \cap Tracked(index)
        /\ run'.put = NoFiles /\ run'.cmd = "rm"
        /\ \A q \in Checked(p) : ~DiffersFromWorkDir(q)
    BY <1>3 DEF Remove, Start, Idle
  <2>2. ASSUME NEW q \in Paths, Ahead(q)', work[q] # None, q \notin Conflicted(index)
        PROVE  work[q] = index[q][0]
    <3>1. q \in AtOrBelow(p) \cap Tracked(index)
      BY <2>1, <2>2 DEF Ahead, NoFiles, EmptyTree
    <3>2. index[q][0] # None
      BY <2>2, <3>1 DEF Conflicted
    <3>3. Exists(work, q)
      BY <2>2 DEF Exists, FilesAt, AtOrBelow
    <3> QED BY <2>1, <3>1, <3>2, <3>3 DEF Checked, DiffersFromWorkDir
  <2>3. \A q \in Paths : Ahead(q)' => Safe(q)'
    BY <1>1, <2>1, <2>2 DEF Safe, Conflicted, Tracked
  <2>4. \A q \in Paths : run'.put[q] = None
    BY <2>1 DEF NoFiles, EmptyTree
  <2> QED BY <2>3, <2>4 DEF NoLossAhead
<1> QED BY <1>2, <1>3

(* A step on one file leaves the others, and the index, as they are, but   *)
(* for what a link leads to; and the link stays.                           *)
LEMMA LinksStay ==
  ASSUME TypeOK, NEW p \in Paths, PutFile(p),
         p \in Changed(OldTree, NewTree), run.put[p] = NewTree[p]
  PROVE  /\ OldTree' = OldTree /\ NewTree' = NewTree
         /\ LinksInTheWay(work, OldTree, NewTree) \subseteq LinksInTheWay(work', OldTree, NewTree)
         /\ Follows(p) => p \in LinksInTheWay(work, OldTree, NewTree)
<1>1. OldTree' = OldTree /\ NewTree' = NewTree
  BY DEF PutFile, repoVars, OldTree, NewTree, TreeOf
<1>2. run.put[p] # None
  BY DEF PutFile
<1>3. ASSUME NEW q \in LinksInTheWay(work, OldTree, NewTree)
      PROVE  work'[q] = work[q]
  <2>1. q \in Paths /\ IsLink(work[q]) /\ ~IsLink(NewTree[q])
    BY DEF LinksInTheWay, Changed
  <2>2. CASE ~run.touch
    BY <2>2, PutFileWork
  <2>3. CASE run.touch /\ ~Follows(p)
    <3>1. q # p
      BY <2>1, <2>3 DEF Follows
    <3>2. work \in Files
      BY DEF TypeOK
    <3> QED BY <2>1, <2>3, <3>1, <3>2, PutFileWork DEF Files
  <2>4. CASE Follows(p)
    BY <2>1, <2>4, PutFileWork
  <2> QED BY <2>2, <2>3, <2>4
<1>4. Follows(p) => p \in LinksInTheWay(work, OldTree, NewTree)
  BY <1>2 DEF Follows, LinksInTheWay
<1> QED BY <1>1, <1>3, <1>4 DEF LinksInTheWay

LEMMA FileStepIsSafe ==
  ASSUME TypeOK, NoLossAhead, NEW p \in Paths, RemoveFile(p) \/ PutFile(p)
  PROVE  NoLossAhead'
<1>1. run \in Running(Len(commits)) /\ work \in Files /\ run.put \in Files
  BY DEF TypeOK, Running
<1>2. CASE RemoveFile(p)
  <2>1. /\ run'.cmd = run.cmd /\ run'.force = run.force /\ run'.put = run.put
        /\ run'.rm \subseteq run.rm /\ UNCHANGED <<index, OldTree, NewTree>>
    BY <1>1, <1>2 DEF RemoveFile, Running, repoVars, OldTree, NewTree, TreeOf
  <2>2. \A q \in Paths : work'[q] # None => work'[q] = work[q]
    BY <1>1, <1>2 DEF RemoveFile, Without, Files
  <2>3. run.rm # {}
    BY <1>2 DEF RemoveFile
  <2>4. \A q \in Paths : Ahead(q)' => Ahead(q)
    BY <2>1 DEF Ahead
  <2>5. \A q \in Paths : Safe(q) => Safe(q)'
    BY <2>1, <2>2 DEF Safe, Conflicted, Tracked
  <2> QED BY <2>1, <2>3, <2>4, <2>5 DEF NoLossAhead, Changed
<1>3. CASE PutFile(p)
  <2> SUFFICES ASSUME run'.cmd \in {"switch", "reset-dir", "rm"}, ~run'.force, NEW q \in Paths
               PROVE  /\ Ahead(q)' => Safe(q)' \/ (run'.rm = {} /\ Passed(q)')
                      /\ run'.put[q] # None
                         => q \in Changed(OldTree, NewTree)' /\ run'.put[q] = NewTree'[q]
    BY DEF NoLossAhead
  <2>1. /\ run'.cmd = run.cmd /\ run'.force = run.force /\ run'.rm = {} /\ run.rm = {}
        /\ run'.put = [run.put EXCEPT ![p] = None] /\ UNCHANGED index
    BY <1>1, <1>3 DEF PutFile, Running
  <2>2. run.put[p] # None
    BY <1>3 DEF PutFile
  <2>3. \A r \in Paths : Ahead(r)' => r # p /\ Ahead(r)
    BY <1>1, <2>1 DEF Ahead, Files
  <2>4. p \in Changed(OldTree, NewTree) /\ run.put[p] = NewTree[p]
    BY <2>1, <2>2 DEF NoLossAhead
  <2>5. /\ OldTree' = OldTree /\ NewTree' = NewTree
        /\ LinksInTheWay(work, OldTree, NewTree)
             \subseteq LinksInTheWay(work', OldTree, NewTree)
        /\ Follows(p) => p \in LinksInTheWay(work, OldTree, NewTree)
    BY <1>3, <2>4, LinksStay
  <2>6. run'.put[q] # None => q \in Changed(OldTree, NewTree)' /\ run'.put[q] = NewTree'[q]
    BY <1>1, <2>1, <2>5 DEF NoLossAhead, Files, Changed
  <2>7. ASSUME Ahead(q)' PROVE Safe(q)' \/ Passed(q)'
    <3>1. q # p /\ (Safe(q) \/ Passed(q))
      BY <2>1, <2>3, <2>7 DEF NoLossAhead
    <3>2. CASE work'[q] = work[q]
      <4>1. Safe(q) => Safe(q)'
        BY <2>1, <3>2 DEF Safe, Conflicted, Tracked
      <4>2. Passed(q) => Passed(q)'
        BY <2>5, <3>2 DEF Passed
      <4> QED BY <3>1, <4>1, <4>2
    <3>3. CASE work'[q] # work[q]
      <4>1. Follows(p) /\ TextOf(work'[q]) = run.put[p].text
        BY <1>1, <1>3, <3>1, <3>3, PutFileWork DEF Files
      <4> QED BY <2>4, <2>5, <4>1 DEF Passed
    <3> QED BY <3>2, <3>3
  <2> QED BY <2>1, <2>6, <2>7
<1> QED BY <1>2, <1>3

LEMMA NoLossStep ==
  ASSUME TypeOK, NoLossAhead, [Next]_vars
  PROVE  NoLossAhead'
<1> USE DEF NoLossAhead
<1>1. ASSUME run' = Idle PROVE NoLossAhead'
  BY <1>1 DEF Idle
<1>2. ASSUME NEW cmd, NEW rm, NEW put, NEW post, NEW touch,
             run' = Start(cmd, TRUE, touch, rm, put, post)
      PROVE  NoLossAhead'
  BY <1>2 DEF Start, Idle
<1>3. CASE UNCHANGED vars
  BY <1>3 DEF vars, Ahead, Safe, Conflicted, Tracked, Passed, OldTree, NewTree, TreeOf
<1>4. CASE Step
  <2>1. CASE \E p \in Paths : RemoveFile(p) \/ PutFile(p)
    BY <2>1, FileStepIsSafe
  <2>2. CASE (\E p \in Paths : PutFails(p)) \/ CommitFails \/ Return
    BY <1>1, <2>2 DEF PutFails, CommitFails, Return
  <2>3. CASE WriteIndex \/ ReplaceHead \/ MoveTip \/ RemoveMergeState \/ RecordMergeHead
               \/ RecordMergeMsg \/ CommitMerge
    <3>1. ~Migrating /\ Done1
      BY <2>3 DEF WriteIndex, ReplaceHead, MoveTip, RemoveMergeState, RecordMergeHead,
                  RecordMergeMsg, CommitMerge, Next1
    <3>2. run'.rm = {} /\ run'.put = NoFiles
      BY <3>1 DEF Migrating, Done1, TypeOK, Running
    <3>3. \A p \in Paths : run'.put[p] = None /\ ~Ahead(p)'
      BY <3>2 DEF Ahead, NoFiles, EmptyTree
    <3> QED BY <3>3
  <2> QED BY <1>4, <2>1, <2>2, <2>3 DEF Step
<1>5. CASE Next /\ ~Step
  <2>1. ASSUME NEW p \in Paths, NEW v, Edit(p, v) PROVE NoLossAhead'
    BY <1>1, <2>1 DEF Edit, Ready
  <2>2. ASSUME NEW p \in Paths, NEW force \in BOOLEAN,
               Add(p) \/ Unadd(p) \/ Untrack(p, force) PROVE NoLossAhead'
    BY <1>1, <2>2 DEF Add, Unadd, Untrack, Ready, WriteIndexOnly
  <2>3. ASSUME NEW p \in Paths, Restore(p) PROVE NoLossAhead'
    BY <1>2, <2>3 DEF Restore
  <2>4. ASSUME Commit \/ \E target \in Targets : ResetAdd(target) PROVE NoLossAhead'
    BY <1>1, <2>4 DEF Commit, ResetAdd, Ready
  <2>5. ASSUME NEW target \in Targets, NEW force \in BOOLEAN,
               Switch(target, force) \/ Reset(target, force) \/ ResetDir(target, force)
        PROVE  NoLossAhead'
    BY <2>5, SwitchIsSafe DEF Switch, Reset, ResetDir, repoVars
  <2>6. ASSUME NEW target \in Targets, NEW kind \in Kinds, MergeNew(kind, target)
        PROVE  NoLossAhead'
    <3>1. run'.force = TRUE
      BY <2>6 DEF MergeNew, StartMerge, Start, Idle
    <3> QED BY <3>1
  <2>7. ASSUME NEW target \in Targets, NEW kind \in Kinds, MergeIntoEmpty(kind, target)
        PROVE  NoLossAhead'
    BY <1>2, <2>7 DEF MergeIntoEmpty
  <2>8. ASSUME NEW kind \in Kinds, MergeCont(kind) PROVE NoLossAhead'
    BY <1>2, <2>8 DEF MergeCont
  <2>9. CASE MergeAbort
    BY <2>9, SwitchIsSafe DEF MergeAbort
  <2>10. CASE Crash
    BY <1>1, <2>10 DEF Crash
  <2> QED BY <1>5, <2>1, <2>2, <2>3, <2>4, <2>5, <2>6, <2>7, <2>8, <2>9, <2>10, RemoveIsSafe DEF Next
<1> QED BY <1>3, <1>4, <1>5

(* UnforcedKeepsWork for every instance: whatever trees, files and         *)
(* commands there are, switch, reset-dir and rm without -f only overwrite  *)
(* or delete files whose content is staged, but for unmerged paths under   *)
(* rm, files in the place of a directory, and what links lead to.          *)
THEOREM UnforcedNeverLosesWork == Spec => UnforcedKeepsWork
<1> DEFINE Excused(p) ==
      \/ work[p] = index[p][0]
      \/ run.cmd = "rm" /\ p \in Conflicted(index)
      \/ \E q \in run.rm \ run'.rm : p \in Parent(q)
      \/ \E q \in LinksInTheWay(work, TreeOf(last.old), TreeOf(last.new)) :
           TreeOf(last.new)[q].text \in {TextOf(work[p]), TextOf(work'[p])}
    Keeps ==
      \A p \in Paths :
        /\ run.cmd \in {"switch", "reset-dir", "rm"} /\ ~run.force
        /\ work[p] # None /\ work'[p] # work[p]
        => Excused(p)
<1>1. Init => NoLossAhead
  BY DEF Init, NoLossAhead, Idle
<1>2. TypeOK /\ NoLossAhead /\ [Next]_vars => NoLossAhead'
  BY NoLossStep
<1>3. TypeOK /\ NoLossAhead /\ [Next]_vars => [Keeps]_vars
  <2> SUFFICES ASSUME TypeOK, NoLossAhead, Next, NEW p \in Paths,
                      run.cmd \in {"switch", "reset-dir", "rm"}, ~run.force,
                      work[p] # None, work'[p] # work[p]
               PROVE  Excused(p)
    BY Zenon DEF Keeps
  <2>1. run # Idle
    BY DEF Idle
  <2>2. PICK q \in Paths : RemoveFile(q) \/ PutFile(q)
    BY <2>1 DEF Next, Step, Edit, Add, Unadd, Untrack, Remove, Restore, Commit, ResetAdd,
       Switch, Reset, ResetDir, MergeNew, MergeIntoEmpty, MergeCont, MergeAbort, Ready,
       PutFails, WriteIndex, ReplaceHead, MoveTip, RemoveMergeState, RecordMergeHead,
       RecordMergeMsg, CommitMerge, CommitFails, Return, Crash
  <2>3. run \in Running(Len(commits)) /\ work \in Files /\ run.put \in Files
    BY DEF TypeOK, Running
  <2>4. Ahead(p) => Safe(p) \/ Passed(p)
    BY DEF NoLossAhead
  <2>5. Ahead(p) => Excused(p)
    BY <2>4 DEF Safe, Passed, OldTree, NewTree
  <2>6. CASE RemoveFile(q)
    <3>1. q \in run.rm \ run'.rm
      BY <2>3, <2>6 DEF RemoveFile, Running
    <3>2. p = q \/ p \in Parent(q)
      BY <2>3, <2>6 DEF RemoveFile, Without, Files
    <3> QED BY <2>5, <3>1, <3>2 DEF Ahead
  <2>7. CASE PutFile(q)
    <3>1. run.put[q] # None
      BY <2>7 DEF PutFile
    <3>2. q \in Changed(OldTree, NewTree) /\ run.put[q] = NewTree[q]
      BY <3>1 DEF NoLossAhead
    <3>3. CASE Follows(q)
      <4>1. TextOf(work'[p]) = NewTree[q].text
        BY <2>7, <3>2, <3>3, PutFileWork
      <4>2. q \in LinksInTheWay(work, OldTree, NewTree)
        BY <2>7, <3>2, <3>3, LinksStay
      <4> QED BY <4>1, <4>2 DEF OldTree, NewTree
    <3>4. CASE ~Follows(q)
      <4>1. p = q
        BY <2>3, <2>7, <3>4, PutFileWork DEF Files
      <4> QED BY <2>5, <3>1, <4>1 DEF Ahead
    <3> QED BY <3>3, <3>4
  <2> QED BY <2>2, <2>6, <2>7
<1> QED BY <1>1, <1>2, <1>3, TypeCorrect, PTL DEF Spec, UnforcedKeepsWork

-----------------------------------------------------------------------------
(* The index: merges on record, and what is staged. *)

(* Of two entries, one above the other, one is unmerged; in the stronger   *)
(* form it is the upper one.                                               *)
Nested(idx) ==
  \A p \in Tracked(idx) : \A q \in Above[p] \cap Tracked(idx) :
    idx[p][0] = None \/ idx[q][0] = None

FlatIndex(idx) ==
  \A p \in Tracked(idx) : \A q \in Above[p] \cap Tracked(idx) : idx[q][0] = None

(* A forced command that meets an unmerged entry has a side to take. *)
TwoSided(idx) == \A p \in Conflicted(idx) : OurSide(idx[p]) # None

ToDo == {p \in Paths : p \in run.rm \/ run.put[p] # None}
NewConflicts == {p \in Paths : run.conflicts[p] # NoEntry}

(* What every index looks like: the one on disk, and the one the running   *)
(* command holds and writes together with its conflicts.                   *)
IndexInv ==
  /\ \A c \in Commits : Flat(TreeOf(c))
  /\ Flat(work)
  /\ TwoSided(index) /\ TwoSided(run.idx)
  /\ \A p \in NewConflicts : run.conflicts[p][0] = None /\ OurSide(run.conflicts[p]) # None

(* What the running command will have left unmerged, and where that will   *)
(* be on record: by the kinds of the writes that follow.                   *)
Shape(post) == [i \in DOMAIN post |-> post[i][1]]

OnRecord == Conflicted(index) # {} => mergeHead # NoMerge
Resolved == Conflicted(run.idx) \subseteq ToDo

Pending ==
  LET shape == Shape(run.post)
  IN  \/ shape = <<>> /\ OnRecord
      \/ /\ shape = <<"index">>
         /\ NewConflicts = {}
         /\ Resolved \/ mergeHead # NoMerge
      \/ /\ shape \in {<<"head", "index">>, <<"tip", "index">>, <<"clear", "index">>,
                       <<"head", "clear", "index">>, <<"tip", "clear", "index">>,
                       <<"index", "tip">>, <<"index", "commit">>}
         /\ NewConflicts = {}
         /\ Resolved
      \/ shape \in {<<"index", "record", "msg">>, <<"record", "msg">>}
      \/ shape = <<"msg">> /\ mergeHead # NoMerge
      \/ shape \in {<<"tip">>, <<"commit">>} /\ OnRecord
      \/ shape = <<"clear", "commit">> /\ Conflicted(index) = {}

RecordInv ==
  ~interrupted =>
    /\ Pending
    /\ Migrating /\ run.cmd # "abort" => OnRecord

NestedInv == Nested(index) /\ Nested(run.idx)

(* With paths of at most two levels, whatever a merge leaves unmerged in a *)
(* directory it has put into the work dir, and so taken out of the index   *)
(* what was staged above.                                                  *)
FlatInv ==
  /\ FlatIndex(index) /\ FlatIndex(run.idx)
  /\ \A p \in NewConflicts : Above[p] # {} =>
       /\ run.touch
       /\ \/ run.put[p] # None
          \/ /\ run.rm = {} /\ work[p] # None
             /\ \A q \in Above[p] : run.idx[q][0] = None
-----------------------------------------------------------------------------
(* The entries: which are empty, unmerged, and what our side of them is. *)
LEMMA EntryFacts ==
  /\ NoEntry[0] = None
  /\ \A v \in Values : Staged(v)[0] = v /\ (Staged(v) = NoEntry <=> v = None)
  /\ \A b, t, s \in Values :
       /\ Unmerged(b, t, s)[0] = None
       /\ OurSide(Unmerged(b, t, s)) = IF t # None THEN t ELSE s
       /\ t # None \/ s # None => Unmerged(b, t, s) # NoEntry
<1>1. NoEntry[0] = None
  BY DEF NoEntry, Stages
<1>2. ASSUME NEW v \in Values
      PROVE  Staged(v)[0] = v /\ (Staged(v) = NoEntry <=> v = None)
  <2>1. Staged(v)[0] = v
    BY DEF Staged, Stages
  <2>2. v = None => Staged(v) = NoEntry
    BY DEF Staged, NoEntry
  <2> QED BY <1>1, <2>1, <2>2
<1>3. ASSUME NEW b \in Values, NEW t \in Values, NEW s \in Values
      PROVE  /\ Unmerged(b, t, s)[0] = None
             /\ OurSide(Unmerged(b, t, s)) = IF t # None THEN t ELSE s
             /\ t # None \/ s # None => Unmerged(b, t, s) # NoEntry
  <2>1. Unmerged(b, t, s)[0] = None /\ Unmerged(b, t, s)[2] = t /\ Unmerged(b, t, s)[3] = s
    BY DEF Unmerged, Stages
  <2>2. NoEntry[2] = None /\ NoEntry[3] = None
    BY DEF NoEntry, Stages
  <2> QED BY <2>1, <2>2 DEF OurSide
<1> QED BY <1>1, <1>2, <1>3

(* RemovePath takes entries out, and touches no other. *)
LEMMA RemovePathEffect ==
  ASSUME NEW idx \in Index, NEW p \in Paths
  PROVE  /\ \A q \in Paths : RemovePath(idx, p)[q] = IF q \in AtOrBelow(p) THEN NoEntry
                                                     ELSE idx[q]
         /\ Tracked(RemovePath(idx, p)) = Tracked(idx) \ AtOrBelow(p)
         /\ Conflicted(RemovePath(idx, p)) = Conflicted(idx) \ AtOrBelow(p)
<1>1. \A q \in Paths : RemovePath(idx, p)[q] = IF q \in AtOrBelow(p) THEN NoEntry ELSE idx[q]
  BY DEF RemovePath
<1>2. Tracked(RemovePath(idx, p)) = Tracked(idx) \ AtOrBelow(p)
  BY <1>1 DEF Tracked
<1> QED BY <1>1, <1>2 DEF Conflicted, Tracked

(* AddPath stages the files at p; every other entry stays or goes, and     *)
(* one that stays has no such file at, above or below it, or an entry that *)
(* goes above it.                                                          *)
LEMMA AddPathEffect ==
  ASSUME NEW idx \in Index, NEW files \in Files, NEW p \in Paths
  PROVE  LET added == FilesAt(files, p)
             new == AddPath(idx, files, p)
         IN  /\ \A q \in added : q \in Paths /\ new[q] = Staged(files[q]) /\ files[q] # None
             /\ \A q \in Paths \ added :
                  \/ new[q] = NoEntry
                  \/ /\ new[q] = idx[q] /\ Above[q] \cap added = {}
                     /\ \A f \in added : q \notin Above[f]
             /\ \A q \in Paths \ added, a \in Tracked(idx), f \in added :
                  a \in Above[f] /\ a \in Above[q] => new[q] = NoEntry
             /\ Conflicted(new) \subseteq Conflicted(idx) \ added
<1> DEFINE added == FilesAt(files, p)
           above == {q \in Tracked(idx) : \E f \in added : q \in Above[f]}
           gone == UNION {AtOrBelow(q) : q \in above \cup added}
           new == AddPath(idx, files, p)
<1>1. \A q \in Paths : new[q] = CASE q \in added -> Staged(files[q])
                                  [] q \in gone \ added -> NoEntry
                                  [] OTHER -> idx[q]
  BY DEF AddPath
<1>2. \A q \in added : q \in Paths /\ files[q] # None
  BY DEF FilesAt, AtOrBelow, Below
<1>3. \A q \in Paths \ added : q \in gone => new[q] = NoEntry
  <2> HIDE DEF added, gone, new
  <2> QED BY <1>1
<1>4. \A q \in Paths \ added : q \notin gone => new[q] = idx[q]
  <2> HIDE DEF added, gone, new
  <2> QED BY <1>1
<1>5. \A q \in added : new[q] = Staged(files[q])
  <2> HIDE DEF added, gone, new
  <2> QED BY <1>1, <1>2
<1>6. ASSUME NEW q \in Paths \ added
      PROVE  \/ new[q] = NoEntry
             \/ /\ new[q] = idx[q] /\ Above[q] \cap added = {}
                /\ \A f \in added : q \notin Above[f]
  <2>1. CASE q \in gone
    BY <1>3, <2>1
  <2>2. CASE q \notin gone
    <3>1. new[q] = idx[q]
      BY <1>4, <2>2
    <3>2. \A a \in above \cup added : q \notin AtOrBelow(a)
      BY <2>2
    <3>3. Above[q] \cap added = {}
      BY <3>2 DEF AtOrBelow, Below
    <3>4. ASSUME NEW f \in added, q \in Above[f] PROVE idx[q] = NoEntry
      <4>1. q \notin above
        BY <3>2 DEF AtOrBelow
      <4> QED BY <3>4, <4>1 DEF Tracked
    <3> QED BY <3>1, <3>3, <3>4
  <2> QED BY <2>1, <2>2
<1>7. ASSUME NEW q \in Paths \ added, NEW a \in Tracked(idx), NEW f \in added,
             a \in Above[f], a \in Above[q]
      PROVE  new[q] = NoEntry
  <2>1. a \in above
    BY <1>7
  <2>2. q \in AtOrBelow(a)
    BY <1>7 DEF AtOrBelow, Below
  <2>3. q \in gone
    BY <2>1, <2>2
  <2> QED BY <1>3, <2>3
<1>8. ASSUME NEW q \in Conflicted(new) PROVE q \in Conflicted(idx) \ added
  <2>1. q \in Paths /\ new[q] # NoEntry /\ new[q][0] = None
    BY DEF Conflicted, Tracked
  <2>2. q \notin added
    <3>1. \A r \in added : files[r] \in Values
      BY <1>2 DEF Files, Values
    <3> QED BY <1>2, <1>5, <2>1, <3>1, EntryFacts
  <2>3. new[q] = idx[q]
    BY <1>6, <2>1, <2>2
  <2> QED BY <2>1, <2>2, <2>3 DEF Conflicted, Tracked
<1> HIDE DEF added, new
<1>9. /\ \A q \in added : q \in Paths /\ new[q] = Staged(files[q]) /\ files[q] # None
      /\ \A q \in Paths \ added :
           \/ new[q] = NoEntry
           \/ /\ new[q] = idx[q] /\ Above[q] \cap added = {}
              /\ \A f \in added : q \notin Above[f]
      /\ \A q \in Paths \ added, a \in Tracked(idx), f \in added :
           a \in Above[f] /\ a \in Above[q] => new[q] = NoEntry
      /\ Conflicted(new) \subseteq Conflicted(idx) \ added
  BY <1>2, <1>5, <1>6, <1>7, <1>8
<1> QED BY <1>9 DEF added, new

(* restoreTreeEntryToIndex leaves no more paths unmerged. *)
LEMMA RestoreEffect ==
  ASSUME NEW idx \in Index, HeadTree \in Files, NEW p \in Paths
  PROVE  /\ \A q \in Paths : RestoreToIndex(idx, p)[q] =
              IF q \in AtOrBelow(p) /\ HeadTree[q] # None THEN Staged(HeadTree[q]) ELSE idx[q]
         /\ Conflicted(RestoreToIndex(idx, p)) \subseteq Conflicted(idx)
         /\ RestoreToIndex(idx, p) \in Index
<1>1. \A q \in Paths : RestoreToIndex(idx, p)[q] =
        IF q \in AtOrBelow(p) /\ HeadTree[q] # None THEN Staged(HeadTree[q]) ELSE idx[q]
  BY DEF RestoreToIndex
<1>2. \A q \in Paths : HeadTree[q] \in Values
  BY DEF Files, Values
<1>3. Conflicted(RestoreToIndex(idx, p)) \subseteq Conflicted(idx)
  BY <1>1, <1>2, EntryFacts DEF Conflicted, Tracked
<1>4. RestoreToIndex(idx, p) \in Index
  BY <1>2, EntryTypes DEF RestoreToIndex, Index
<1> QED BY <1>1, <1>3, <1>4

(* An entry that stays unmerged keeps our side. *)
LEMMA TwoSidedKept ==
  ASSUME NEW idx \in Index, TwoSided(idx), NEW p \in Paths
  PROVE  /\ TwoSided(RemovePath(idx, p))
         /\ \A files \in Files : TwoSided(AddPath(idx, files, p))
         /\ HeadTree \in Files => TwoSided(RestoreToIndex(idx, p))
<1>1. TwoSided(RemovePath(idx, p))
  <2>1. ASSUME NEW q \in Conflicted(RemovePath(idx, p))
        PROVE  q \in Conflicted(idx) /\ RemovePath(idx, p)[q] = idx[q]
    BY RemovePathEffect DEF Conflicted, Tracked
  <2> QED BY <2>1 DEF TwoSided
<1>2. ASSUME NEW files \in Files PROVE TwoSided(AddPath(idx, files, p))
  <2>1. ASSUME NEW q \in Conflicted(AddPath(idx, files, p))
        PROVE  q \in Conflicted(idx) /\ AddPath(idx, files, p)[q] = idx[q]
    <3>1. q \in Paths /\ q \in Conflicted(idx) \ FilesAt(files, p)
          /\ AddPath(idx, files, p)[q] # NoEntry
      BY AddPathEffect DEF Conflicted, Tracked
    <3> QED BY <3>1, AddPathEffect
  <2> QED BY <2>1 DEF TwoSided
<1>3. ASSUME HeadTree \in Files PROVE TwoSided(RestoreToIndex(idx, p))
  <2>1. \A q \in Paths : HeadTree[q] \in Values
    BY <1>3 DEF Files, Values
  <2>2. ASSUME NEW q \in Conflicted(RestoreToIndex(idx, p))
        PROVE  q \in Conflicted(idx) /\ RestoreToIndex(idx, p)[q] = idx[q]
    <3>1. q \in Paths /\ RestoreToIndex(idx, p)[q][0] = None /\ q \in Conflicted(idx)
      BY <1>3, RestoreEffect DEF Conflicted, Tracked
    <3> QED BY <1>3, <2>1, <3>1, RestoreEffect, EntryFacts
  <2> QED BY <2>2 DEF TwoSided
<1> QED BY <1>1, <1>2, <1>3

LEMMA PlainFacts ==
  ASSUME NEW tree \in Files
  PROVE  /\ Conflicted(Plain(tree)) = {} /\ TwoSided(Plain(tree))
         /\ Tracked(Plain(tree)) = {p \in Paths : tree[p] # None}
         /\ \A p \in Paths : Plain(tree)[p] = Staged(tree[p])
<1>1. \A p \in Paths : tree[p] \in Values /\ Plain(tree)[p] = Staged(tree[p])
  BY DEF Plain, Files, Values
<1>2. Tracked(Plain(tree)) = {p \in Paths : tree[p] # None}
  BY <1>1, EntryFacts DEF Tracked
<1>3. Conflicted(Plain(tree)) = {}
  BY <1>1, <1>2, EntryFacts DEF Conflicted
<1> QED BY <1>1, <1>2, <1>3 DEF TwoSided
-----------------------------------------------------------------------------
(* What a command starts with, and what is left when none runs. *)
LEMMA StartFacts ==
  ASSUME NEW cmd, NEW force, NEW touch, NEW rm, NEW put, NEW post,
         run' = Start(cmd, force, touch, rm, put, post)
  PROVE  /\ run'.cmd = cmd /\ run'.force = force /\ run'.touch = touch
         /\ run'.rm = rm /\ run'.put = put /\ run'.idx = index /\ run'.post = post
         /\ run'.conflicts = Plain(EmptyTree)
         /\ NewConflicts' = {}
<1>1. /\ run'.cmd = cmd /\ run'.force = force /\ run'.touch = touch
      /\ run'.rm = rm /\ run'.put = put /\ run'.idx = index /\ run'.post = post
      /\ run'.conflicts = Plain(EmptyTree)
  BY DEF Start, Idle
<1>2. NewConflicts' = {}
  BY <1>1, IndexTypes, PlainFacts DEF NewConflicts, EmptyTree, Tracked
<1> QED BY <1>1, <1>2

LEMMA IdleFacts ==
  /\ Idle.cmd = "none" /\ Idle.idx = Plain(EmptyTree) /\ Idle.post = <<>>
  /\ TwoSided(Plain(EmptyTree)) /\ Tracked(Plain(EmptyTree)) = {}
  /\ run = Idle => ~Migrating /\ NewConflicts = {} /\ ToDo = {}
  /\ run' = Idle => ~Migrating' /\ NewConflicts' = {} /\ ToDo' = {}
<1>1. Idle.rm = {} /\ Idle.put = NoFiles /\ Idle.conflicts = Plain(EmptyTree)
  BY DEF Idle
<1>2. TwoSided(Plain(EmptyTree)) /\ Tracked(Plain(EmptyTree)) = {}
  BY IndexTypes, PlainFacts DEF EmptyTree
<1>3. {p \in Paths : Plain(EmptyTree)[p] # NoEntry} = {}
  BY <1>2 DEF Tracked
<1> QED BY <1>1, <1>2, <1>3 DEF Idle, Migrating, NewConflicts, ToDo, NoFiles, EmptyTree

(* Nothing is left to do exactly when no file is. *)
LEMMA MigratingFacts ==
  ASSUME TypeOK
  PROVE  Migrating <=> ToDo # {}
<1>1. run.rm \subseteq Paths /\ run.put \in Files
  BY DEF TypeOK, Running
<1>2. run.put # NoFiles <=> \E p \in Paths : run.put[p] # None
  BY <1>1 DEF NoFiles, EmptyTree, Files
<1> QED BY <1>1, <1>2 DEF Migrating, ToDo

(* The conflicts of a merge: paths at least one side has a file at. *)
LEMMA MergeConflicts ==
  ASSUME TypeOK, NEW kind, NEW source \in Commits, NEW base \in Commits,
         NEW failed3 \in SUBSET ForDiff3(TreeOf(base), HeadTree, TreeOf(source)),
         StartMerge(kind, source, base, failed3)
  PROVE  /\ run'.idx = index
         /\ \A p \in NewConflicts' :
              run'.conflicts[p][0] = None /\ OurSide(run'.conflicts[p]) # None
<1> DEFINE b == TreeOf(base)
           t == HeadTree
           s == TreeOf(source)
           clash == Clash(b, t, s) \cup Clash(b, s, t)
           conflicts == failed3 \cup Disputes(b, t, s) \cup clash
           marks == [p \in Paths |-> IF p \in conflicts
                                     THEN Unmerged(b[p], t[p], s[p]) ELSE NoEntry]
<1>1. b \in Files /\ t \in Files /\ s \in Files
  BY HeadTypes
<1>2. run'.conflicts = marks /\ run'.idx = index
  BY Zenon DEF StartMerge, Start, Idle
<1> HIDE DEF b, t, s
<1>3. \A p \in Paths : b[p] \in Values /\ t[p] \in Values /\ s[p] \in Values
  BY <1>1 DEF Files, Values
<1>4. \A p \in conflicts : t[p] # None \/ s[p] # None
  BY DEF Clash, BothChanged, BothWrote, ForDiff3, Disputes, b, t, s
<1>5. \A p \in NewConflicts' : p \in Paths /\ p \in conflicts /\ marks[p] = Unmerged(b[p], t[p], s[p])
  BY <1>2 DEF NewConflicts
<1> QED BY <1>2, <1>3, <1>4, <1>5, EntryFacts
-----------------------------------------------------------------------------
(* IndexInv is inductive. *)
LEMMA CommitTrees ==
  ASSUME TypeOK, IndexInv, NEW parents, WriteCommit(parents)
  PROVE  \A c \in Commits' : Flat(TreeOf(c)')
<1> DEFINE new == [tree |-> TreeOfIndex(index), parents |-> parents]
<1>1. commits \in Seq(CommitObjects) /\ commits' = Append(commits, new)
  BY DEF TypeOK, WriteCommit
<1>2. Len(commits') = Len(commits) + 1 /\ Len(commits) \in Nat
  <2> HIDE DEF new
  <2> QED BY <1>1
<1>3. SUFFICES ASSUME NEW c \in Commits' PROVE Flat(TreeOf(c)')
  OBVIOUS
<1>4. CASE c \in Commits
  <2>1. commits'[c] = commits[c]
    <3> HIDE DEF new
    <3> QED BY <1>1, <1>2, <1>4 DEF Commits
  <2>2. TreeOf(c)' = TreeOf(c)
    BY <2>1 DEF TreeOf
  <2> QED BY <1>4, <2>2 DEF IndexInv
<1>5. CASE c \notin Commits
  <2>1. c = Len(commits) + 1
    BY <1>2, <1>5 DEF Commits
  <2>2. commits'[c] = new
    <3> HIDE DEF new
    <3> QED BY <1>1, <1>2, <2>1
  <2>3. TreeOf(c)' = TreeOfIndex(index)
    BY <1>2, <2>1, <2>2 DEF TreeOf, NoCommit
  <2>4. Flat(TreeOfIndex(index))
    <3>1. SUFFICES ASSUME NEW p \in Paths, NEW q \in Above[p], q \notin Tracked(index)
                   PROVE  TreeOfIndex(index)[q] = None
      BY DEF Flat, TreeOfIndex
    <3>2. q \in Paths
      BY WorkTreeAssumption
    <3>3. index[q] = NoEntry
      BY <3>1, <3>2 DEF Tracked
    <3> QED BY <3>2, <3>3, EntryFacts DEF TreeOfIndex
  <2> QED BY <2>3, <2>4
<1> QED BY <1>4, <1>5

LEMMA SameTrees ==
  ASSUME TypeOK, IndexInv, UNCHANGED commits
  PROVE  \A c \in Commits' : Flat(TreeOf(c)')
BY DEF IndexInv, TreeOf, Commits

LEMMA EndOfRunIndex ==
  ASSUME TypeOK, IndexInv, UNCHANGED <<commits, index, work>>, run' = Idle
  PROVE  IndexInv'
<1>1. NewConflicts' = {} /\ TwoSided(run'.idx)
  BY IdleFacts
<1> QED BY <1>1, SameTrees DEF IndexInv, TwoSided, Conflicted, Tracked

LEMMA StartIndex ==
  ASSUME TypeOK, IndexInv, UNCHANGED <<commits, index, work>>, run'.idx = index,
         \A p \in NewConflicts' :
           run'.conflicts[p][0] = None /\ OurSide(run'.conflicts[p]) # None
  PROVE  IndexInv'
BY SameTrees DEF IndexInv, TwoSided, Conflicted, Tracked

LEMMA NoRunIndex ==
  ASSUME TypeOK, IndexInv, UNCHANGED <<commits, run>>, Flat(work)', TwoSided(index)'
  PROVE  IndexInv'
<1>1. NewConflicts' = NewConflicts /\ TwoSided(run.idx)'
  BY DEF NewConflicts, IndexInv, TwoSided, Conflicted, Tracked
<1> QED BY <1>1, SameTrees DEF IndexInv

LEMMA UserStepIndex ==
  ASSUME TypeOK, IndexInv, NEW p \in Paths, NEW v \in Contents \cup {None}, NEW force \in BOOLEAN,
         Edit(p, v) \/ Add(p) \/ Unadd(p) \/ Untrack(p, force)
  PROVE  IndexInv'
<1>1. index \in Index /\ work \in Files /\ TwoSided(index) /\ Flat(work) /\ HeadTree \in Files
  BY HeadTypes DEF TypeOK, IndexInv
<1>2. CASE Edit(p, v)
  <2>1. work' = [work EXCEPT ![p] = v] /\ UNCHANGED <<commits, index, run>>
        /\ (v # None => ~FileAbove(work, p) /\ ~DirAt(work, p))
    BY <1>2 DEF Edit, repoVars
  <2>2. Flat(work')
    <3>1. SUFFICES ASSUME NEW q \in Paths, NEW a \in Above[q], work'[q] # None
                   PROVE  work'[a] = None
      BY DEF Flat
    <3>2. a \in Paths /\ a # q
      BY WorkTreeAssumption
    <3> QED BY <1>1, <2>1, <3>1, <3>2 DEF Flat, FileAbove, DirAt, Below, Files
  <2>3. TwoSided(index)'
    BY <1>1, <2>1 DEF TwoSided, Conflicted, Tracked
  <2> QED BY <2>1, <2>2, <2>3, NoRunIndex
<1>3. ASSUME NEW idx, WriteIndexOnly(idx), TwoSided(idx) PROVE IndexInv'
  <2>1. index' = idx /\ UNCHANGED <<commits, work, run>>
    BY <1>3 DEF WriteIndexOnly, repoVars
  <2>2. Flat(work)' /\ TwoSided(index)'
    BY <1>1, <1>3, <2>1 DEF Flat, TwoSided, Conflicted, Tracked
  <2> QED BY <2>1, <2>2, NoRunIndex
<1>4. CASE Add(p)
  BY <1>1, <1>3, <1>4, TwoSidedKept DEF Add
<1>5. CASE Unadd(p)
  <2>1. TwoSided(RemovePath(index, p)) /\ RemovePath(index, p) \in Index
    BY <1>1, TwoSidedKept, IndexTypes
  <2>2. TwoSided(RestoreToIndex(RemovePath(index, p), p))
    BY <1>1, <2>1, TwoSidedKept
  <2> QED BY <1>3, <1>5, <2>2 DEF Unadd
<1>6. CASE Untrack(p, force)
  BY <1>1, <1>3, <1>6, TwoSidedKept DEF Untrack
<1> QED BY <1>2, <1>4, <1>5, <1>6

LEMMA FileStepIndex ==
  ASSUME TypeOK, IndexInv, NEW p \in Paths, RemoveFile(p) \/ PutFile(p)
  PROVE  IndexInv'
<1>1. run \in Running(Len(commits)) /\ work \in Files /\ run.idx \in Index
      /\ run.put \in Files /\ TwoSided(run.idx)
  BY DEF TypeOK, Running, IndexInv
<1>2. work' \in Files
  BY FileStepTypes DEF TypeOK
<1>3. UNCHANGED <<commits, index>>
  BY DEF RemoveFile, PutFile, repoVars
<1>4. run'.conflicts = run.conflicts
  BY <1>1 DEF RemoveFile, PutFile, Running
<1>5. TwoSided(run'.idx)
  <2>1. run'.idx \in {RemovePath(run.idx, p), AddPath(run.idx, work', p)}
    BY <1>1 DEF RemoveFile, PutFile, Running
  <2> QED BY <1>1, <1>2, <2>1, TwoSidedKept
<1>6. Flat(work')
  <2>1. CASE RemoveFile(p)
    <3>1. \A q \in Paths : work'[q] # None => work'[q] = work[q]
      BY <1>1, <2>1 DEF RemoveFile, Without, Files
    <3> QED BY <3>1, WorkTreeAssumption DEF IndexInv, Flat
  <2>2. CASE PutFile(p) /\ work' # work
    <3>1. SUFFICES ASSUME NEW q \in Paths, NEW a \in Above[q], work'[q] # None
                   PROVE  work'[a] = None
      BY DEF Flat
    <3>2. a \in Paths /\ a # q
      BY WorkTreeAssumption
    <3>3. PICK r \in Paths, v \in Contents :
            ~FileAbove(work, r) /\ ~DirAt(work, r) /\ work' = [work EXCEPT ![r] = v]
      BY <2>2, PutFileWork
    <3> QED BY <1>1, <3>1, <3>2, <3>3 DEF Flat, IndexInv, FileAbove, DirAt, Below, Files
  <2>3. CASE work' = work
    BY <2>3 DEF Flat, IndexInv
  <2> QED BY <2>1, <2>2, <2>3
<1>7. TwoSided(index)'
  BY <1>3 DEF IndexInv, TwoSided, Conflicted, Tracked
<1>8. NewConflicts' = NewConflicts
  BY <1>4 DEF NewConflicts
<1> QED BY <1>3, <1>4, <1>5, <1>6, <1>7, <1>8, SameTrees DEF IndexInv

LEMMA WriteStepIndex ==
  ASSUME TypeOK, IndexInv,
         WriteIndex \/ ReplaceHead \/ MoveTip \/ RemoveMergeState \/ RecordMergeHead
           \/ RecordMergeMsg \/ CommitMerge
  PROVE  IndexInv'
<1>1. run \in Running(Len(commits)) /\ index \in Index
  BY DEF TypeOK
<1>2. run'.conflicts = run.conflicts /\ run'.idx = run.idx /\ UNCHANGED work
  <2>1. Done1 /\ UNCHANGED work
    BY DEF WriteIndex, ReplaceHead, MoveTip, RemoveMergeState, RecordMergeHead,
           RecordMergeMsg, CommitMerge
  <2> QED BY <1>1, <2>1 DEF Done1, Running
<1>3. NewConflicts' = NewConflicts /\ TwoSided(run.idx)' /\ Flat(work)'
  BY <1>2 DEF NewConflicts, IndexInv, TwoSided, Conflicted, Tracked, Flat
<1>4. \A c \in Commits' : Flat(TreeOf(c)')
  BY CommitTrees, SameTrees DEF WriteIndex, ReplaceHead, MoveTip, RemoveMergeState,
     RecordMergeHead, RecordMergeMsg, CommitMerge, repoVars
<1>5. TwoSided(index)'
  <2>1. CASE UNCHANGED index
    BY <2>1 DEF IndexInv, TwoSided, Conflicted, Tracked
  <2>2. CASE WriteIndex
    <3>1. \A q \in Paths : index'[q] = IF q \in NewConflicts THEN run.conflicts[q] ELSE run.idx[q]
      BY <2>2 DEF WriteIndex, NewConflicts
    <3>2. ASSUME NEW q \in Paths, index'[q] # NoEntry, index'[q][0] = None
          PROVE  OurSide(index'[q]) # None
      BY <3>1, <3>2 DEF IndexInv, TwoSided, Conflicted, Tracked
    <3> QED BY <3>2 DEF TwoSided, Conflicted, Tracked
  <2> QED BY <2>1, <2>2 DEF ReplaceHead, MoveTip, RemoveMergeState, RecordMergeHead,
                            RecordMergeMsg, CommitMerge
<1> QED BY <1>2, <1>3, <1>4, <1>5 DEF IndexInv

LEMMA IndexInvStep ==
  ASSUME TypeOK, IndexInv, [Next]_vars
  PROVE  IndexInv'
<1>1. CASE UNCHANGED vars
  <2>1. UNCHANGED <<commits, index, work, run>>
    BY <1>1 DEF vars
  <2>2. Flat(work)' /\ TwoSided(index)'
    BY <2>1 DEF IndexInv, Flat, TwoSided, Conflicted, Tracked
  <2> QED BY <2>1, <2>2, NoRunIndex
<1>2. CASE Step
  <2>1. CASE (\E p \in Paths : PutFails(p)) \/ CommitFails \/ Return
    BY <2>1, EndOfRunIndex DEF PutFails, CommitFails, Return, repoVars
  <2> QED BY <1>2, <2>1, FileStepIndex, WriteStepIndex DEF Step
<1>3. CASE Next /\ ~Step
  <2>1. ASSUME NEW cmd, NEW force, NEW touch, NEW rm, NEW put, NEW post,
               run' = Start(cmd, force, touch, rm, put, post), UNCHANGED <<commits, index, work>>
        PROVE  IndexInv'
    BY <2>1, StartFacts, StartIndex
  <2>2. ASSUME NEW p \in Paths, NEW force \in BOOLEAN, Remove(p, force) \/ Restore(p)
        PROVE  IndexInv'
    BY <2>1, <2>2 DEF Remove, Restore, repoVars
  <2>3. CASE Commit \/ \E target \in Targets : ResetAdd(target)
    <3>1. UNCHANGED <<index, work, run>>
      BY <2>3 DEF Commit, ResetAdd
    <3>2. \A c \in Commits' : Flat(TreeOf(c)')
      BY <2>3, CommitTrees, SameTrees DEF Commit, ResetAdd
    <3> QED BY <3>1, <3>2 DEF IndexInv, NewConflicts, Flat, TwoSided, Conflicted, Tracked
  <2>4. ASSUME NEW target \in Targets, NEW force \in BOOLEAN,
               Switch(target, force) \/ Reset(target, force) \/ ResetDir(target, force)
        PROVE  IndexInv'
    BY <2>1, <2>4 DEF Switch, Reset, ResetDir, SwitchDir, repoVars
  <2>5. ASSUME NEW target \in Targets, NEW kind \in Kinds, MergeNew(kind, target)
        PROVE  IndexInv'
    <3>1. PICK base \in Bases(kind, HeadCommit, Resolve(target)) :
            \E failed3 \in SUBSET ForDiff3(TreeOf(base), HeadTree, TreeOf(Resolve(target))) :
              StartMerge(kind, Resolve(target), base, failed3)
      BY <2>5 DEF MergeNew
    <3>2. Resolve(target) \in Commits /\ base \in Commits
      BY <3>1, HeadTypes, BasesTypes
    <3>3. UNCHANGED <<commits, index, work>>
      BY <2>5 DEF MergeNew, repoVars
    <3> QED BY <3>1, <3>2, <3>3, MergeConflicts, StartIndex
  <2>6. ASSUME NEW target \in Targets, NEW kind \in Kinds, MergeIntoEmpty(kind, target)
        PROVE  IndexInv'
    BY <2>1, <2>6 DEF MergeIntoEmpty
  <2>7. ASSUME NEW kind \in Kinds, MergeCont(kind) PROVE IndexInv'
    BY <2>1, <2>7 DEF MergeCont, repoVars
  <2>8. CASE MergeAbort
    BY <2>1, <2>8 DEF MergeAbort, SwitchDir
  <2>9. CASE Crash
    BY <2>9, EndOfRunIndex DEF Crash, repoVars
  <2> QED BY <1>3, <2>2, <2>3, <2>4, <2>5, <2>6, <2>7, <2>8, <2>9, UserStepIndex DEF Next
<1> QED BY <1>1, <1>2, <1>3

LEMMA IndexInvInit ==
  ASSUME Init, TypeOK
  PROVE  IndexInv
<1>1. \A c \in Commits : Flat(TreeOf(c))
  <2>1. \A c \in Commits : Flat(commits[c].tree)
    BY StartsAssumption DEF Init, Commits, TypeOK
  <2> QED BY <2>1 DEF TreeOf, Commits, NoCommit
<1>2. Flat(HeadTree) /\ HeadTree \in Files
  <2>1. Flat(EmptyTree)
    BY WorkTreeAssumption DEF Flat, EmptyTree
  <2> QED BY <1>1, <2>1, HeadTypes DEF HeadTree, TreeOf
<1>3. index = Plain(HeadTree) /\ work = HeadTree /\ run = Idle
  BY DEF Init
<1> QED BY <1>1, <1>2, <1>3, PlainFacts, IdleFacts DEF IndexInv
-----------------------------------------------------------------------------
(* RecordInv is inductive. *)
(* Short sequences, put together. *)
LEMMA Joined ==
  ASSUME NEW a, NEW b, NEW c
  PROVE  /\ <<a>> \o <<>> \o <<b>> = <<a, b>>
         /\ <<a>> \o <<b>> = <<a, b>>
         /\ <<a>> \o <<b>> \o <<c>> = <<a, b, c>>
         /\ <<a>> \o <<b, c>> = <<a, b, c>>
<1> DEFINE S == {a, b, c}
<1>1. a \in S /\ b \in S /\ c \in S
  OBVIOUS
<1> HIDE DEF S
<1>2. /\ <<>> \in Seq(S) /\ <<a>> \in Seq(S) /\ <<b>> \in Seq(S) /\ <<c>> \in Seq(S)
      /\ <<a, b>> \in Seq(S) /\ <<b, c>> \in Seq(S) /\ <<a, b, c>> \in Seq(S)
  BY <1>1
<1>3. <<a>> \o <<>> = <<a>>
  OBVIOUS
<1>4. <<a>> \o <<b>> = <<a, b>>
  <2> DEFINE s == <<a>> \o <<b>>
  <2>1. s \in Seq(S) /\ Len(s) = 2 /\ s[1] = a /\ s[2] = b
    BY <1>2
  <2> HIDE DEF s
  <2>2. Len(s) = Len(<<a, b>>) /\ \A i \in 1..Len(s) : s[i] = <<a, b>>[i]
    BY <2>1
  <2>3. s = <<a, b>>
    BY <1>2, <2>1, <2>2, SeqEqual
  <2> QED BY <2>3 DEF s
<1>5. <<a>> \o <<b, c>> = <<a, b, c>>
  <2> DEFINE s == <<a>> \o <<b, c>>
  <2>1. s \in Seq(S) /\ Len(s) = 3 /\ s[1] = a /\ s[2] = b /\ s[3] = c
    BY <1>2
  <2> HIDE DEF s
  <2>2. Len(s) = Len(<<a, b, c>>) /\ \A i \in 1..Len(s) : s[i] = <<a, b, c>>[i]
    BY <2>1
  <2>3. s = <<a, b, c>>
    BY <1>2, <2>1, <2>2, SeqEqual
  <2> QED BY <2>3 DEF s
<1>6. <<a, b>> \o <<c>> = <<a, b, c>>
  <2> DEFINE s == <<a, b>> \o <<c>>
  <2>1. s \in Seq(S) /\ Len(s) = 3 /\ s[1] = a /\ s[2] = b /\ s[3] = c
    BY <1>2
  <2> HIDE DEF s
  <2>2. Len(s) = Len(<<a, b, c>>) /\ \A i \in 1..Len(s) : s[i] = <<a, b, c>>[i]
    BY <2>1
  <2>3. s = <<a, b, c>>
    BY <1>2, <2>1, <2>2, SeqEqual
  <2> QED BY <2>3 DEF s
<1> QED BY <1>3, <1>4, <1>5, <1>6

LEMMA ShapeFacts ==
  ASSUME NEW n \in Nat, NEW post \in Seq(Writes(n)), post # <<>>
  PROVE  /\ Shape(post) \in Seq({w[1] : w \in Writes(n)}) /\ Shape(post) # <<>>
         /\ Shape(post)[1] = post[1][1] /\ Shape(Tail(post)) = Tail(Shape(post))
<1> DEFINE W == Writes(n)
           K == {w[1] : w \in W}
<1>1. post \in Seq(W)
  OBVIOUS
<1>2. \A i \in 1..Len(post) : post[i] \in W
  <2> HIDE DEF W
  <2> QED BY <1>1
<1>3. \A i \in 1..Len(post) : post[i][1] \in K
  BY <1>2
<1> HIDE DEF W, K
<1>4. DOMAIN post = 1..Len(post) /\ Len(post) \in Nat /\ Len(post) > 0
  BY <1>1
<1>5. Shape(post) \in Seq(K) /\ Len(Shape(post)) = Len(post)
      /\ \A i \in 1..Len(post) : Shape(post)[i] = post[i][1]
  BY <1>3, <1>4 DEF Shape
<1>6. /\ Tail(post) \in Seq(W) /\ Len(Tail(post)) = Len(post) - 1
      /\ \A i \in 1..Len(Tail(post)) : Tail(post)[i] = post[i + 1]
  BY <1>1, HeadTailProperties
<1>7. Shape(post) # <<>>
  BY <1>4, <1>5
<1>8. /\ Tail(Shape(post)) \in Seq(K) /\ Len(Tail(Shape(post))) = Len(post) - 1
      /\ \A i \in 1..Len(Tail(Shape(post))) : Tail(Shape(post))[i] = Shape(post)[i + 1]
  BY <1>5, <1>7, HeadTailProperties
<1>9. /\ Shape(Tail(post)) \in Seq(K) /\ Len(Shape(Tail(post))) = Len(post) - 1
      /\ \A i \in 1..(Len(post) - 1) : Shape(Tail(post))[i] = post[i + 1][1]
  <2>1. DOMAIN Tail(post) = 1..(Len(post) - 1)
    BY <1>6
  <2>2. \A i \in 1..(Len(post) - 1) : Tail(post)[i][1] = post[i + 1][1] /\ post[i + 1][1] \in K
    BY <1>3, <1>4, <1>6
  <2> QED BY <1>4, <2>1, <2>2 DEF Shape
<1>10. \A i \in 1..Len(Shape(Tail(post))) : Shape(Tail(post))[i] = Tail(Shape(post))[i]
  BY <1>4, <1>5, <1>8, <1>9
<1>11. Shape(Tail(post)) = Tail(Shape(post))
  BY <1>8, <1>9, <1>10, SeqEqual
<1> QED BY <1>4, <1>5, <1>7, <1>11 DEF K, W

LEMMA EmptyShape == Shape(<<>>) = <<>>
BY DEF Shape

(* A forced command has something to write at every unmerged path, and one *)
(* that is not forced does not start while there is one.                   *)
LEMMA SwitchResolves ==
  ASSUME TypeOK, IndexInv, NEW cmd, NEW touch, NEW headWrite, NEW target, NEW force \in BOOLEAN,
         headWrite[1] \in {"head", "tip"},
         SwitchDir(cmd, touch, headWrite, target, force)
  PROVE  /\ Resolved' /\ NewConflicts' = {}
         /\ Shape(run'.post) \in {<<"head", "index">>, <<"tip", "index">>,
                                  <<"head", "clear", "index">>, <<"tip", "clear", "index">>}
<1> DEFINE old == HeadTree
           new == TreeOf(target)
           rm == Removals(old, new)
           put == Additions(old, new)
           files == IF force THEN WithOurSides(rm, put) ELSE put
           post == <<headWrite>> \o (IF force THEN << <<"clear">> >> ELSE <<>>)
                                 \o << <<"index">> >>
<1>1. run' = Start(cmd, force, touch, rm, files, post) /\ (force \/ Conflicted(index) = {})
  BY Zenon DEF SwitchDir, MayMigrate
<1>2. run'.idx = index /\ run'.rm = rm /\ run'.put = files /\ run'.post = post
      /\ NewConflicts' = {}
  <2> HIDE DEF rm, files, post
  <2> QED BY <1>1, StartFacts
<1>3. Resolved'
  <2> SUFFICES ASSUME NEW p \in Conflicted(index), p \notin rm PROVE files[p] # None
    BY <1>2 DEF Resolved, ToDo, Conflicted, Tracked
  <2>1. p \in Paths /\ OurSide(index[p]) # None /\ force
    BY <1>1 DEF IndexInv, TwoSided, Conflicted, Tracked
  <2> QED BY <2>1 DEF WithOurSides
<1>4. Shape(post) \in {<<"head", "index">>, <<"tip", "index">>,
                       <<"head", "clear", "index">>, <<"tip", "clear", "index">>}
  <2>1. CASE force
    <3>1. post = <<headWrite>> \o << <<"clear">> >> \o << <<"index">> >>
      BY <2>1
    <3> HIDE DEF post
    <3>2. post = <<headWrite, <<"clear">>, <<"index">> >>
      BY <3>1, Joined
    <3> QED BY <3>2 DEF Shape
  <2>2. CASE ~force
    <3>1. post = <<headWrite>> \o <<>> \o << <<"index">> >>
      BY <2>2
    <3> HIDE DEF post
    <3>2. post = <<headWrite, <<"index">> >>
      BY <3>1, Joined
    <3> QED BY <3>2 DEF Shape
  <2> QED BY <2>1, <2>2
<1> QED BY <1>2, <1>3, <1>4

(* A merge that leaves conflicts goes on record after the index. *)
LEMMA MergeShape ==
  ASSUME TypeOK, NEW kind, NEW source \in Commits, NEW base \in Commits,
         NEW failed3 \in SUBSET ForDiff3(TreeOf(base), HeadTree, TreeOf(source)),
         StartMerge(kind, source, base, failed3)
  PROVE  \/ Shape(run'.post) = <<"index", "record", "msg">>
         \/ Shape(run'.post) \in {<<"index", "tip">>, <<"index", "commit">>} /\ NewConflicts' = {}
<1> DEFINE b == TreeOf(base)
           t == HeadTree
           s == TreeOf(source)
           clash == Clash(b, t, s) \cup Clash(b, s, t)
           conflicts == failed3 \cup Disputes(b, t, s) \cup clash
           parents == IF kind = "merge" THEN <<HeadCommit, source>> ELSE <<HeadCommit>>
           marks == [p \in Paths |-> IF p \in conflicts
                                     THEN Unmerged(b[p], t[p], s[p]) ELSE NoEntry]
           rest == IF conflicts # {} THEN << <<"record", <<kind, source>> >>, <<"msg">> >>
                   ELSE IF HeadCommit = base THEN << <<"tip", source>> >>
                   ELSE << <<"commit", parents>> >>
<1>1. run'.conflicts = marks /\ run'.post = << <<"index">> >> \o rest
  BY Zenon DEF StartMerge, Start, Idle
<1>2. CASE conflicts # {}
  <2>1. rest = << <<"record", <<kind, source>> >>, <<"msg">> >>
    BY <1>2
  <2> HIDE DEF rest, conflicts
  <2>2. run'.post = << <<"index">>, <<"record", <<kind, source>> >>, <<"msg">> >>
    BY <1>1, <2>1, Joined
  <2> QED BY <2>2 DEF Shape
<1>3. CASE conflicts = {}
  <2>1. NewConflicts' = {}
    BY <1>1, <1>3 DEF NewConflicts
  <2>2. CASE HeadCommit = base
    <3>1. rest = << <<"tip", source>> >>
      BY <1>3, <2>2
    <3> HIDE DEF rest, conflicts
    <3>2. run'.post = << <<"index">>, <<"tip", source>> >>
      BY <1>1, <3>1, Joined
    <3> QED BY <2>1, <3>2 DEF Shape
  <2>3. CASE HeadCommit # base
    <3>1. rest = << <<"commit", parents>> >>
      BY <1>3, <2>3
    <3> HIDE DEF rest, conflicts
    <3>2. run'.post = << <<"index">>, <<"commit", parents>> >>
      BY <1>1, <3>1, Joined
    <3> QED BY <2>1, <3>2 DEF Shape
  <2> QED BY <2>2, <2>3
<1> QED BY <1>2, <1>3

(* The last steps of a command: each write leaves those that follow. *)
LEMMA WriteStepRecord ==
  ASSUME TypeOK, RecordInv,
         WriteIndex \/ ReplaceHead \/ MoveTip \/ RemoveMergeState \/ RecordMergeHead
           \/ RecordMergeMsg \/ CommitMerge
  PROVE  RecordInv'
<1> DEFINE shape == Shape(run.post)
           kind == run.post[1][1]
<1>1. run \in Running(Len(commits)) /\ Len(commits) \in Nat /\ run.post \in Seq(Writes(Len(commits)))
  BY HeadTypes DEF TypeOK, Running
<1>2. Done1 /\ ~Migrating /\ run.post # <<>> /\ UNCHANGED interrupted
  BY DEF WriteIndex, ReplaceHead, MoveTip, RemoveMergeState, RecordMergeHead,
         RecordMergeMsg, CommitMerge, Next1
<1>3. run'.post = Tail(run.post) /\ run'.rm = run.rm /\ run'.put = run.put
      /\ run'.idx = run.idx /\ run'.conflicts = run.conflicts
  BY <1>1, <1>2 DEF Done1, Running
<1>4. ~Migrating' /\ NewConflicts' = NewConflicts /\ ToDo = {} /\ ToDo' = {}
      /\ (Resolved' <=> Resolved) /\ (Resolved <=> Conflicted(run.idx) = {})
  <2>1. ToDo = {}
    BY <1>2, MigratingFacts
  <2> QED BY <1>2, <1>3, <2>1 DEF Migrating, NewConflicts, ToDo, Resolved, Conflicted, Tracked
<1>5. Shape(run'.post) = Tail(shape) /\ shape[1] = kind
  BY <1>1, <1>2, <1>3, ShapeFacts
<1>6. SUFFICES ASSUME ~interrupted, Pending PROVE Pending'
  BY <1>2, <1>4 DEF RecordInv
<1>7. \/ shape = <<>> /\ OnRecord
      \/ shape = <<"index">> /\ NewConflicts = {} /\ (Resolved \/ mergeHead # NoMerge)
      \/ /\ shape \in {<<"head", "index">>, <<"tip", "index">>, <<"clear", "index">>,
                       <<"head", "clear", "index">>, <<"tip", "clear", "index">>,
                       <<"index", "tip">>, <<"index", "commit">>}
         /\ NewConflicts = {} /\ Resolved
      \/ shape \in {<<"index", "record", "msg">>, <<"record", "msg">>}
      \/ shape = <<"msg">> /\ mergeHead # NoMerge
      \/ shape \in {<<"tip">>, <<"commit">>} /\ OnRecord
      \/ shape = <<"clear", "commit">> /\ Conflicted(index) = {}
  BY <1>6 DEF Pending
<1>8. shape # <<>>
  BY <1>1, <1>2, ShapeFacts
<1> HIDE DEF shape, kind
<1>9. CASE WriteIndex
  <2>1. kind = "index" /\ UNCHANGED mergeHead
    BY <1>9 DEF WriteIndex, Next1, kind, repoVars
  <2>2. NewConflicts = {} => Conflicted(index)' = Conflicted(run.idx)
    BY <1>9 DEF WriteIndex, NewConflicts, Conflicted, Tracked
  <2>3. CASE shape = <<"index">>
    <3>1. Shape(run'.post) = <<>>
      BY <1>5, <2>3
    <3> QED BY <1>4, <1>7, <2>1, <2>2, <2>3, <3>1 DEF Pending, OnRecord
  <2>4. CASE shape \in {<<"index", "tip">>, <<"index", "commit">>}
    <3>1. Tail(<<"index", "tip">>) = <<"tip">> /\ Tail(<<"index", "commit">>) = <<"commit">>
      OBVIOUS
    <3>2. Shape(run'.post) \in {<<"tip">>, <<"commit">>}
      BY <1>5, <2>4, <3>1, Zenon
    <3> QED BY <1>4, <1>7, <2>2, <2>4, <3>2 DEF Pending, OnRecord
  <2>5. CASE shape = <<"index", "record", "msg">>
    <3>1. Shape(run'.post) = <<"record", "msg">>
      BY <1>5, <2>5
    <3> QED BY <3>1 DEF Pending
  <2> QED BY <1>5, <1>7, <1>8, <2>1, <2>3, <2>4, <2>5
<1>10. CASE RemoveMergeState
  <2>1. kind = "clear" /\ UNCHANGED index
    BY <1>10 DEF RemoveMergeState, Next1, kind
  <2>2. CASE shape = <<"clear", "index">>
    <3>1. Shape(run'.post) = <<"index">>
      BY <1>5, <2>2
    <3> QED BY <1>4, <1>7, <2>2, <3>1 DEF Pending
  <2>3. CASE shape = <<"clear", "commit">>
    <3>1. Shape(run'.post) = <<"commit">>
      BY <1>5, <2>3
    <3> QED BY <1>7, <2>1, <2>3, <3>1 DEF Pending, OnRecord, Conflicted, Tracked
  <2> QED BY <1>5, <1>7, <1>8, <2>1, <2>2, <2>3
<1>11. CASE RecordMergeHead
  <2>1. kind = "record" /\ mergeHead' = run.post[1][2] /\ UNCHANGED index
    BY <1>11 DEF RecordMergeHead, Next1, kind
  <2>2. mergeHead' # NoMerge
    <3>1. run.post[1] \in Writes(Len(commits))
      <4> DEFINE W == Writes(Len(commits))
      <4>1. run.post \in Seq(W)
        BY <1>1
      <4> HIDE DEF W
      <4>2. run.post[1] \in W
        BY <1>2, <4>1
      <4> QED BY <4>2 DEF W
    <3>2. run.post[1][2] \in Kinds \X (1..Len(commits))
      BY <1>1, <2>1, <3>1, WriteParts DEF kind
    <3> QED BY <2>1, <3>2 DEF NoMerge, Kinds
  <2>3. shape = <<"record", "msg">>
    BY <1>5, <1>7, <1>8, <2>1
  <2>4. Shape(run'.post) = <<"msg">>
    BY <1>5, <2>3
  <2> QED BY <2>2, <2>4 DEF Pending
<1>12. CASE RecordMergeMsg
  <2>1. kind = "msg" /\ UNCHANGED <<index, mergeHead>>
    BY <1>12 DEF RecordMergeMsg, Next1, kind
  <2>2. shape = <<"msg">>
    BY <1>5, <1>7, <1>8, <2>1
  <2>3. Shape(run'.post) = <<>>
    BY <1>5, <2>2
  <2> QED BY <1>7, <2>1, <2>2, <2>3 DEF Pending, OnRecord
<1>13. CASE ReplaceHead \/ MoveTip \/ CommitMerge
  <2>1. kind \in {"head", "tip", "commit"} /\ UNCHANGED <<index, mergeHead>>
    BY <1>13 DEF ReplaceHead, MoveTip, CommitMerge, Next1, kind
  <2>2. CASE shape \in {<<"head", "index">>, <<"tip", "index">>}
    <3>1. Tail(<<"head", "index">>) = <<"index">> /\ Tail(<<"tip", "index">>) = <<"index">>
      OBVIOUS
    <3>2. Shape(run'.post) = <<"index">>
      BY <1>5, <2>2, <3>1, Zenon
    <3> QED BY <1>4, <1>7, <2>2, <3>2 DEF Pending
  <2>3. CASE shape \in {<<"head", "clear", "index">>, <<"tip", "clear", "index">>}
    <3>1. Tail(<<"head", "clear", "index">>) = <<"clear", "index">>
          /\ Tail(<<"tip", "clear", "index">>) = <<"clear", "index">>
      OBVIOUS
    <3>2. Shape(run'.post) = <<"clear", "index">>
      BY <1>5, <2>3, <3>1, Zenon
    <3> QED BY <1>4, <1>7, <2>3, <3>2 DEF Pending
  <2>4. CASE shape \in {<<"tip">>, <<"commit">>}
    <3>1. Shape(run'.post) = <<>>
      BY <1>5, <2>4
    <3> QED BY <1>7, <2>1, <2>4, <3>1 DEF Pending, OnRecord, Conflicted, Tracked
  <2> QED BY <1>5, <1>7, <1>8, <2>1, <2>2, <2>3, <2>4
<1> QED BY <1>9, <1>10, <1>11, <1>12, <1>13

(* A path is resolved in the index when its file is removed or written. *)
LEMMA FileStepRecord ==
  ASSUME TypeOK, RecordInv, NEW p \in Paths, RemoveFile(p) \/ PutFile(p)
  PROVE  RecordInv'
<1>1. /\ run \in Running(Len(commits)) /\ run.idx \in Index /\ run.put \in Files
      /\ work' \in Files /\ work \in Files /\ run.put[p] \in Values
  BY FileStepTypes DEF TypeOK, Running, Files, Values
<1>2. /\ UNCHANGED <<mergeHead, index, interrupted>>
      /\ run'.post = run.post /\ run'.conflicts = run.conflicts /\ run'.cmd = run.cmd
  BY <1>1 DEF RemoveFile, PutFile, Running, repoVars
<1>3. p \in ToDo /\ ToDo \ {p} \subseteq ToDo'
  <2>1. CASE RemoveFile(p)
    <3>1. run'.rm = run.rm \ {p} /\ run'.put = run.put
      BY <1>1, <2>1 DEF RemoveFile, Running
    <3> QED BY <2>1, <3>1 DEF ToDo, RemoveFile
  <2>2. CASE PutFile(p)
    <3>1. run'.rm = run.rm /\ run.rm = {} /\ run'.put = [run.put EXCEPT ![p] = None]
      BY <1>1, <2>2 DEF PutFile, Running
    <3>2. \A q \in Paths : run'.put[q] = IF q = p THEN None ELSE run.put[q]
      BY <1>1, <3>1 DEF Files
    <3> QED BY <2>2, <3>1, <3>2 DEF ToDo, PutFile
  <2> QED BY <2>1, <2>2
<1>4. Conflicted(run'.idx) \subseteq Conflicted(run.idx) \ {p}
  <2>1. CASE RemoveFile(p)
    <3>1. run'.idx = RemovePath(run.idx, p)
      BY <1>1, <2>1 DEF RemoveFile, Running
    <3> QED BY <1>1, <3>1, RemovePathEffect DEF AtOrBelow
  <2>2. CASE PutFile(p)
    <3>1. run'.idx = AddPath(run.idx, work', p)
      BY <1>1, <2>2 DEF PutFile, Running
    <3>2. p \notin Conflicted(run'.idx)
      <4>1. CASE run.touch
        <5>1. work'[p] # None
          BY <2>2, <4>1, PutFileWork
        <5>2. p \in FilesAt(work', p)
          BY <5>1 DEF FilesAt, AtOrBelow
        <5> QED BY <1>1, <3>1, <5>2, AddPathEffect
      <4>2. CASE ~run.touch
        <5>1. work' = work /\ Exists(work, p)
          BY <2>2, <4>2, PutFileWork DEF PutFile, CanPut
        <5>2. PICK f \in FilesAt(work', p) : TRUE
          BY <5>1 DEF Exists
        <5>3. CASE p \in FilesAt(work', p)
          BY <1>1, <3>1, <5>3, AddPathEffect
        <5>4. CASE p \notin FilesAt(work', p)
          <6>1. p \in Above[f]
            BY <5>2, <5>4 DEF FilesAt, AtOrBelow, Below
          <6>2. run'.idx[p] = NoEntry
            BY <1>1, <3>1, <5>2, <5>4, <6>1, AddPathEffect
          <6> QED BY <6>2 DEF Conflicted, Tracked
        <5> QED BY <5>3, <5>4
      <4> QED BY <4>1, <4>2
    <3>3. Conflicted(run'.idx) \subseteq Conflicted(run.idx)
      BY <1>1, <3>1, AddPathEffect
    <3> QED BY <3>2, <3>3
  <2> QED BY <2>1, <2>2
<1>5. Resolved => Resolved'
  BY <1>3, <1>4 DEF Resolved
<1>6. Migrating
  BY <1>3, MigratingFacts
<1>7. NewConflicts' = NewConflicts /\ (OnRecord' <=> OnRecord)
  BY <1>2 DEF NewConflicts, OnRecord, Conflicted, Tracked
<1>8. Pending => Pending'
  BY <1>2, <1>5, <1>7 DEF Pending
<1> QED BY <1>2, <1>6, <1>7, <1>8 DEF RecordInv

(* Without a command the record is complete; that is what one starts from, *)
(* and what it has to leave.                                               *)
LEMMA IdleRecord ==
  /\ run = Idle /\ RecordInv /\ ~interrupted => OnRecord
  /\ run' = Idle /\ (~interrupted' => OnRecord') => RecordInv'
<1>1. run = Idle => Shape(run.post) = <<>>
  BY IdleFacts, EmptyShape
<1>2. run' = Idle => Shape(run'.post) = <<>>
  BY IdleFacts, EmptyShape
<1> QED BY <1>1, <1>2, IdleFacts DEF RecordInv, Pending

LEMMA UserStepRecord ==
  ASSUME TypeOK, RecordInv, NEW p \in Paths, NEW v \in Contents \cup {None}, NEW force \in BOOLEAN,
         Edit(p, v) \/ Add(p) \/ Unadd(p) \/ Untrack(p, force)
  PROVE  RecordInv'
<1>1. index \in Index /\ work \in Files /\ HeadTree \in Files
  BY HeadTypes DEF TypeOK
<1>2. run = Idle /\ run' = Idle /\ UNCHANGED <<mergeHead, interrupted>>
  BY DEF Edit, Add, Unadd, Untrack, WriteIndexOnly, Ready, repoVars
<1>3. Conflicted(index)' \subseteq Conflicted(index)
  <2>1. ASSUME NEW idx, WriteIndexOnly(idx), Conflicted(idx) \subseteq Conflicted(index)
        PROVE  Conflicted(index)' \subseteq Conflicted(index)
    BY <2>1 DEF WriteIndexOnly, Conflicted, Tracked
  <2>2. CASE Edit(p, v)
    BY <2>2 DEF Edit, Conflicted, Tracked
  <2>3. CASE Add(p)
    BY <1>1, <2>1, <2>3, AddPathEffect, RemovePathEffect DEF Add
  <2>4. CASE Unadd(p)
    <3>1. RemovePath(index, p) \in Index
      BY <1>1, IndexTypes
    <3> QED BY <1>1, <2>1, <2>4, <3>1, RestoreEffect, RemovePathEffect DEF Unadd
  <2>5. CASE Untrack(p, force)
    BY <1>1, <2>1, <2>5, RemovePathEffect DEF Untrack
  <2> QED BY <2>2, <2>3, <2>4, <2>5
<1> QED BY <1>2, <1>3, IdleRecord DEF OnRecord

LEMMA SwitchRecord ==
  ASSUME TypeOK, IndexInv, RecordInv, NEW cmd, NEW touch, NEW headWrite, NEW target,
         NEW force \in BOOLEAN, headWrite[1] \in {"head", "tip"},
         SwitchDir(cmd, touch, headWrite, target, force),
         UNCHANGED <<index, interrupted>>,
         cmd # "abort" => run = Idle /\ UNCHANGED mergeHead
  PROVE  RecordInv'
<1>1. Pending'
  BY SwitchResolves DEF Pending
<1>2. cmd # "abort" /\ ~interrupted => OnRecord'
  BY IdleRecord DEF OnRecord, Conflicted, Tracked
<1>3. run'.cmd = cmd
  BY DEF SwitchDir, Start, Idle
<1> QED BY <1>1, <1>2, <1>3 DEF RecordInv

LEMMA RecordInvStep ==
  ASSUME TypeOK, IndexInv, RecordInv, [Next]_vars
  PROVE  RecordInv'
<1>1. CASE UNCHANGED vars
  BY <1>1 DEF vars, repoVars, RecordInv, Pending, OnRecord, Resolved, ToDo, NewConflicts,
     Migrating, Conflicted, Tracked
<1>2. CASE Step
  <2>1. ASSUME NEW p \in Paths, PutFails(p) PROVE RecordInv'
    <3>1. p \in ToDo /\ Migrating
      BY <2>1, MigratingFacts DEF PutFails, ToDo
    <3>2. run' = Idle /\ UNCHANGED <<index, mergeHead>>
          /\ interrupted' = (interrupted \/ run.cmd = "abort")
      BY <2>1 DEF PutFails, repoVars
    <3>3. ~interrupted' => OnRecord'
      BY <3>1, <3>2 DEF RecordInv, OnRecord, Conflicted, Tracked
    <3> QED BY <3>2, <3>3, IdleRecord
  <2>2. CASE CommitFails \/ Return
    <3>1. run' = Idle /\ UNCHANGED <<index, mergeHead, interrupted>>
      BY <2>2 DEF CommitFails, Return, repoVars
    <3>2. Shape(run.post) = <<>> \/ (Shape(run.post)[1] = "commit" /\ Shape(run.post) # <<>>)
      <4>1. CASE Return
        <5>1. run.post = <<>>
          BY <4>1 DEF Return
        <5> QED BY <5>1, EmptyShape
      <4>2. CASE CommitFails
        <5>1. run.post # <<>> /\ run.post[1][1] = "commit"
          BY <4>2 DEF CommitFails, Next1
        <5>2. Len(commits) \in Nat /\ run.post \in Seq(Writes(Len(commits)))
          BY HeadTypes DEF TypeOK, Running
        <5> QED BY <5>1, <5>2, ShapeFacts
      <4> QED BY <2>2, <4>1, <4>2
    <3>3. ~interrupted => OnRecord
      BY <3>2 DEF RecordInv, Pending
    <3>4. ~interrupted' => OnRecord'
      BY <3>1, <3>3 DEF OnRecord, Conflicted, Tracked
    <3> QED BY <3>1, <3>4, IdleRecord
  <2> QED BY <1>2, <2>1, <2>2, FileStepRecord, WriteStepRecord DEF Step
<1>3. CASE Next /\ ~Step
  <2>1. ASSUME NEW target \in Targets, NEW force \in BOOLEAN,
               Switch(target, force) \/ Reset(target, force) \/ ResetDir(target, force)
        PROVE  RecordInv'
    <3>1. run = Idle /\ UNCHANGED <<index, mergeHead, interrupted>>
      BY <2>1 DEF Switch, Reset, ResetDir, Ready, repoVars
    <3> QED BY <2>1, <3>1, SwitchRecord DEF Switch, Reset, ResetDir
  <2>2. CASE MergeAbort
    <3>1. UNCHANGED <<index, interrupted>>
      BY <2>2 DEF MergeAbort
    <3> QED BY <2>2, <3>1, SwitchRecord DEF MergeAbort
  <2>3. ASSUME NEW p \in Paths, NEW force \in BOOLEAN, Remove(p, force) PROVE RecordInv'
    <3>1. run = Idle /\ UNCHANGED <<index, mergeHead, interrupted>>
          /\ run' = Start("rm", force, TRUE, AtOrBelow(p) \cap Tracked(index), NoFiles, << <<"index">> >>)
      BY <2>3 DEF Remove, Ready, repoVars
    <3>2. run'.post = << <<"index">> >> /\ NewConflicts' = {} /\ run'.idx = index
      BY <3>1, StartFacts
    <3>3. Shape(run'.post) = <<"index">>
      BY <3>2 DEF Shape
    <3>4. ~interrupted => OnRecord'
      BY <3>1, IdleRecord DEF OnRecord, Conflicted, Tracked
    <3>5. ~interrupted /\ mergeHead' = NoMerge => Resolved'
      BY <3>1, <3>2, IdleRecord DEF OnRecord, Resolved
    <3> QED BY <3>1, <3>2, <3>3, <3>4, <3>5 DEF RecordInv, Pending
  <2>4. ASSUME NEW p \in Paths, Restore(p) PROVE RecordInv'
    <3>1. run = Idle /\ UNCHANGED <<index, mergeHead, interrupted>> /\ run'.post = <<>>
      BY <2>4 DEF Restore, Ready, repoVars, Start, Idle
    <3>2. ~interrupted => OnRecord'
      BY <3>1, IdleRecord DEF OnRecord, Conflicted, Tracked
    <3> QED BY <3>1, <3>2, EmptyShape DEF RecordInv, Pending
  <2>5. CASE Commit \/ \E target \in Targets : ResetAdd(target)
    <3>1. run = Idle /\ run' = Idle /\ UNCHANGED <<index, mergeHead, interrupted>>
      BY <2>5 DEF Commit, ResetAdd, Ready
    <3>2. ~interrupted' => OnRecord'
      BY <3>1, IdleRecord DEF OnRecord, Conflicted, Tracked
    <3> QED BY <3>1, <3>2, IdleRecord
  <2>6. ASSUME NEW target \in Targets, NEW kind \in Kinds, MergeNew(kind, target)
        PROVE  RecordInv'
    <3>1. PICK base \in Bases(kind, HeadCommit, Resolve(target)) :
            \E failed3 \in SUBSET ForDiff3(TreeOf(base), HeadTree, TreeOf(Resolve(target))) :
              StartMerge(kind, Resolve(target), base, failed3)
      BY <2>6 DEF MergeNew
    <3>2. Resolve(target) \in Commits /\ base \in Commits
      BY <3>1, HeadTypes, BasesTypes
    <3>3. run = Idle /\ mergeHead = NoMerge /\ UNCHANGED <<index, mergeHead, interrupted>>
      BY <2>6 DEF MergeNew, Ready, repoVars
    <3>4. ~interrupted => Conflicted(index) = {} /\ OnRecord'
      BY <3>3, IdleRecord DEF OnRecord, Conflicted, Tracked
    <3>5. run'.idx = index
      BY <3>1, <3>2, MergeConflicts
    <3>6. ~interrupted => Resolved'
      BY <3>4, <3>5 DEF Resolved, Conflicted, Tracked
    <3>7. \/ Shape(run'.post) = <<"index", "record", "msg">>
          \/ Shape(run'.post) \in {<<"index", "tip">>, <<"index", "commit">>} /\ NewConflicts' = {}
      BY <3>1, <3>2, MergeShape
    <3> QED BY <3>3, <3>4, <3>6, <3>7 DEF RecordInv, Pending
  <2>7. ASSUME NEW target \in Targets, NEW kind \in Kinds, MergeIntoEmpty(kind, target)
        PROVE  RecordInv'
    <3>1. run = Idle /\ UNCHANGED <<index, mergeHead, interrupted>> /\ run'.post = <<>>
      BY <2>7 DEF MergeIntoEmpty, Ready, Start, Idle
    <3>2. ~interrupted => OnRecord'
      BY <3>1, IdleRecord DEF OnRecord, Conflicted, Tracked
    <3> QED BY <3>1, <3>2, EmptyShape DEF RecordInv, Pending
  <2>8. ASSUME NEW kind \in Kinds, MergeCont(kind) PROVE RecordInv'
    <3> DEFINE parents == IF kind = "merge" THEN <<HeadCommit, mergeHead[2]>> ELSE <<HeadCommit>>
    <3>1. Conflicted(index) = {} /\ UNCHANGED <<index, mergeHead, interrupted>>
          /\ run'.post = << <<"clear">>, <<"commit", parents>> >>
      BY <2>8 DEF MergeCont, repoVars, Start, Idle
    <3> HIDE DEF parents
    <3>2. Shape(run'.post) = <<"clear", "commit">>
      BY <3>1 DEF Shape
    <3>3. Conflicted(index)' = {} /\ OnRecord'
      BY <3>1 DEF Conflicted, Tracked, OnRecord
    <3> QED BY <3>2, <3>3 DEF RecordInv, Pending
  <2>9. CASE Crash
    <3>1. interrupted' = TRUE
      BY <2>9 DEF Crash
    <3> QED BY <3>1 DEF RecordInv
  <2> QED BY <1>3, <2>1, <2>2, <2>3, <2>4, <2>5, <2>6, <2>7, <2>8, <2>9, UserStepRecord DEF Next
<1> QED BY <1>1, <1>2, <1>3

LEMMA RecordInvInit ==
  ASSUME Init, TypeOK
  PROVE  RecordInv
<1>1. index = Plain(HeadTree) /\ run = Idle /\ HeadTree \in Files
  BY HeadTypes DEF Init
<1>2. OnRecord
  BY <1>1, PlainFacts DEF OnRecord
<1>3. Shape(run.post) = <<>>
  BY <1>1, IdleFacts, EmptyShape
<1> QED BY <1>2, <1>3 DEF RecordInv, Pending

LEMMA IndexInvariants == Spec => [](TypeOK /\ IndexInv /\ RecordInv)
<1>1. Init /\ TypeOK => IndexInv /\ RecordInv
  BY IndexInvInit, RecordInvInit
<1>2. TypeOK /\ IndexInv /\ RecordInv /\ [Next]_vars => IndexInv' /\ RecordInv'
  BY IndexInvStep, RecordInvStep
<1> QED BY <1>1, <1>2, TypeCorrect, PTL DEF Spec

(* UnmergedIsOnRecord for every instance: as long as no command is killed  *)
(* and no abort fails midway, unmerged entries mean that the merge is on   *)
(* record, whatever else the user does, and however commands fail.         *)
THEOREM UnmergedStaysOnRecord == Spec => []UnmergedIsOnRecord
<1>1. RecordInv => UnmergedIsOnRecord
  BY IdleRecord DEF UnmergedIsOnRecord, OnRecord
<1> QED BY <1>1, IndexInvariants, PTL
-----------------------------------------------------------------------------
(* NestedInv is inductive without unadd, FlatInv on paths of two levels.   *)
(* The helpers bring no two entries, one above the other, into an index.   *)
LEMMA RemovePathPairs ==
  ASSUME NEW idx \in Index, NEW p \in Paths, NEW q \in Tracked(RemovePath(idx, p))
  PROVE  q \in Tracked(idx) /\ RemovePath(idx, p)[q] = idx[q]
BY RemovePathEffect DEF Tracked

LEMMA AddPathPairs ==
  ASSUME NEW idx \in Index, NEW files \in Files, Flat(files), NEW p \in Paths,
         NEW r \in Tracked(AddPath(idx, files, p)),
         NEW q \in Above[r] \cap Tracked(AddPath(idx, files, p))
  PROVE  /\ r \in Tracked(idx) /\ AddPath(idx, files, p)[r] = idx[r]
         /\ q \in Tracked(idx) /\ AddPath(idx, files, p)[q] = idx[q]
<1> DEFINE added == FilesAt(files, p)
           new == AddPath(idx, files, p)
<1>1. q \in Paths /\ r \in Paths /\ new[q] # NoEntry /\ new[r] # NoEntry
  BY DEF Tracked
<1>2. /\ \A x \in added : files[x] # None /\ x \in Paths
      /\ \A x \in Paths \ added : new[x] = NoEntry
           \/ (new[x] = idx[x] /\ Above[x] \cap added = {} /\ \A f \in added : x \notin Above[f])
  BY AddPathEffect
<1> HIDE DEF added, new
<1>3. r \notin added
  <2>1. ASSUME r \in added PROVE FALSE
    <3>1. q \notin added
      BY <1>1, <1>2, <2>1 DEF Flat
    <3> QED BY <1>1, <1>2, <2>1, <3>1
  <2> QED BY <2>1
<1>4. new[r] = idx[r] /\ q \notin added
  BY <1>1, <1>2, <1>3
<1>5. new[q] = idx[q]
  BY <1>1, <1>2, <1>4
<1> QED BY <1>1, <1>4, <1>5 DEF Tracked, new

LEMMA HelpersKeepOrder ==
  ASSUME NEW idx \in Index, NEW p \in Paths
  PROVE  /\ Nested(idx) => Nested(RemovePath(idx, p))
         /\ FlatIndex(idx) => FlatIndex(RemovePath(idx, p))
         /\ \A files \in Files : Flat(files) =>
              /\ Nested(idx) => Nested(AddPath(idx, files, p))
              /\ FlatIndex(idx) => FlatIndex(AddPath(idx, files, p))
<1>1. Nested(idx) => Nested(RemovePath(idx, p))
  BY RemovePathPairs DEF Nested
<1>2. FlatIndex(idx) => FlatIndex(RemovePath(idx, p))
  BY RemovePathPairs DEF FlatIndex
<1>3. ASSUME NEW files \in Files, Flat(files)
      PROVE  /\ Nested(idx) => Nested(AddPath(idx, files, p))
             /\ FlatIndex(idx) => FlatIndex(AddPath(idx, files, p))
  BY <1>3, AddPathPairs DEF Nested, FlatIndex
<1> QED BY <1>1, <1>2, <1>3

LEMMA PlainIsFlat ==
  ASSUME NEW tree \in Files, Flat(tree)
  PROVE  Nested(Plain(tree)) /\ FlatIndex(Plain(tree))
BY PlainFacts, WorkTreeAssumption DEF Nested, FlatIndex, Flat

LEMMA IdleIsFlat == Nested(Plain(EmptyTree)) /\ FlatIndex(Plain(EmptyTree))
<1>1. EmptyTree \in Files /\ Flat(EmptyTree)
  BY IndexTypes, WorkTreeAssumption DEF Flat, EmptyTree
<1> QED BY <1>1, PlainIsFlat

(* What HEAD has at a path that is tracked, or a directory of tracked      *)
(* files, can be put back.                                                 *)
LEMMA UnaddKeepsOrder ==
  ASSUME TypeOK, IndexInv, FlatIndex(index), NEW p \in Paths, CanUnstage(p)
  PROVE  FlatIndex(RestoreToIndex(RemovePath(index, p), p))
<1> DEFINE idx == RemovePath(index, p)
           new == RestoreToIndex(idx, p)
<1>1. index \in Index /\ HeadTree \in Files /\ idx \in Index
  BY HeadTypes, IndexTypes DEF TypeOK
<1>2. Flat(HeadTree)
  <2>1. Flat(EmptyTree)
    BY WorkTreeAssumption DEF Flat, EmptyTree
  <2> QED BY <2>1, HeadTypes DEF IndexInv, HeadTree, TreeOf
<1>3. \A q \in Paths :
        /\ q \in AtOrBelow(p) /\ HeadTree[q] # None => new[q] = Staged(HeadTree[q])
        /\ q \in AtOrBelow(p) /\ HeadTree[q] = None => new[q] = NoEntry
        /\ q \notin AtOrBelow(p) => new[q] = index[q]
  <2>1. \A q \in Paths : new[q] =
          IF q \in AtOrBelow(p) /\ HeadTree[q] # None THEN Staged(HeadTree[q]) ELSE idx[q]
    BY <1>1, RestoreEffect
  <2>2. \A q \in Paths : idx[q] = IF q \in AtOrBelow(p) THEN NoEntry ELSE index[q]
    BY <1>1, RemovePathEffect
  <2> HIDE DEF idx, new
  <2> QED BY <2>1, <2>2
<1>4. SUFFICES ASSUME NEW r \in Tracked(new), NEW q \in Above[r] \cap Tracked(new)
               PROVE  new[q][0] = None
  BY DEF FlatIndex
<1> HIDE DEF idx, new
<1>5. q \in Paths /\ r \in Paths /\ new[q] # NoEntry /\ new[r] # NoEntry
  BY <1>4 DEF Tracked
<1>6. CASE r \notin AtOrBelow(p)
  <2>1. q \notin AtOrBelow(p)
    BY <1>4, <1>5, <1>6, WorkTreeAssumption DEF AtOrBelow, Below
  <2>2. new[q] = index[q] /\ new[r] = index[r]
    BY <1>3, <1>5, <1>6, <2>1
  <2>3. q \in Tracked(index) /\ r \in Tracked(index)
    BY <1>5, <2>2 DEF Tracked
  <2> QED BY <1>4, <2>2, <2>3 DEF FlatIndex
<1>7. CASE r \in AtOrBelow(p)
  <2>1. HeadTree[r] # None
    BY <1>3, <1>5, <1>7
  <2>2. HeadTree[q] = None
    BY <1>2, <1>4, <1>5, <2>1 DEF Flat
  <2>3. q \notin AtOrBelow(p) /\ new[q] = index[q] /\ q \in Tracked(index)
    BY <1>3, <1>5, <2>2 DEF Tracked
  <2>4. q \in Above[p]
    <3>1. r = p \/ p \in Above[r]
      BY <1>7 DEF AtOrBelow, Below
    <3> QED BY <1>4, <1>5, <2>3, <3>1, WorkTreeAssumption DEF AtOrBelow, Below
  <2>5. PICK r0 \in AtOrBelow(p) : r0 \in Tracked(index)
    BY DEF CanUnstage, IsDir, AtOrBelow
  <2>6. q \in Above[r0]
    BY <2>4, <2>5, WorkTreeAssumption DEF AtOrBelow, Below
  <2> QED BY <2>3, <2>5, <2>6 DEF FlatIndex
<1> QED BY <1>6, <1>7

(* What the steps of a command do to the indexes. *)
LEMMA IndexMoves ==
  ASSUME TypeOK, [Next]_vars
  PROVE  /\ \/ UNCHANGED index
            \/ WriteIndex /\ run'.idx = run.idx
            \/ /\ run' = Idle
               /\ \E p \in Paths :
                    \/ index' \in {RemovePath(index, p), AddPath(index, work, p)}
                    \/ Unadd(p)
         /\ \/ run'.idx = run.idx
            \/ run'.idx = index /\ UNCHANGED index
            \/ run' = Idle
            \/ /\ UNCHANGED index
               /\ \E p \in Paths : run'.idx \in {RemovePath(run.idx, p), AddPath(run.idx, work', p)}
<1>1. run \in Running(Len(commits))
  BY DEF TypeOK
<1>2. CASE UNCHANGED vars
  BY <1>2 DEF vars
<1>3. CASE Step
  <2>1. ASSUME NEW p \in Paths, RemoveFile(p) \/ PutFile(p)
        PROVE  /\ UNCHANGED index
               /\ run'.idx \in {RemovePath(run.idx, p), AddPath(run.idx, work', p)}
    BY <1>1, <2>1 DEF RemoveFile, PutFile, Running
  <2>2. CASE (\E p \in Paths : PutFails(p)) \/ CommitFails \/ Return
    BY <2>2 DEF PutFails, CommitFails, Return
  <2>3. CASE ReplaceHead \/ MoveTip \/ RemoveMergeState \/ RecordMergeHead \/ RecordMergeMsg
               \/ CommitMerge
    <3>1. UNCHANGED index /\ Done1
      BY <2>3 DEF ReplaceHead, MoveTip, RemoveMergeState, RecordMergeHead, RecordMergeMsg,
                  CommitMerge
    <3>2. run'.idx = run.idx
      BY <1>1, <3>1 DEF Done1, Running
    <3> QED BY <3>1, <3>2
  <2>4. CASE WriteIndex
    <3>1. run'.idx = run.idx
      BY <1>1, <2>4 DEF WriteIndex, Done1, Running
    <3> QED BY <2>4, <3>1
  <2> QED BY <1>3, <2>1, <2>2, <2>3, <2>4 DEF Step
<1>4. CASE Next /\ ~Step
  <2>1. ASSUME NEW p \in Paths, NEW v, NEW force \in BOOLEAN,
               Edit(p, v) \/ Add(p) \/ Unadd(p) \/ Untrack(p, force)
        PROVE  /\ run' = Idle
               /\ \/ UNCHANGED index
                  \/ index' \in {RemovePath(index, p), AddPath(index, work, p)} \/ Unadd(p)
    BY <2>1 DEF Edit, Add, Untrack, Unadd, WriteIndexOnly, Ready
  <2>2. ASSUME NEW target \in Targets, NEW kind \in Kinds, MergeNew(kind, target)
        PROVE  UNCHANGED index /\ run'.idx = index
    BY <2>2 DEF MergeNew, StartMerge, Start, Idle
  <2>3. ASSUME NEW cmd, NEW force, NEW touch, NEW rm, NEW put, NEW post,
               run' = Start(cmd, force, touch, rm, put, post)
        PROVE  run'.idx = index
    BY <2>3 DEF Start, Idle
  <2>4. ASSUME NEW target \in Targets, NEW force \in BOOLEAN,
               Switch(target, force) \/ Reset(target, force) \/ ResetDir(target, force)
        PROVE  UNCHANGED index /\ run'.idx = index
    BY <2>3, <2>4 DEF Switch, Reset, ResetDir, SwitchDir
  <2>5. ASSUME NEW p \in Paths, NEW force \in BOOLEAN, Remove(p, force) \/ Restore(p)
        PROVE  UNCHANGED index /\ run'.idx = index
    BY <2>3, <2>5 DEF Remove, Restore
  <2>6. CASE (\E target \in Targets, kind \in Kinds : MergeIntoEmpty(kind, target))
               \/ (\E kind \in Kinds : MergeCont(kind)) \/ MergeAbort
    BY <2>3, <2>6 DEF MergeIntoEmpty, MergeCont, MergeAbort, SwitchDir
  <2>7. CASE Commit \/ (\E target \in Targets : ResetAdd(target)) \/ Crash
    BY <2>7 DEF Commit, ResetAdd, Crash
  <2> QED BY <1>4, <2>1, <2>2, <2>4, <2>5, <2>6, <2>7 DEF Next
<1> QED BY <1>2, <1>3, <1>4

LEMMA NestedStep ==
  ASSUME TypeOK, IndexInv, NestedInv, "unadd" \notin user.commands, [Next]_vars
  PROVE  NestedInv'
<1>1. /\ index \in Index /\ run.idx \in Index /\ run.conflicts \in Index
      /\ work \in Files /\ work' \in Files
  BY TypeStep DEF TypeOK, Running
<1>2. Flat(work) /\ Flat(work')
  BY IndexInvStep DEF IndexInv
<1>3. Nested(run'.idx)
  BY <1>1, <1>2, IndexMoves, HelpersKeepOrder, IdleIsFlat, IdleFacts DEF NestedInv
<1>4. Nested(index')
  <2>1. CASE WriteIndex
    <3>1. \A p \in Paths : index'[p] = IF p \in NewConflicts THEN run.conflicts[p] ELSE run.idx[p]
      BY <2>1 DEF WriteIndex, NewConflicts
    <3>2. \A p \in NewConflicts : run.conflicts[p][0] = None
      BY DEF IndexInv
    <3> QED BY <3>1, <3>2, WorkTreeAssumption DEF NestedInv, Nested, Tracked
  <2>2. CASE ~WriteIndex
    <3>1. \A p \in Paths : ~Unadd(p)
      BY DEF Unadd, Ready
    <3> QED BY <1>1, <1>2, <2>2, <3>1, IndexMoves, HelpersKeepOrder DEF NestedInv
  <2> QED BY <2>1, <2>2
<1> QED BY <1>3, <1>4 DEF NestedInv, Nested, Tracked

(* Without unadd, on paths of any depth. *)
NoUnadd == \A s \in Starts : "unadd" \notin s.user.commands

LEMMA CommandsStay ==
  ASSUME TypeOK, [Next]_vars
  PROVE  user'.commands = user.commands
<1>1. UNCHANGED user \/ user' = [user EXCEPT !.edits = @ - 1]
  BY DEF Next, Step, vars, Edit, Add, Unadd, Untrack, WriteIndexOnly, Remove, Restore, Commit,
     ResetAdd, Switch, Reset, ResetDir, MergeNew, MergeIntoEmpty, MergeCont, MergeAbort,
     RemoveFile, PutFile, PutFails, WriteIndex, ReplaceHead, MoveTip, RemoveMergeState,
     RecordMergeHead, RecordMergeMsg, CommitMerge, CommitFails, Return, Crash
<1> QED BY <1>1 DEF TypeOK, Users

(* When nothing is unmerged, no entry is above another, and a tree holds   *)
(* all of the index.                                                       *)
LEMMA NestedKeepsStaged ==
  ASSUME TypeOK, RecordInv, Nested(index)
  PROVE  CommitKeepsStaged
<1> SUFFICES ASSUME run = Idle, ~interrupted, mergeHead = NoMerge, NEW p \in Paths
             PROVE  TreeOfIndex(index)[p] = index[p][0]
  BY DEF CommitKeepsStaged
<1>1. Conflicted(index) = {}
  BY IdleRecord DEF OnRecord
<1>2. ASSUME Above[p] \cap Tracked(index) # {} PROVE index[p][0] = None
  <2>1. p \notin Tracked(index)
    BY <1>1, <1>2 DEF Nested, Conflicted, Tracked
  <2> QED BY <2>1, EntryFacts DEF Tracked
<1> QED BY <1>2 DEF TreeOfIndex

(* CommitKeepsStaged on paths of any depth, as long as nobody calls unadd. *)
THEOREM CommitKeepsStagedDeep ==
  ASSUME NoUnadd
  PROVE  Spec => []CommitKeepsStaged
<1>1. Init /\ TypeOK /\ IndexInv => NestedInv /\ "unadd" \notin user.commands
  <2> SUFFICES ASSUME Init, TypeOK, IndexInv
               PROVE  NestedInv /\ "unadd" \notin user.commands
    OBVIOUS
  <2>1. index = Plain(work) /\ work \in Files /\ Flat(work) /\ run = Idle
    BY DEF Init, TypeOK, IndexInv
  <2>2. "unadd" \notin user.commands
    BY DEF NoUnadd, Init
  <2> QED BY <2>1, <2>2, PlainIsFlat, IdleIsFlat, IdleFacts DEF NestedInv
<1>2. TypeOK /\ IndexInv /\ NestedInv /\ "unadd" \notin user.commands /\ [Next]_vars
      => (NestedInv /\ "unadd" \notin user.commands)'
  BY NestedStep, CommandsStay
<1>3. TypeOK /\ RecordInv /\ NestedInv => CommitKeepsStaged
  BY NestedKeepsStaged DEF NestedInv
<1> QED BY <1>1, <1>2, <1>3, IndexInvariants, PTL DEF Spec
-----------------------------------------------------------------------------
(* With unadd, on paths of two levels, as in the runs. *)
TwoLevels == \A p \in Paths : \A q \in Above[p] : Above[q] = {}

(* A conflict below another path is one that diff3 or a deletion left, so  *)
(* that migrate writes the path before it is marked.                       *)
LEMMA MergeWritesConflicts ==
  ASSUME TypeOK, TwoLevels, NEW kind, NEW source \in Commits, NEW base \in Commits,
         NEW failed3 \in SUBSET ForDiff3(TreeOf(base), HeadTree, TreeOf(source)),
         StartMerge(kind, source, base, failed3),
         NEW p \in NewConflicts', Above[p] # {}
  PROVE  run'.touch /\ run'.put[p] # None
<1> DEFINE b == TreeOf(base)
           t == HeadTree
           s == TreeOf(source)
           clash == Clash(b, t, s) \cup Clash(b, s, t)
           conflicts == failed3 \cup Disputes(b, t, s) \cup clash
           touched == Changed(b, s) \ {q \in Changed(b, t) : t[q] = s[q]}
           rm == Clash(b, t, s) \cup {q \in touched \ clash : Merged(b, t, s, q) = None}
           put == [q \in Paths |-> IF q \in touched \ clash THEN Merged(b, t, s, q) ELSE None]
           marks == [q \in Paths |-> IF q \in conflicts
                                     THEN Unmerged(b[q], t[q], s[q]) ELSE NoEntry]
<1>1. run'.conflicts = marks /\ run'.put = WithOurSides(rm, put) /\ run'.touch = TRUE
  BY Zenon DEF StartMerge, Start, Idle
<1>2. p \in Paths /\ p \in conflicts
  BY <1>1 DEF NewConflicts
<1>3. p \notin clash
  <2>1. clash \subseteq {q \in Paths : \E r \in Paths : q \in Above[r]}
    BY DEF Clash, Changed
  <2> HIDE DEF clash
  <2> QED BY <2>1 DEF TwoLevels
<1>4. p \in BothChanged(b, t, s)
  BY <1>2, <1>3 DEF BothWrote, ForDiff3, Disputes
<1> HIDE DEF b, t, s
<1>5. p \in touched /\ t[p] # s[p] /\ p \in Changed(b, t)
  BY <1>4 DEF BothChanged
<1>6. Merged(b, t, s, p) # None
  <2>1. b[p] \in Values /\ t[p] \in Values /\ s[p] \in Values
    BY <1>2, HeadTypes DEF Files, Values, b, t, s
  <2>2. p \in BothWrote(b, t, s) => MergedFile(b[p], t[p], s[p]) # None
    BY <2>1, MergedFileTypes, WorkTreeAssumption DEF BothWrote, Values
  <2> QED BY <1>4, <1>5, <2>2 DEF Merged, BothWrote
<1>7. put[p] # None
  BY <1>2, <1>3, <1>5, <1>6
<1> HIDE DEF put, rm
<1> QED BY <1>1, <1>2, <1>7 DEF WithOurSides

LEMMA FlatConflictsStep ==
  ASSUME TypeOK, IndexInv, FlatInv, TwoLevels, [Next]_vars,
         NEW p \in NewConflicts', Above[p] # {}
  PROVE  /\ run'.touch
         /\ \/ run'.put[p] # None
            \/ /\ run'.rm = {} /\ work'[p] # None
               /\ \A q \in Above[p] : run'.idx[q][0] = None
<1>1. /\ run \in Running(Len(commits)) /\ run.put \in Files /\ run.idx \in Index
      /\ work \in Files /\ work' \in Files /\ Flat(work')
  BY TypeStep, IndexInvStep DEF TypeOK, Running, IndexInv
<1>2. run' # Idle
  BY IdleFacts
<1>3. ASSUME NEW cmd, NEW force, NEW touch, NEW rm, NEW put, NEW post,
             run' = Start(cmd, force, touch, rm, put, post)
      PROVE  FALSE
  BY <1>3, StartFacts
<1>4. ASSUME p \in NewConflicts
      PROVE  /\ run.touch
             /\ \/ run.put[p] # None
                \/ /\ run.rm = {} /\ work[p] # None
                   /\ \A q \in Above[p] : run.idx[q][0] = None
  BY <1>4 DEF FlatInv
<1>5. ASSUME NEW q \in Paths, RemoveFile(q)
      PROVE  run'.touch /\ run'.put[p] # None
  <2>1. run'.put = run.put /\ run'.touch = run.touch /\ run'.conflicts = run.conflicts
        /\ run.rm # {}
    BY <1>1, <1>5 DEF RemoveFile, Running
  <2> QED BY <1>4, <2>1 DEF NewConflicts
<1>6. ASSUME NEW q \in Paths, PutFile(q), p \in NewConflicts
      PROVE  /\ run'.touch
             /\ \/ run'.put[p] # None
                \/ /\ run'.rm = {} /\ work'[p] # None
                   /\ \A a \in Above[p] : run'.idx[a][0] = None
  <2>1. run'.put = [run.put EXCEPT ![q] = None] /\ run'.touch = run.touch /\ run'.rm = {}
        /\ run'.idx = AddPath(run.idx, work', q) /\ run.touch
    BY <1>1, <1>4, <1>6 DEF PutFile, Running
  <2>2. p \in Paths /\ \A a \in Above[p] : a \in Paths /\ a # p
    BY WorkTreeAssumption DEF NewConflicts
  <2>3. CASE q # p /\ run.put[p] # None
    BY <1>1, <2>1, <2>2, <2>3 DEF Files
  <2>4. CASE q = p \/ run.put[p] = None
    <3>1. work'[p] # None
      BY <1>4, <1>6, <2>1, <2>2, <2>4, PutFileWork
    <3>2. ASSUME NEW a \in Above[p] PROVE run'.idx[a][0] = None
      <4>1. a \notin FilesAt(work', q)
        BY <1>1, <2>2, <3>1 DEF Flat, FilesAt
      <4>2. CASE run'.idx[a] = NoEntry
        BY <4>2, EntryFacts
      <4>3. CASE run'.idx[a] # NoEntry
        <5>1. a \in Paths \ FilesAt(work', q) /\ AddPath(run.idx, work', q)[a] # NoEntry
          BY <2>1, <2>2, <4>1, <4>3
        <5>2. /\ AddPath(run.idx, work', q)[a] = run.idx[a]
              /\ \A f \in FilesAt(work', q) : a \notin Above[f]
          BY <1>1, <1>6, <5>1, AddPathEffect
        <5>3. q # p
          BY <2>2, <3>1, <5>2 DEF FilesAt, AtOrBelow
        <5> QED BY <1>4, <1>6, <2>1, <2>4, <5>2, <5>3
      <4> QED BY <4>2, <4>3
    <3> QED BY <2>1, <3>1, <3>2
  <2> QED BY <2>3, <2>4
<1>7. ASSUME UNCHANGED work, run'.rm = run.rm, run'.put = run.put, run'.idx = run.idx,
             run'.touch = run.touch, run'.conflicts = run.conflicts
      PROVE  /\ run'.touch
             /\ \/ run'.put[p] # None
                \/ /\ run'.rm = {} /\ work'[p] # None
                   /\ \A q \in Above[p] : run'.idx[q][0] = None
  BY <1>4, <1>7 DEF NewConflicts
<1>8. ASSUME NEW target \in Targets, NEW kind \in Kinds, MergeNew(kind, target)
      PROVE  run'.touch /\ run'.put[p] # None
  <2>1. PICK base \in Bases(kind, HeadCommit, Resolve(target)) :
          \E failed3 \in SUBSET ForDiff3(TreeOf(base), HeadTree, TreeOf(Resolve(target))) :
            StartMerge(kind, Resolve(target), base, failed3)
    BY <1>8 DEF MergeNew
  <2>2. Resolve(target) \in Commits /\ base \in Commits
    BY <2>1, HeadTypes, BasesTypes
  <2> QED BY <2>1, <2>2, MergeWritesConflicts
<1>9. CASE UNCHANGED vars
  BY <1>7, <1>9 DEF vars
<1>10. CASE Step
  <2>1. CASE (\E q \in Paths : PutFails(q)) \/ CommitFails \/ Return
    BY <1>2, <2>1 DEF PutFails, CommitFails, Return
  <2>2. CASE WriteIndex \/ ReplaceHead \/ MoveTip \/ RemoveMergeState \/ RecordMergeHead
               \/ RecordMergeMsg \/ CommitMerge
    <3>1. UNCHANGED work /\ Done1
      BY <2>2 DEF WriteIndex, ReplaceHead, MoveTip, RemoveMergeState, RecordMergeHead,
                  RecordMergeMsg, CommitMerge
    <3> QED BY <1>1, <1>7, <3>1 DEF Done1, Running
  <2>3. ASSUME NEW q \in Paths, PutFile(q) PROVE p \in NewConflicts
    BY <1>1, <2>3 DEF PutFile, Running, NewConflicts
  <2> QED BY <1>5, <1>6, <1>10, <2>1, <2>2, <2>3 DEF Step
<1>11. CASE Next /\ ~Step
  <2>1. ASSUME NEW q \in Paths, NEW v, NEW force \in BOOLEAN,
               Edit(q, v) \/ Add(q) \/ Unadd(q) \/ Untrack(q, force)
        PROVE  FALSE
    BY <1>2, <2>1 DEF Edit, Add, Unadd, Untrack, WriteIndexOnly, Ready
  <2>2. ASSUME NEW q \in Paths, NEW force \in BOOLEAN, Remove(q, force) \/ Restore(q)
        PROVE  FALSE
    BY <1>3, <2>2 DEF Remove, Restore
  <2>3. ASSUME NEW target \in Targets, NEW force \in BOOLEAN,
               Switch(target, force) \/ Reset(target, force) \/ ResetDir(target, force)
        PROVE  FALSE
    BY <1>3, <2>3 DEF Switch, Reset, ResetDir, SwitchDir
  <2>4. CASE Commit \/ (\E target \in Targets : ResetAdd(target)) \/ Crash
    BY <1>2, <2>4 DEF Commit, ResetAdd, Crash, Ready
  <2>5. CASE (\E target \in Targets, kind \in Kinds : MergeIntoEmpty(kind, target))
               \/ (\E kind \in Kinds : MergeCont(kind)) \/ MergeAbort
    BY <1>3, <2>5 DEF MergeIntoEmpty, MergeCont, MergeAbort, SwitchDir
  <2> QED BY <1>8, <1>11, <2>1, <2>2, <2>3, <2>4, <2>5 DEF Next
<1> QED BY <1>9, <1>10, <1>11

LEMMA FlatStep ==
  ASSUME TypeOK, IndexInv, FlatInv, TwoLevels, [Next]_vars
  PROVE  FlatInv'
<1>1. /\ index \in Index /\ run.idx \in Index /\ run.conflicts \in Index
      /\ work \in Files /\ work' \in Files /\ run.put \in Files
  BY TypeStep DEF TypeOK, Running
<1>2. Flat(work) /\ Flat(work')
  BY IndexInvStep DEF IndexInv
<1>3. FlatIndex(run'.idx)
  BY <1>1, <1>2, IndexMoves, HelpersKeepOrder, IdleIsFlat, IdleFacts DEF FlatInv
<1>4. FlatIndex(index')
  <2>1. CASE WriteIndex
    <3>1. \A p \in Paths : index'[p] = IF p \in NewConflicts THEN run.conflicts[p] ELSE run.idx[p]
      BY <2>1 DEF WriteIndex, NewConflicts
    <3>2. \A p \in NewConflicts : run.conflicts[p][0] = None
      BY DEF IndexInv
    <3>3. ToDo = {}
      BY <2>1, MigratingFacts DEF WriteIndex, Next1
    <3>4. \A p \in NewConflicts : \A q \in Above[p] : run.idx[q][0] = None
      BY <3>3 DEF FlatInv, ToDo, NewConflicts
    <3> QED BY <3>1, <3>2, <3>4, WorkTreeAssumption DEF FlatInv, FlatIndex, Tracked
  <2>2. ASSUME NEW p \in Paths, Unadd(p) PROVE FlatIndex(index')
    <3>1. CanUnstage(p) /\ index' = RestoreToIndex(RemovePath(index, p), p)
      BY <2>2 DEF Unadd, WriteIndexOnly
    <3> QED BY <3>1, UnaddKeepsOrder DEF FlatInv
  <2>3. CASE ~WriteIndex /\ \A p \in Paths : ~Unadd(p)
    BY <1>1, <1>2, <2>3, IndexMoves, HelpersKeepOrder DEF FlatInv
  <2> QED BY <2>1, <2>2, <2>3
<1> QED BY <1>3, <1>4, FlatConflictsStep DEF FlatInv, FlatIndex, Tracked

(* CommitKeepsStaged on paths of two levels, whatever the user does. *)
THEOREM CommitKeepsStagedFlat ==
  ASSUME TwoLevels
  PROVE  Spec => []CommitKeepsStaged
<1>1. Init /\ TypeOK /\ IndexInv => FlatInv
  <2> SUFFICES ASSUME Init, TypeOK, IndexInv PROVE FlatInv
    OBVIOUS
  <2>1. index = Plain(work) /\ work \in Files /\ Flat(work) /\ run = Idle
    BY DEF Init, TypeOK, IndexInv
  <2> QED BY <2>1, PlainIsFlat, IdleIsFlat, IdleFacts DEF FlatInv
<1>2. TypeOK /\ IndexInv /\ FlatInv /\ [Next]_vars => FlatInv'
  BY FlatStep
<1>3. TypeOK /\ RecordInv /\ FlatInv => CommitKeepsStaged
  <2>1. FlatIndex(index) => Nested(index)
    BY DEF FlatIndex, Nested
  <2> QED BY <2>1, NestedKeepsStaged DEF FlatInv
<1> QED BY <1>1, <1>2, <1>3, IndexInvariants, PTL DEF Spec
=============================================================================
