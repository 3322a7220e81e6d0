----------------------------- MODULE MCWorkTree -----------------------------
(* Instances of WorkTree for TLC. *)
EXTENDS WorkTree

CONSTANTS t1, t2, main, topic

MCTexts == {t1, t2}

File(text, mode) == [text |-> text, mode |-> mode]
b1 == File(t1, "regular")
b2 == File(t2, "regular")
x1 == File(t1, "executable")
l1 == File(t1, "link")

(* A file a where another tree has a directory with two files. *)
MCPaths == {"a", "a/b", "a/c"}
MCAbove == [p \in MCPaths |-> IF p = "a" THEN {} ELSE {"a"}]
MCBranches == {main, topic}

Trees ==
  {t \in [MCPaths -> {b1, b2, None}] :
     \A p \in MCPaths : t[p] # None => \A q \in MCAbove[p] : t[q] = None}

MCTree(a, ab, ac) ==
  [p \in MCPaths |-> CASE p = "a" -> a [] p = "a/b" -> ab [] p = "a/c" -> ac]

User(commands, edits) ==
  [commands |-> commands, blobs |-> {b1, b2}, edits |-> edits]

Root(tree) == [tree |-> tree, parents |-> <<>>]
Child(tree) == [tree |-> tree, parents |-> <<1>>]

OnMain == <<"ref", main>>

(* main and topic, each one commit after a common one. *)
Fork(base, ours, theirs, may) ==
  [commits |-> <<Root(base), Child(ours), Child(theirs)>>,
   refs |-> [b \in MCBranches |-> IF b = main THEN 2 ELSE 3],
   head |-> OnMain, user |-> may]

Pair(ours, theirs, may) ==
  [commits |-> <<Root(ours), Child(theirs)>>,
   refs |-> [b \in MCBranches |-> IF b = main THEN 1 ELSE 2],
   head |-> OnMain, user |-> may]

(* HEAD names a branch without commits. *)
Unborn(theirs, may) ==
  [commits |-> <<Root(theirs)>>,
   refs |-> [b \in MCBranches |-> IF b = main THEN 0 ELSE 1],
   head |-> OnMain, user |-> may]

(* One merge or cherry-pick after another, from every fork. *)
Merging == User({"merge", "pick"}, 0)

AllForks ==
  {Fork(x, y, z, Merging) : x \in Trees, y \in Trees, z \in Trees}
    \cup {Unborn(x, Merging) : x \in Trees}

(* A merge with a content conflict at a/b beside a file only one side      *)
(* changes, or with a file against a directory, and everything a user may  *)
(* do to resolve it.                                                       *)
Resolving ==
  User({"edit", "add", "unadd", "untrack", "rm", "restore", "commit",
        "merge", "pick", "continue", "abort"}, 1)

Conflicts ==
  {Fork(MCTree(None, None, b1), MCTree(None, b1, b1), MCTree(None, b2, b2), Resolving),
   Fork(MCTree(None, None, None), MCTree(b1, None, None), MCTree(None, b1, b2), Resolving)}

(* Moving HEAD around such a merge, with commands that get killed. *)
Moving ==
  User({"reset-add", "switch", "reset", "reset-dir", "merge", "continue", "abort",
        "crash"}, 0)

KilledConflicts ==
  {Fork(MCTree(None, b1, None), MCTree(None, b2, None), MCTree(None, None, None), Moving),
   Fork(MCTree(None, None, None), MCTree(b1, None, None), MCTree(None, b1, None), Moving)}

(* Every text and mode of one file, on both sides and in the base. *)
Modal == {None, b1, b2, x1, File(t2, "executable"), l1}

ModeForks ==
  {Fork(MCTree(x, None, None), MCTree(y, None, None), MCTree(z, None, None), Merging) :
     x \in Modal, y \in Modal, z \in Modal}

MergeStarts == AllForks \cup Conflicts \cup KilledConflicts \cup ModeForks

(* Switching between two branches with an edit, staged or not, in the way: *)
(* in topic a or a/b has one of two contents, in main one content.         *)
Switching == User({"edit", "add", "rm", "switch"}, 1)
Resetting == User({"edit", "add", "reset-dir"}, 1)

Contains(tree, blob) == \E p \in MCPaths : tree[p] = blob

(* Between modes and links, with a link or an executable file made by the  *)
(* user in the way.                                                        *)
ModeSwitching == [User({"edit", "add", "switch"}, 1) EXCEPT !.blobs = {b2, x1, l1}]

ModePairs ==
  {Pair(MCTree(None, x, b1), MCTree(None, y, z), ModeSwitching) :
     x \in {None, b1, x1, l1}, y \in {None, b2, x1, l1}, z \in {None, b1, b2}}

(* A directory replaced by a file, which is edited again once staged. *)
Replacing == [User({"edit", "add", "rm", "switch"}, 3) EXCEPT !.blobs = {b2, x1}]
Replaced == Pair(MCTree(None, b1, None), MCTree(None, None, None), Replacing)

SwitchStarts ==
  {Pair(x, y, may) : x \in {t \in Trees : ~Contains(t, b2)},
                     y \in {t \in Trees : t["a/c"] # b2}, may \in {Switching, Resetting}}
    \cup ModePairs \cup {Replaced}

MCStarts == MergeStarts \cup SwitchStarts

OnlyReplaced == {Replaced}

(* A file that is executable in topic alone. *)
OnlyModes == {Pair(MCTree(None, b1, None), MCTree(None, x1, None), User({"switch", "edit"}, 1))}
=============================================================================
