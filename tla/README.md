# repomofo in TLA+

repomofo is an implementation of git in Go: a package with the operations on a
repository (`repo.go` and the files it calls), a command line around it, and
the server sides of fetch and push. This directory holds its verification
project: TLA+ modules that model the parts whose behaviour is hard to test,
configurations for the model checker TLC, and proofs for TLAPS.

`PROJECT.json` lists the components, the runs, the mutants that show that every
checked property can fail, the source lines behind every definition, the
findings, the hazards and the theorems.

## The system

| Component | State it keeps | Operations | Hard to get right |
|---|---|---|---|
| Lock files (`fs.go`) | `<file>`, `<file>.lock` | open, write, `Close` (rename or remove) | overlapping commands, killed commands, failed writes |
| Refs, branches, tags (`ref.go`, `branch.go`, `tag.go`) | `HEAD`, `refs/**`, `packed-refs` | read and write through symbolic refs, add, remove | check and write are separate steps |
| Index (`index.go`) | `.git/index`: path -> stages 0..3 | `AddPath`, `RemovePath`, `addConflictEntries`, `Write` | files against directories, unmerged entries |
| Work dir commands (`workdir.go`, `repo.go`) | index, work dir, HEAD | add, unadd, untrack, rm, restore, switch, reset, reset-dir, reset-add | unsaved work, partial failure, order of writes |
| Merge (`merge.go`) | the above, `MERGE_HEAD` or `CHERRY_PICK_HEAD`, `MERGE_MSG` | new, continue, abort | merge base, conflicts, record of an unfinished merge |
| Commits, trees (`object.go`, `tree.go`) | immutable objects | `writeCommit`, `treeDiff`, object iteration | what a commit leaves out, graph walks |
| Object stores, packs (`object_file.go`, `object_memory.go`, `pack.go`) | loose objects, packs | read, write, iterate, deltas | delta chunks at buffer boundaries |
| Diff, diff3 (`diff.go`) | none | Myers search, diff3 chunks | boundaries, empty files |
| Upload-pack (`net_server_upload_pack.go`) | one session | wants, haves, acks, shallow | negotiation, shallow boundary |
| Receive-pack (`net_server_receive_pack.go`) | one session, refs | ref updates, deny policies, updateInstead | concurrent pushes, partial success |
| pkt-line (`net_server_pkt.go`) | none | frame, side band | lengths |
| Config (`config.go`) | `config` | parse, add, remove, write | escapes, write errors |
| Hash, HTTP backend, command line, signing | none | | input and output |

Components meet in the files under `.git`. Every command is a process of its
own: it reads the refs and the index, works on copies, and replaces files one
after the other through lock files. Nothing else orders two commands. Merge
calls `commonAncestor`, `treeDiff`, diff3, `migrate` and `writeCommit`;
switch and the resets call `treeDiff`, `migrate` and `writeRefRecur`;
receive-pack with updateInstead calls `ResetDir`.

What makes them correct:

* lock files: a reader sees the old content or the new one; a file left by a
  killed command blocks nobody;
* merge base: the best common ancestor, if there is just one;
* index and commit: a commit holds what is staged, and unmerged paths are not
  dropped silently;
* switch, reset, rm: without `-f` nothing that is only in the work dir is lost;
  afterwards index and work dir are the target's (both with exceptions in this
  code, see Findings);
* merge: the three-way result at every path, a conflict only where both sides
  disagree, and conflicts on record until they are resolved;
* diff and diff3: edit scripts are right and shortest, no line of a text is lost
  or taken twice, changes apart from each other merge without a conflict, and
  the reader gets the merged text whatever the size of its buffer;
* receive-pack: a ref names only objects whose whole history is there, a ref
  update is accepted only as its policy says as far as the server knows what the
  ref was, the report is true, and the checkout of a non-bare repository stays in step with HEAD;
* upload-pack: a client gets every object it needs, the server is ready or
  acknowledges an object only for a reason, and what the client sees afterwards
  is cut exactly where its depth, date or refs put the boundary.

## The modules

`AtomicFile` is the promise of `lockFile`: a file with one complete content,
replaced in one step. `LockFile` is the code: directory entries, inodes,
descriptors. One action per system call of `newLockFile`, of the caller's write
and of `Close`. `Procs` are commands; `Kinds` tells refs and objects ("ref")
from the index, whose `Write` truncates the open file again. A content is a
sequence of cells tagged with the value they belong to, so that a mix of two
contents is visible. `Concurrent` and `Faults` say whether commands overlap and
whether they are killed or fail. `LockFileProofs` holds the theorems.

`History` is the commit graph with its ancestors and best common ancestors.
Commits are numbered and parents have smaller numbers. `CommonAncestor` is
`commonAncestor` with `getDescendent`, one action per branch of their loops; the
queue is a bag and the heap may return any of the youngest entries.
`CommonAncestorProofs` holds the theorems.

`WorkTree` is the working copy of one repository: objects, refs, HEAD, index,
work dir, the record of an unfinished merge, and all commands that move content
between them. `repo.go`'s methods are the actions:

| Code | Actions |
|---|---|
| `addPaths`, `unaddPaths`, `removePaths` | `Add`, `Unadd`, `Untrack`, `Remove` |
| `restore` | `Restore`, then `PutFile` |
| `writeCommit` | `Commit`, and `CommitMerge`, `CommitFails` in a merge |
| `switchDir` with `migrate` | `Switch`, `Reset`, `ResetDir`, then `RemoveFile`, `PutFile`, `PutFails`, `ReplaceHead` or `MoveTip`, `RemoveMergeState`, `WriteIndex` |
| `ResetAdd` | `ResetAdd` |
| `Merge`, new | `MergeNew` or `MergeIntoEmpty`, the steps of `migrate`, `WriteIndex`, then `RecordMergeHead` and `RecordMergeMsg`, or `MoveTip`, or `CommitMerge` |
| `Merge`, continue and abort | `MergeCont` then `RemoveMergeState`, `CommitMerge`; `MergeAbort` then the steps of `switchDir` |

A command that writes several files computes its plan in one action, from the
state it reads, and puts it in `run`: the files to remove (`rm`) and to write
(`put`), the index in memory (`idx`) and the writes that follow, in the order of
the code (`post`). `Crash` drops `run` between any two steps. `last` and
`interrupted` are history variables of the properties. The theorems are in
`WorkTreeProofs` (types, unsaved work, index and commits) and
`WorkTreeMergeProofs` (switch and merge), which extends it. The `MC` modules give the constants their values.

`ObjectGraph` is what objects name: commits their parents and tree, tags their
target. `ObjectIterator` is the walk over it: a queue with depths, what is
excluded, one `Step` per round of `Next`, to the end with `Walked`. The theorems
about walks are in `UploadPackProofs`, which needs them.

`ReceivePack` is one repository with its refs, loose and packed, its store, a
number of pushes and one local user. A push is a session record whose `step`
tells where `ReceivePack` (the Go function) is:

| Code | Actions |
|---|---|
| `advertiseRefs`, `readRefUpdates` | `AdvertiseRefs`, `ReadRefUpdates` |
| `CopyFromPackIterator` | `Unpack`, `UnpackFails` |
| `executeRefUpdates` | `CheckConnectivity`, `FindAlias` for one update after the other, `ReadHead`, then the updates one by one, with `PassOver` for those refused before |
| `applyRefUpdate` | `Refuse`; `ResetWorkTree` or `ResetFails` under updateInstead; `UpdateRef` or `UpdateFails` |
| the report | `Report` |
| `AddBranch`, `RemoveBranch`, `AddTag`, `RemoveTag`, `writeCommit`, `Switch` | a step that reads and checks (`AddBranchCheck`, `AddBranchRead`, `RemoveBranchCheck`, `RemoveTag`, `AddTagObject`, `CommitObject`) and a later one that writes (`WriteRef`, `UpdateHead`, `RemoveFile`); `Switch` is one step |

What a push has been told (`seen`), the HEAD it has read (`head`) and the checks
it has made are of the past when it writes. `applyRefUpdate`'s checks up to its
first write are one step, since they read only immutable objects and what the
push holds already. `ReceivePackProofs` holds the theorems.

`UploadPack` is a session of fetch. The client is the environment; a step is one
request or one line of negotiation, and `reply` holds the lines the server
answers with:

| Code | Actions |
|---|---|
| `uploadPack` | `AdvertiseRefs`, `PeekFlush`, `HangUp` |
| `receiveNeeds`, `sendShallowList`, `deepen`, `deepenByRevList`, `sendUnshallow` | `ReceiveNeeds` with `SendShallowList`, `Deepened` (`DeepenedToLevel` unless the depth is infinite), `Recent`, `Frontier`, `WantedToo` |
| `getCommonCommits` | `HaveCommon`, `HaveOther`, `Flush`, `Done` |
| `writePack` | `WritePack`, or in `FetchPack` |
| `protocolV2AdvertiseCapabilities`, `processV2Request` | `AdvertiseCapabilities`, `Request`, `EndRequests` |
| `lsRefs`, `objectInfo` | `LsRefs`, `ObjectInfo` |
| `uploadPackV2`, `sendAcksV2` | `Fetch`: `FetchRefused`, `FetchNothing`, `FetchRound`, `FetchPack` |

What a request may hold is `Asked`. `UploadPackProofs` holds the theorems.

`Myers` is `myersDiffIterator` as functions: the search for a middle snake
(`Search`, one `Probe` per diagonal), the splits and ranges (`DiffStep`), the
edits (`Edits`) and the matches `get` reads off them (`Matches`). `Diff3` is the
merge of one file: `NextChunk` is `diff3Iterator.next`, and `ReadChunk`,
`FinishLine`, `FillBuffer` and `NoMoreChunks` are the rounds of
`diff3Stream.readStep` for a reader with a buffer of `bufSize` bytes.
`MyersProofs` holds the theorems about two texts, `Diff3Proofs`, which extends
it, those about the merge.

### Abstractions of WorkTree

* A file is a text and a mode: regular, executable or a symbolic link, whose
  text is what it says it leads to. diff3's text is one value, `MergedText`, and
  whether it conflicts is a choice.
* `objectToFile` opens a regular file that exists without changing its mode, and
  `AddPath` stages the mode on disk: `PutFile` keeps the mode (`KeepsMode`). It
  writes through a symbolic link that stands where a regular file has to be
  (`Follows`); what the link leads to is a choice between no file of the work dir
  and any of its files (`WriteThrough`), and the write may fail. No link leads to
  a directory, and what is written is seen through no second link. Windows, where
  links are written as regular files, is left out.
* Trees, index and work dir are total functions on `Paths`, which has the
  directories that lead to its files as well, so that a file may stand in the
  place of any; a directory exists when a file below it does. Empty directories
  are not represented: those a removal leaves are gone, and of the names above a
  removed path `os.Remove` takes away just a file that stands right there
  (`Without`).
* One command runs at a time and the user edits between commands. Commands
  take one path (the code takes several and applies them one by one), directories
  recursively, and `commit` never `--allow-empty`; `merge --continue` takes the
  message of `MERGE_MSG`.
* The renamed copy `<path>~<branch>` of a file/directory conflict, an untracked
  file, is left out. A file of the work dir is written in one step.
* `removeMergeState` removes its three files in one step.
* The stat cache is exact: a file differs from its entry when its content does.
* The merge base is the best common ancestor if there is one, as the runs of
  `CommonAncestor` show for the code.

### Abstractions of the others

* Objects are named by their content, so the graph is a constant and a
  repository only has more or fewer objects of it. Loose objects and packs are
  one set.
* A pack is the set of its objects. What a client's pack lacks is any subset of
  `MayMiss`; whatever a damaged one held before the damage may be stored.
* The old values a push names are those the server announced, as git's clients
  send them, also where it names a ref twice; `ReportIsTrue` then is about the last
  update of the ref. Of the refs only HEAD is symbolic to start with. Refs are
  written in one step; `LockFile` has the details, and its findings apply to refs
  written at the same time. `UploadPack` reads the refs as of the start of the session.
* A commit of the local user stands for one with its work dir committed
  entirely; `checkout` is the commit whose files index and work dir have.
* In `UploadPack` requests are well-formed, filters are ignored as `writePack`
  ignores them, and a walk over Go's maps is in some fixed order, which no
  answer depends on but for the order of its lines.
* In `Diff3` a line is an identity and a size in bytes. A file is no text when it
  has more than `MaxLineCount` lines, or one that is too long or no UTF-8, which
  is a property of the line.
* `InfiniteDepth` stands for Go's `math.MaxInt`: all that is asked of it is that
  no history has as many levels.

## Runs

All are `tlc -config <run>.cfg <module>` and take two minutes at most.

| Run | Question | Bounds |
|---|---|---|
| `LockFileSerial` | With commands one at a time that may be killed or fail: is the file always whole (`NeverTorn`), does it implement `AtomicFile`, does every command end although locks are left behind (`StaleLockNeverBlocks`)? Yes. | two commands, both kinds, contents of two lengths, four inodes (the file, the lock, one per descriptor) |
| `LockFileOverlap` | With overlapping commands that are not killed: is the file whole when all are done? Yes. | three commands, two object ids, five inodes |
| `LockFileTorn` | With overlapping commands: is the file always whole? No (see Findings). | two commands |
| `CommonAncestor` | Is the base the best common ancestor, is an error given only when there is no unique one, does every call return? Yes. | every graph of five commits with every assignment of two time stamps, every graph of six commits whose clock runs forwards |
| `CommonAncestorTies` | The same with seven commits in one second. No (see Findings). | one graph |
| `WorkTree` | Do merges give the three-way result (`MergeIsThreeWay`), are conflicts on record (`UnmergedIsOnRecord`), does the next commit hold what is staged (`CommitKeepsStaged`)? Does a switch arrive exactly at its target but for modes that are kept (`SwitchIsExact`), and without `-f` never lose a file that is not in the index, with the exceptions the property names (`UnforcedKeepsWork`)? Yes. | all triples of trees on `a`, `a/b`, `a/c` with two contents, with merges only; every base, ours and theirs of one file out of two texts and both modes, a link and no file; two conflicts with one edit and all index commands; two with commands killed anywhere; all pairs of trees up to the names of contents with one edit, add, rm and switch, or add and reset-dir, with and without `-f`; pairs that differ in the mode of a file or have links, with a link or an executable file of the user in the way; three edits where a directory gets replaced by a file (`Replaced`) |
| `ReceivePack` | Whatever order two pushes and a local command come in, overlapping or not, and whatever packs lack or writes fail: does every ref name a connected object (`RefsAreConnected`), does the checkout stay in step with HEAD (`CheckoutInStep`), do pushes only fast-forward branches whose value was announced (`FastForwardOnly`), does the branch of HEAD survive (`CurrentBranchSurvives`), is what is reported as ok true (`ReportIsTrue`), is every push answered (`PushEnds`)? Yes, within the limits the properties name. | two pushes of one or two updates each out of four requests, one local command, seven configurations each with one to four repositories, three commits with a tree and a tag |
| `UploadPack` | Is a pack complete (`PackIsComplete`), is the server ready only when every want has a common ancestor with the client (`ReadyIsJustified`), does it acknowledge an object it lacks only to say that it has heard enough (`AcksAreJustified`), are walks exact, is the boundary right for depths (`DepthIsExact`) and for dates and refs (`CutIsClean`)? Yes. | eight objects with a merge, a tag, a tree, a commit only the client has and a clock that runs backwards; v0 with every set of capabilities and three lines of negotiation, v2 with three requests, also such that name haves, an old boundary and a depth at once; depths 1 to 3 and infinite (one more than there are commits), four old boundaries, three dates, refs left out |
| `Diff3` | Are edit scripts shortest, do chunks tile the three texts, do separate changes merge without a conflict, does the reader get the merged lines, does reading end? Yes, but for buffers a line ends with (see below). | every base, target and source of up to three lines of two kinds, all short texts around a line they share, a base there is none of, binary files and one with a line too many (`MaxLineCount` is 7), and the texts of `TestMyersDiff` and `TestDiff3`; buffers of 2, 5 and 64 bytes, lines of 0 to 3 |
| `WorkTreeModes` | Does a switch from a clean checkout leave the target's files, modes included? No (see Findings). | one repository, one edit |
| `WorkTreeParents` | Does removing a path take nothing away but the path and directories? No (see Findings). | one repository, three edits |
| `ReceivePackRewind` | With denyNonFastForwards, does every push leave a branch at a descendant of what it was? No (see Findings). | the pushes of `ReceivePack`, branches that are in `packed-refs` only |

The interesting cases need few values. A torn file needs two writers, and a
lock shared by more than two needs a third. A file and a directory of the same
name need a path above another, and a sibling to see what `RemovePath` takes
along; the two contents tell changed on one side from changed on both. A mode
that is kept takes a file in both trees, and a file unlinked with a directory's
path takes three edits: the directory's file removed, the file put in its place,
and the file changed after it was staged. Two best common ancestors take four
commits, a worse candidate that has to be folded away takes five. What the bounds
miss is listed under the hazards: three levels of directories break `CommitKeepsStaged`,
since a merge over a staged file leaves a conflict below that file and `unadd`
then restores what HEAD has below the conflict.

Two pushes are what it takes for one to move what another has been told of, and
a third process, the user, for HEAD to move between a push's check and its
write. The properties of `ReceivePack` that speak of one push at a time say so
(`config.overlap`); overlapping commands do break them, since old values are
never compared with the ref and HEAD is read once. A boundary that goes wrong
takes a merge with a side of another length, and a clock that runs backwards
takes one old commit among younger ones. A diff of three lines splits hardly
more than once; the texts of the tests make it split again and again.

`CHECK_DEADLOCK FALSE` is set for `ReceivePack`, `UploadPack` and `Diff3`, whose
pushes, sessions and merges end, for `CommonAncestor`, a call that returns, and
for `WorkTree`, where a user may run out of edits and of commands that change
anything.

### Fairness

`LockFile` assumes weak fairness of every process that is not killed: the
operating system schedules it, and no step of the code waits for another
process. Starting and killing commands is not fair. `CommonAncestor` assumes
that its one sequential call keeps running. A server process of `ReceivePack`
keeps running once it has read the request, and so does a local command; nothing
in either waits for another process. A client may go away after the
advertisement, and no user has to do anything. `Diff3` has one reader, which
reads until it is told the end. `WorkTree` and `UploadPack`, where it is the
client's turn after every answer, have safety properties only and assume
nothing.

## Proofs

Every theorem holds for all values of the constants that the named assumptions
allow. The invariant a theorem needs was checked by TLC before it was proved.
What a theorem asks beyond the assumptions of its module stands in its `ASSUME`.

`LockFileProofs`, for any number of commands, inodes, contents and kinds:

* `TypeCorrect`: `Spec => []TypeOK`.
* `SerialNeverTorn`, `SerialRefinement`: if commands do not overlap, the file is
  never torn and implements `AtomicFile`. The invariant behind both,
  `SerialInv`, says that at most one command is active, that its descriptor is
  the inode the lock entry names and never the one the file names, and how much
  of it has been written. `NeverTorn` alone is not inductive: `Rename` publishes
  what the lock holds.
* `QuietIsWhole`: overlapping commands leave a whole file (`WholeWhenQuiet`), if
  none is killed (`~Faults`) and contents have one length, as object ids do
  (`OneLength`). `QuietInv` says why sharing a lock is harmless then: an inode is
  empty or whole at any time, and one that is not whole while an entry names it
  has a command that will still write it.

`CommonAncestorProofs`, for any commit graph, any clocks and any order in which
the heap returns entries of one time stamp, if parents come before their children
(`CommonAncestorAssumption`):

* `TypeCorrect`: `TypeOK`, with what `parents` and `fold` carry along (`TypeInv`).
* `BaseIsTheBest`: a base that is returned is the one best common ancestor. The
  search is right by `SearchInv`: what is stale is behind a base found so far
  (`StaleSound`); what a side has seen or queued is an ancestor of its end
  (`SideSound`); and a side loses nothing, since its end and the parents of all
  it has seen are seen, still to come or behind a base (`SideComplete`). When
  only stale entries are left, the commits a side has seen or that are behind a
  base are closed under parents and hold its end, so all common ancestors are
  behind a base (`AllBehind`). `FoldInv` keeps that while candidates are folded,
  because getDescendent walks only among the ancestors of its arguments.
* `FailsOnlyIfItMust`: if every commit is younger than its parents
  (`ClocksRunForwards`), the call fails only without a unique base. `TopInv` says
  that the common ancestor all others are behind is found first and stays first:
  as long as a side has not seen it, something no older than it is queued
  (`FirstMetIsTop`). From there getDescendent always reaches the other candidate.
  `CommonAncestorTies` shows that equal time stamps break it.

  Facts about `Ancestors`, a recursive function, rest on the least number
  principle (`LeastNumber`, from the well-foundedness of the naturals), with
  which `HistoryInduction` is proved; that the recursion has a solution is
  `AncestorsUnfold`.

`WorkTreeProofs` and `WorkTreeMergeProofs`, for any set of paths with any
directory structure, any contents, branches, starting repositories and users.
The assumptions in `WorkTree`: what is above a path is a chain, and the
repository to start from is well-formed, its trees without a file where another
has a directory (`Flat`).

* `TypeCorrect`: the repository stays well-formed: parents are older commits,
  refs, HEAD and the record of a merge name commits that exist, and every write
  still to come does too. It rests on the commit count only growing
  (`WritesGrow`).
* `UnforcedNeverLosesWork`: a command without `-f` never overwrites or deletes
  a file whose content is not in the index, but for three exceptions: rm deletes
  the file of an unmerged path, a file that stands where the directory of a
  removed path was goes with the path, and the text of a regular file that
  replaces a link goes to where the link leads. `UnforcedKeepsWork` is about one
  step and needs to know what the checks at the start of the command said about
  the files that are still to come. The invariant `NoLossAhead` says it of every
  file the running command has still to touch: it is absent, or its content is
  the one of the index (or, for rm, it is an unmerged path). The checks
  establish it (`SwitchIsSafe`, `RemoveIsSafe`), and a step keeps it because it
  changes the file it touches and nothing else, while the index stays as it was
  until the command is done with the work dir (`FileStepIsSafe`).
* `UnmergedStaysOnRecord`: `UnmergedIsOnRecord`. A merge
  writes the index before its record, and an abort removes the record before the
  index, so `RecordInv` says of every sequence of writes a command may still have
  to do what it will leave on record. `IndexInv` says what any index looks like,
  the one on disk and the one in memory: an entry is staged or has stages of two
  sides.
* `CommitKeepsStagedDeep`, `CommitKeepsStagedFlat`: a commit outside a merge
  holds all that is staged, on paths of any depth if nobody calls unadd
  (`NoUnadd`), and on paths of two levels whatever the user does (`TwoLevels`). On
  three levels with unadd it is false (see Runs). `NestedInv` says that of two
  entries, one above the other, one is unmerged; `FlatInv` adds that a merge
  which marks a path in a directory has also written it, and so taken what was
  staged above it out of the index. When nothing is unmerged no entry is above
  another, and then `TreeOfIndex` leaves nothing out.
* `SwitchExact` (`WorkTreeMergeProofs`): `SwitchIsExact`. `SwitchInv` says while
  a switch from a clean checkout runs that a path still to do has its old entry
  and its old file, that any other has the new ones (`Moved`), and that HEAD and
  the index follow in the order of the code. `migrate` removes before it writes,
  so that `AddPath` and `RemovePath` find nothing above or below the path they
  would take along. Clean checkouts have no file in the place of a directory with
  tracked files, so removals unlink nothing else; where the file that was there
  and the new one differ in mode, `Moved` has the new text with the old mode; and
  links in the way of regular files are excluded (`LinksInTheWay`).
* `MergeThreeWay` (`WorkTreeMergeProofs`): `MergeIsThreeWay`, on paths of any
  depth, wherever diff3 finds conflicts and whatever untracked files there are,
  texts and modes each for themselves, with the modes kept as for a switch and no
  link in the way of a regular file.
  The merged tree is again flat, since a clash of a file and a directory is taken
  out on both sides (`ResultIsFlat`), so `migrate` does for it what it does for a
  switch. `MergeInv` has `Moved` for the merged tree, the unmerged paths (those
  disputed, and among those left to diff3 the ones it could not merge), and what
  is written: the record, or HEAD with a commit whose tree is the merged one.

`ReceivePackProofs`, for any object graph, any
number of pushes, any refs, requests and configurations, and any number of local
commands, under `ObjectGraphAssumption` and `ReceivePackAssumption` (the
repository to start from is whole: what its refs reach is there; without that no
check of a push could help; and only HEAD is symbolic):

* `TypeCorrect`, `RefsStayConnected` and `PushesFastForward` for `TypeOK`,
  `RefsAreConnected` and `FastForwardOnly`. None of the three is inductive: a
  ref is written long after the check that allows it. The invariant `IInv` adds
  what every session and command carries from its check to its write
  (`SessionSound`, `CommandSound`): the update at hand is there and names the
  value the client was told; an update not refused is connected; between
  updateInstead's reset and the write it is an object of the store and no
  refused rewind. `RefsSound` asks the same of loose and packed values apart,
  since a deletion uncovers the packed one. The argument is that the store only
  grows, that objects never change, and that no step of another process touches
  a session (`SessionsFrame`, `RefsFrame`). `FastForwardOnly` compares what the
  push writes with the value the branch has, loose or packed, and asks that this
  is the value the push was told of: an update of a branch that was announced
  names it, and the check of the rewind is then about that value. A commit or tag is connected because
  what it names is (`ConnectedThroughLinks`, from `Closure` being the least
  closed set).
* `CheckoutStaysInStep`, `ReportsAreTrue`, `HeadSurvives` for `CheckoutInStep`,
  `ReportIsTrue` and `CurrentBranchSurvives`, which speak of pushes and commands
  nothing overlaps. `SerialInv` says what then stays true of what a process has
  read: it is alone, the HEAD it has read is the one there is, the updates
  applied so far are in the refs, and the branch the reset moved is the one the
  write is about. Of several updates of one ref in a push the last one counts.

`UploadPackProofs`, for any finite object graph whose store is closed and whose
tags name one object (`ObjectGraphAssumption`, `ObjectIteratorAssumption`), any
refs, any clocks, any client with requests of type `Asked`
(`UploadPackAssumption`), and any number of lines:

* `EveryWalkOfASessionIsExact` for `WalksAreExact`, and under it the lemma
  `EveryWalkIsExact` for a walk of either kind, with any starts, depth, excluded
  objects and store. The levels of a graph are a sequence of growing sets
  (`Grows`); the queue of a walk holds objects of two adjacent levels, the nearer
  first, and what has been visited is all of the levels before and a part of this
  one (`AtLevel`), and the links of a visited object are
  visited, queued or too deep. `WalkEnds` shows that each round shrinks a measure
  (objects not yet visited, then the queue), `WalkInduction` carries the
  invariant along, and `WalkResult` reads the result off it.
* `PacksAreComplete` for `PackIsComplete`: a walk without a limit returns all its
  starts reach (`StoreWalk`), and in a closed store it never fails.
* `ReadinessIsJustified` for `ReadyIsJustified`: a walk over commits returns
  exactly the commits in the histories of its starts (`CommitsFromAll`), and
  so what allWantsReachable finds is what the property asks for (`WantsMet`).
* `AcksAreAlwaysJustified` for `AcksAreJustified`: an acknowledgment is of an
  object the server has and the client has named, through v2's list of haves
  (`NamedHavesType`) and v0's last have (`LastHaveInStore`), or it says continue or
  ready after `allWantsReachable`, and then every want is met by the haves. Each
  handler is taken apart into the lines it may write.
* `DepthsAreExact` for `DepthIsExact`: with the boundary a fetch leaves behind,
  the levels below its starts stop at the depth asked for (`DepthIsSeen`).
  What lies nearer than the depth is not cut, whatever was shallow before
  (`DeepenedSplits`), and a commit of the last level is cut or has no parents
  beyond it (`CutIsSeen`). With the infinite depth nothing is cut any more and no
  history has as many levels (`AllIsSeen`).
* `CutsAreClean` for `CutIsClean`: from a commit that is recent enough the client
  sees only such commits, since the first one too old on any path has a
  child in the boundary (`RecentFacts`, `RecentIsSeen`), however clocks ran.
* `TypeCorrect` for `TypeOK`.

The last six need more of a state than they say. `UploadInv` adds what each
phase has settled: what is ready is met by the haves (`ReadyIsMet`), what is
wanted is in the store and consists of the request and the parents of
unshallowed commits (`Granted`), the pack is the walk over it (`PackIsMade`), the
boundary is the one the request calls for (`ListIsSent`), and which phases each
version goes through (`InPhase`).

`MyersProofs`, for every two texts, of any length and over any lines:

* `EditsExact`: the edits lead from the old text to the new one, keep only equal
  lines and are as few as can be (`EditsAreExact`). An edit script is a path in the
  grid of the two texts; `Leads` says what a path to a point costs. The searches
  from both ends know the furthest point of every diagonal for each cost
  (`FurthestNext`, with `ProbeReaches` for the code's arrays), so where they meet is
  a point of a shortest path (`HalvesMeet`, `SearchFinds`). Pieces split there
  cost together what the whole does (`SplitCost`), hence the ranges that end the
  splitting keep a longest common subsequence (`RangesFound`, `LCSKept`), and
  the walk over them is a script of that cost (`EditsWalk`).
* Lemmas for the merge: `MatchesMatch` (what `get` reads off the edits pairs equal
  lines, in order), `MatchesLongest` (as many as can be, unless the texts are equal
  and there are no edits at all), and `BlockKept`: a block both texts begin or end
  with, up to a line each has once, is matched line by line. `BlockKept` does not
  depend on which of the shortest scripts the code finds: any other pairing
  of the block leaves fewer matches than the block itself would give.

`Diff3Proofs`, for any texts, any sizes of lines and of the buffer
(`Diff3Assumption`):

* `TypeCorrect`, `ChunksTile` and `DiffsExact` for `TypeOK`, `ChunksTileTheTexts`
  and `DiffsAreExact`. `Inv` adds to the tiling that no match crosses the places
  where the texts have been cut (`Cuts`): only then can the next chunk be cut
  without taking a line twice.
* `ReaderGetsMerged` for `StreamIsMerged`. `Stream` says after every round that
  what has been written and what is still in `lineBuffer` make up the merged
  lines, how far the first of these is written, and that the room left follows from
  what has been written. That holds as long as no line ends where the
  buffer does (`LineEndsWithBuffer`), the case in which the code goes wrong.
* `SeparateChangesDoMerge` for `SeparateChangesMerge`. `Along` follows the chunks
  through a merge whose sides changed the text on two sides of a common line: how
  far it has come in one text tells how far in the others (`Where`), what is
  merged is the one side's text up to the line and the other's after it (`SoFar`),
  and every chunk is as in the base on one side, so it takes the other's lines
  and is no conflict. That the unchanged lines are matched as they are is
  `BlockKept`; equal texts, which have no matches, come out in one chunk.

The library's induction theorems take an operator as a parameter, which the
provers here cannot instantiate. Induction over numbers is done on sets instead:
a set of naturals that holds 0 and every successor of a member is `Nat` (`Climb`),
from `LeastNumber`. That recursive functions such as `Walked` and `Level` satisfy
their equations is proved with it (`Iterates`, `WalkedUnfold`); for
Myers' functions it follows from what their steps reach (`StepFunction`).

Only model-checked: liveness under fairness (`StaleLockNeverBlocks`, `Returns`,
`PushEnds`, `MergeEnds`) and with it ENABLED, which are out of reach of the provers.
Every other property a passing run checks is a theorem, five of them under
conditions of their own: `NeverTorn` and `ImplementsAtomicFile` without overlap,
`WholeWhenQuiet` without kills and with contents of one length,
`FailsOnlyWithoutUniqueBase` with clocks that run forwards, and
`CommitKeepsStaged` in the two cases above.

## Findings

* `LockFileTorn`: `newLockFile` opens an existing lock (no `O_EXCL`), so two
  commands share its inode and one renames it while the other is writing it.
  `fs.go:62` calls the write atomic.
* `CommonAncestorTies`: with equal time stamps a merge can fail for want of a
  base although one common ancestor descends from all the others, which is the
  one `repo_test.go:311` calls the best. The order in which the heap of Go
  returns equal entries produces the failure for the run's graph too, whichever
  way the parents of its merges are ordered.
* `WorkTreeModes`: `objectToFile` (`workdir.go:548`) never changes the mode of a
  regular file that exists, and `AddPath` stages the mode on disk. After a switch
  to a commit that makes a file executable, work dir and index have the old mode,
  and the next commit takes the change back; a merge loses the change the same
  way. `repo.go:319` says that switch switches the work dir and the index.
* `WorkTreeParents`: after a removal `removePaths` and `migrate` call `os.Remove`
  on the names above the path (`workdir.go:433`, `821`), and so unlink a file the
  user has put where the directory was, tracked or not, without `-f`.
  `workdir.go:430` says "remove empty parent directories".
* `ReceivePackRewind`: a branch only in `packed-refs` is not announced, so the
  client names no old value, the check of denyNonFastForwards
  (`net_server_receive_pack.go:490`) is skipped and the push rewinds the branch.
  `net_test.go:565` expects non-fast-forward pushes to be rejected.

Seen in the code, without a run of their own:

* `reset` stages the version of the work dir, not that of the target
  (`workdir.go:837`: `AddPath` reads the work dir also when the work dir is not
  to be updated), though `repo.go:329` says that it resets HEAD and the index. It
  fails when the file is not there. `Reset` and `PutFile` model it.
* A merge into a branch without commits fills an index and never writes it
  (`merge.go:928`): every file of the new HEAD is missing from the index, and the
  next commit drops it. `MergeIntoEmpty` models it.
* A forced `reset-dir` to the commit HEAD is on diffs it with itself and leaves
  staged and edited files as they are, although the README of the repository
  likens it to `git reset --hard`.
* `AddPath` removes entries above the path through `RemovePath`, and so every
  entry below those, not only "entries that are parents of this path"
  (`index.go:141`).
* `Config.Write` drops the errors of its writes and its caller then renames the
  truncated file into place.
* `diff3Stream.readStep` (`merge.go:424`): a line that ends where the reader's
  buffer ends is no longer current but stays in `lineBuffer`. If it was in the
  last chunk the newline and all lines after it are lost; otherwise it is written
  again with the next chunk. `StreamIsMerged` leaves these buffers out
  (`LineEndsWithBuffer`); without that TLC shows a merge of `x, x` into an empty
  base that comes out as `x`. The size of the blob is counted with a buffer of
  4096 bytes (`count`), so both depend on the lengths of the lines.
* When both sides changed mode and text of a file and diff3 merges the texts, the
  conflict of the modes is forgotten (`merge.go:614`) and ours is taken.
* A regular file that replaces a symbolic link is written through the link.
* A last chunk that comes out empty leaves a newline at the end of the merge.
* Receive-pack never compares the old value a client names with the ref, so
  the later of two pushes wins; it announces `atomic` and applies the updates
  one by one. A ref that is in `packed-refs` too is there again after its
  deletion. A symbolic ref pushed
  together with its target is reported as ok even when the target is refused;
  pushed alone it is overwritten by an object id.
* With updateInstead `ResetDir` moves the branch HEAD names by then, which need
  not be the pushed one when a switch overlaps.
* `deepen 1` walks without a limit (`MaxDepth` 0): every commit below the wanted
  ones counts as not shallow, and an old boundary there is announced as
  unshallow. The client ends up with the right depth, since the wanted commits
  are its new boundary. Wanting a tag costs one level of depth.
* In v2 `deepen-relative` finds no old boundary (no ref is recorded in
  `ourRefs`), errors of `sendShallowList` are dropped, and an answer that is not
  ready ends in two flushes, `sendAcksV2`'s and `uploadPackV2`'s.
* In v2 `sendAcksV2` decides that the server is ready before `sendShallowList`
  adds the parents of unshallowed commits to what is wanted, so these need not
  have anything in common with the client; in v0 the list comes first.
  `ReadyIsJustified` is therefore about the request's wants in v2. The pack holds
  everything either way (`PackIsComplete`).
* In v0 the flush after the request is swallowed and the negotiation reads on,
  although the comment at `net_server_upload_pack.go:852` says "proceed directly
  to pack".

## Plan

1. Done: `LockFile`, `AtomicFile`, `CommonAncestor`, `WorkTree` and their proofs;
   `ReceivePack`, `ObjectIterator` and `UploadPack`, `Myers` and `Diff3`.
2. Proofs: done for all safety properties of every component that is modelled.
3. An abstract switch (all or nothing from a clean checkout) that `WorkTree`
   implements when no command is killed; two overlapping commands on one index.
4. Deltas read through a bounded buffer, as functions.

Not modelled: hashing, zlib and the bytes of packs and pkt-lines, the syntax of
objects, config and requests, filters and bundle URIs (the pack ignores the
former, the latter repeats the config), the HTTP backend, the command line,
signing. They are input, output and formatting, and no property above depends on
them.
