---------------------------- MODULE ReceivePack ----------------------------
(***************************************************************************)
(* net_server_receive_pack.go, with the ref, branch and tag commands of    *)
(* ref.go, branch.go and tag.go that share the refs with it.  Every push   *)
(* and the one local user is a process; a step is one read, check or write *)
(* of the repository, so a step acts on what an earlier one has read.      *)
(***************************************************************************)
EXTENDS ObjectGraph, Naturals, Sequences

CONSTANTS
  Pushes,      \* the pushes
  HEAD,        \* the name HEAD
  Branches,    \* names below refs/heads
  Tags,        \* names below refs/tags
  None,        \* no value, the null object id
  Unknown,     \* index and work dir are no commit's files
  Setups,      \* configurations of the server, each with a repository to
               \* start from
  Requests,    \* Requests[p]: what p may ask, sequences of <<name, new value>>
  MayMiss,     \* objects a client's pack may lack
  UserSteps,   \* BOUND: how many commands the local user runs
  Faults       \* TRUE: writing a ref may fail

Names == {HEAD} \cup Branches \cup Tags
Values == Objects \cup Branches \cup {None}
Settings == {"unset", "ignore", "warn", "refuse", "updateinstead", "true", "false"}

Configs ==
  [denyCurrent : Settings, denyDeleteCurrent : Settings,
   denyDeletes : BOOLEAN, denyNonFastForwards : BOOLEAN,
   isBare : BOOLEAN, skipCheck : BOOLEAN, overlap : BOOLEAN]

ASSUME ReceivePackAssumption ==
  /\ {HEAD} \cap (Branches \cup Tags) = {} /\ Branches \cap Tags = {}
  /\ Objects \cap Names = {} /\ None \notin Objects \cup Names
  /\ Unknown \notin Objects \cup {None}
  /\ \A s \in Setups :
       /\ s.config \in Configs
       /\ s.loose \in [Names -> Values]
       /\ s.packed \in [Names -> Objects \cup {None}]
       /\ s.objects \subseteq Objects
       /\ \A n \in Names : \A o \in {s.loose[n], s.packed[n]} \cap Objects :
            Reach[o] \subseteq s.objects
       /\ \A n \in Branches \cup Tags : s.loose[n] \notin Branches
  /\ Requests \in [Pushes -> SUBSET Seq(Names \X (Objects \cup {None}))]
  /\ MayMiss \subseteq Objects
  /\ UserSteps \in Nat
  /\ Faults \in BOOLEAN

VARIABLES
  config,    \* the receive section of the config: it never changes
  loose,     \* loose[n]: the file of the ref n: an object, a branch or None
  packed,    \* packed[n]: n in packed-refs, which the program only reads
  objects,   \* the objects in the store
  checkout,  \* the commit whose files index and work dir have, or Unknown
  push,      \* push[p]: the session of p
  user       \* the local command under way and how many are left

vars == <<config, loose, packed, objects, checkout, push, user>>

(* readRef: the loose file, else packed-refs; readRefRecur follows it.     *)
(* Only HEAD is ever made symbolic, by replaceHead, so a chain is at most  *)
(* two long: HEAD, a branch, an object.                                    *)
ReadRef(n) == IF loose[n] # None THEN loose[n] ELSE packed[n]

Resolve(n) ==
  LET v == ReadRef(n)
  IN  IF v \in Branches
      THEN IF ReadRef(v) \in Branches THEN None ELSE ReadRef(v)
      ELSE v

(* writeRefRecur("HEAD", ...): the name that is written in the end. *)
HeadName == IF ReadRef(HEAD) \in Branches THEN ReadRef(HEAD) ELSE HEAD

HeadCommit == Resolve(HEAD)

(* parseDenyPolicy: any other true value refuses, any other value ignores. *)
DenyPolicy(setting) ==
  CASE setting = "unset" -> "unconfigured"
    [] setting = "true" -> "refuse"
    [] setting = "false" -> "ignore"
    [] OTHER -> setting

DenyCurrent == DenyPolicy(config.denyCurrent)
DenyDeleteCurrent == DenyPolicy(config.denyDeleteCurrent)

(* The value of a ref the server announces: refs that are only packed are  *)
(* not listed, and HEAD is what it resolves to.                            *)
Announced(n) == IF loose[n] = None THEN None ELSE Resolve(n)

Resting == {"idle", "announced", "done", "broken"}

Updates ==
  [name : Names, old : Values, new : Objects \cup {None}, ng : BOOLEAN, skip : BOOLEAN]

Sessions ==
  [step : Resting \cup {"unpack", "check", "alias", "head", "apply", "write", "report"},
   seen : [Names -> Values], cmds : Seq(Updates), head : Branches \cup {None},
   at : Nat \ {0}]

LocalCommands ==
  [op : {"none", "branch", "branch-write", "remove", "tag-write", "commit-write"},
   name : Names, oid : Objects \cup {None}]

Idle == [step |-> "idle", seen |-> [n \in Names |-> None], cmds |-> <<>>,
         head |-> None, at |-> 1]

NoCommand == [op |-> "none", name |-> HEAD, oid |-> None]

Init ==
  /\ \E s \in Setups :
       /\ config = s.config
       /\ loose = s.loose /\ packed = s.packed /\ objects = s.objects
  /\ checkout = HeadCommit
  /\ push = [p \in Pushes |-> Idle]
  /\ user = [cmd |-> NoCommand, left |-> UserSteps]

Session(p, s) == push' = [push EXCEPT ![p] = s]

(* With config.overlap FALSE, a command starts only when no other runs. *)
MayStart ==
  \/ config.overlap
  \/ user.cmd.op = "none" /\ \A q \in Pushes : push[q].step \in Resting

(* advertiseRefs.  Over HTTP it is a request of its own, and the push may  *)
(* follow much later.                                                      *)
AdvertiseRefs(p) ==
  /\ push[p].step = "idle"
  /\ Session(p, [push[p] EXCEPT !.step = "announced",
                                !.seen = [n \in Names |-> Announced(n)]])
  /\ UNCHANGED <<config, loose, packed, objects, checkout, user>>

Command(p, n, new) ==
  [name |-> n, old |-> push[p].seen[n], new |-> new, ng |-> FALSE, skip |-> FALSE]

(* readRefUpdates: the client sends the old values it has been told and    *)
(* only what it wants changed.  A push that only deletes sends no pack.    *)
ReadRefUpdates(p) ==
  /\ push[p].step = "announced"
  /\ MayStart
  /\ \E req \in Requests[p] :
       LET cmds == [i \in DOMAIN req |-> Command(p, req[i][1], req[i][2])]
       IN  /\ \A i \in DOMAIN cmds : cmds[i].old # cmds[i].new
           /\ Session(p, [push[p] EXCEPT !.cmds = cmds,
                !.step = IF \A i \in DOMAIN cmds : cmds[i].new = None
                         THEN "check" ELSE "unpack"])
  /\ UNCHANGED <<config, loose, packed, objects, checkout, user>>

Wanted(p) == {push[p].cmds[i].new : i \in DOMAIN push[p].cmds} \ {None}
Needed(p) == UNION {Reach[o] : o \in Wanted(p)}

(* CopyFromPackIterator: every object of the pack is stored as it comes.   *)
(* The pack may lack what the client believed the server to have.          *)
Unpack(p) ==
  /\ push[p].step = "unpack"
  /\ \E missing \in SUBSET (MayMiss \cap Needed(p)) :
       objects' = objects \cup (Needed(p) \ missing)
  /\ Session(p, [push[p] EXCEPT !.step = "check"])
  /\ UNCHANGED <<config, loose, packed, checkout, user>>

(* The stream ends early or an object is damaged: ReceivePack returns the  *)
(* error, what was stored stays.                                           *)
UnpackFails(p) ==
  /\ push[p].step = "unpack"
  /\ \E part \in SUBSET (MayMiss \cap Needed(p)) : objects' = objects \cup part
  /\ Session(p, [Idle EXCEPT !.step = "broken"])
  /\ UNCHANGED <<config, loose, packed, checkout, user>>

Connected(o) == Reach[o] \subseteq objects

(* Mutant of CheckConnectivity: the objects have to be there, not what     *)
(* they name.                                                              *)
CheckExistence(p) ==
  LET checked(c) ==
        [c EXCEPT !.ng = ~config.skipCheck /\ c.new # None /\ c.new \notin objects]
      cmds == [i \in DOMAIN push[p].cmds |-> checked(push[p].cmds[i])]
  IN  /\ push[p].step = "check"
      /\ Session(p, [push[p] EXCEPT !.cmds = cmds, !.at = 1,
           !.step = IF \A i \in DOMAIN cmds : cmds[i].ng THEN "report" ELSE "alias"])
      /\ UNCHANGED <<config, loose, packed, objects, checkout, user>>

(* The connectivity check, of all new values together and, when that       *)
(* fails, of each: those that reach a missing object are refused.          *)
CheckConnectivity(p) ==
  LET checked(c) ==
        [c EXCEPT !.ng = ~config.skipCheck /\ c.new # None /\ ~Connected(c.new)]
      cmds == [i \in DOMAIN push[p].cmds |-> checked(push[p].cmds[i])]
  IN  /\ push[p].step = "check"
      /\ Session(p, [push[p] EXCEPT !.cmds = cmds, !.at = 1,
           !.step = IF \A i \in DOMAIN cmds : cmds[i].ng THEN "report" ELSE "alias"])
      /\ UNCHANGED <<config, loose, packed, objects, checkout, user>>

Current(p) == push[p].cmds[push[p].at]

(* The step after the one that is about the last update. *)
AfterLast(p, now, next) == IF push[p].at = Len(push[p].cmds) THEN next ELSE now

(* A symbolic ref pushed along with its target: the symbolic ref is left   *)
(* alone, and when the two updates differ both are refused.                *)
Aliased(cmds, i) ==
  LET targets == {j \in DOMAIN cmds : cmds[j].name = ReadRef(cmds[i].name)}
      j == CHOOSE j \in targets : \A k \in targets : k <= j
      same == cmds[i].old = cmds[j].old /\ cmds[i].new = cmds[j].new
  IN  IF cmds[i].ng \/ ReadRef(cmds[i].name) \notin Branches \/ targets = {}
      THEN cmds
      ELSE [k \in DOMAIN cmds |->
             [cmds[k] EXCEPT !.skip = @ \/ k = i \/ (k = j /\ ~same),
                             !.ng = @ \/ (k \in {i, j} /\ ~same)]]

(* One round of the loop that looks for such refs. *)
FindAlias(p) ==
  /\ push[p].step = "alias"
  /\ Session(p, [push[p] EXCEPT !.cmds = Aliased(push[p].cmds, push[p].at),
                                !.at = @ + 1, !.step = AfterLast(p, "alias", "head")])
  /\ UNCHANGED <<config, loose, packed, objects, checkout, user>>

(* Mutant of ReadHead: a detached HEAD is taken for a branch. *)
ReadHeadDetached(p) ==
  /\ push[p].step = "head"
  /\ Session(p, [push[p] EXCEPT !.head = ReadRef(HEAD), !.at = 1, !.step = "apply"])
  /\ UNCHANGED <<config, loose, packed, objects, checkout, user>>

(* HEAD is read once, before the first update is applied. *)
ReadHead(p) ==
  /\ push[p].step = "head"
  /\ Session(p, [push[p] EXCEPT !.at = 1, !.step = "apply",
                  !.head = IF ReadRef(HEAD) \in Branches THEN ReadRef(HEAD) ELSE None])
  /\ UNCHANGED <<config, loose, packed, objects, checkout, user>>

CheckedOut(p) == push[p].head # None /\ Current(p).name = push[p].head

(* Mutant of Descends: any relation of the two will do. *)
DescendsEither(old, new) ==
  \/ old = new
  \/ {old, new} \subseteq Commits /\ (old \in Ancestry[new] \/ new \in Ancestry[old])

(* getDescendent(old, new) = new; it fails on what is not a commit. *)
Descends(old, new) == old = new \/ (new \in Commits /\ old \in Ancestry[new])

RefusedName(p) == Current(p).name \notin Branches \cup Tags

(* Mutants: what is not configured is allowed. *)
RefusedCurrentConfigured(p) ==
  CheckedOut(p) /\ DenyCurrent = "refuse"

RefusedDeletionConfigured(p) ==
  /\ Current(p).old # None /\ Current(p).new = None
  /\ \/ config.denyDeletes /\ Current(p).name \in Branches
     \/ CheckedOut(p) /\ DenyDeleteCurrent \notin {"ignore", "warn", "unconfigured"}

RefusedCurrent(p) ==
  CheckedOut(p) /\ DenyCurrent \in {"refuse", "unconfigured"}

RefusedDeletion(p) ==
  /\ Current(p).old # None /\ Current(p).new = None
  /\ \/ config.denyDeletes /\ Current(p).name \in Branches
     \/ CheckedOut(p) /\ DenyDeleteCurrent \notin {"ignore", "warn"}

RefusedRewind(p) ==
  /\ config.denyNonFastForwards
  /\ Current(p).name \in Branches
  /\ Current(p).old # None /\ Current(p).new # None
  /\ ~Descends(Current(p).old, Current(p).new)

UpdateInstead(p) == CheckedOut(p) /\ DenyCurrent = "updateinstead"

Refused(p) ==
  \/ RefusedName(p) \/ RefusedCurrent(p)
  \/ Current(p).new \notin objects \cup {None}
  \/ RefusedDeletion(p) \/ RefusedRewind(p)
  \/ UpdateInstead(p) /\ (config.isBare \/ Current(p).new = None)

(* Mutant of Finish: the loop does not move on. *)
FinishStays(p, ng) ==
  Session(p, [push[p] EXCEPT !.cmds[push[p].at].ng = ng, !.step = AfterLast(p, "apply", "report")])

(* The update at hand is over, refused or not. *)
Finish(p, ng) ==
  Session(p, [push[p] EXCEPT !.cmds[push[p].at].ng = ng, !.at = @ + 1,
                             !.step = AfterLast(p, "apply", "report")])

(* An update that has been refused already, or is left to another one. *)
PassedOver(p) == Current(p).ng \/ Current(p).skip

PassOver(p) ==
  /\ push[p].step = "apply"
  /\ PassedOver(p)
  /\ Finish(p, Current(p).ng)
  /\ UNCHANGED <<config, loose, packed, objects, checkout, user>>

Applying(p) == push[p].step = "apply" /\ ~PassedOver(p)

Refuse(p) ==
  /\ Applying(p)
  /\ Refused(p)
  /\ Finish(p, TRUE)
  /\ UNCHANGED <<config, loose, packed, objects, checkout, user>>

(* updateInstead: ResetDir moves the branch HEAD names by now, the index   *)
(* and the work dir; between equal commits it has nothing to restore.      *)
ResetWorkTree(p) ==
  LET new == Current(p).new
  IN  /\ Applying(p)
      /\ ~Refused(p) /\ UpdateInstead(p)
      /\ new \in Commits
      /\ loose' = [loose EXCEPT ![HeadName] = new]
      /\ checkout' = IF HeadCommit = new THEN checkout ELSE new
      /\ Session(p, [push[p] EXCEPT !.step = "write"])
      /\ UNCHANGED <<config, packed, objects, user>>

(* ResetDir gives up on an object that is no commit, and half way through  *)
(* when a file and a directory collide; HEAD has not moved then.           *)
ResetFails(p) ==
  /\ Applying(p)
  /\ ~Refused(p) /\ UpdateInstead(p)
  /\ Current(p).new \in Commits => Faults
  /\ checkout' = IF Current(p).new \in Commits THEN Unknown ELSE checkout
  /\ Finish(p, TRUE)
  /\ UNCHANGED <<config, loose, packed, objects, user>>

(* The write follows the reset, or the checks, which read nothing that     *)
(* another process could change.                                           *)
ReadyToWrite(p) ==
  \/ push[p].step = "write"
  \/ Applying(p) /\ ~Refused(p) /\ ~UpdateInstead(p)

(* writeRef and removeRef on the name itself: neither follows a symbolic   *)
(* ref nor looks at the value that is there.                               *)
UpdateRef(p) ==
  /\ ReadyToWrite(p)
  /\ loose' = [loose EXCEPT ![Current(p).name] = Current(p).new]
  /\ Finish(p, FALSE)
  /\ UNCHANGED <<config, packed, objects, checkout, user>>

(* Mutant of UpdateFails: the error is dropped. *)
UpdateFailsSilently(p) ==
  /\ Faults
  /\ ReadyToWrite(p)
  /\ Finish(p, FALSE)
  /\ UNCHANGED <<config, loose, packed, objects, checkout, user>>

UpdateFails(p) ==
  /\ Faults
  /\ ReadyToWrite(p)
  /\ Finish(p, TRUE)
  /\ UNCHANGED <<config, loose, packed, objects, checkout, user>>

(* The report: "ng" for what was refused, "ok" for everything else. *)
Report(p) ==
  /\ push[p].step = "report"
  /\ Session(p, [Idle EXCEPT !.step = "done"])
  /\ UNCHANGED <<config, loose, packed, objects, checkout, user>>

-----------------------------------------------------------------------------
(* The local user.  Each command reads first and writes later.             *)

Begin(op, n, oid) ==
  /\ user.cmd.op = "none" /\ user.left > 0
  /\ MayStart
  /\ user' = [cmd |-> [op |-> op, name |-> n, oid |-> oid], left |-> user.left - 1]

EndCommand == user' = [user EXCEPT !.cmd = NoCommand]

(* AddBranch looks whether the branch exists, then reads HEAD, then writes *)
(* the branch through a lock file; without a commit it writes nothing.     *)
AddBranchCheck(b) ==
  /\ ReadRef(b) = None
  /\ Begin("branch", b, None)
  /\ UNCHANGED <<config, loose, packed, objects, checkout, push>>

AddBranchRead ==
  /\ user.cmd.op = "branch"
  /\ IF HeadCommit = None THEN EndCommand
     ELSE user' = [user EXCEPT !.cmd.op = "branch-write", !.cmd.oid = HeadCommit]
  /\ UNCHANGED <<config, loose, packed, objects, checkout, push>>

(* RemoveBranch and RemoveTag: os.Remove of the loose file, which fails    *)
(* when there is none; packed-refs stays as it is.                         *)
RemoveBranchCheck(b) ==
  /\ ReadRef(HEAD) # b
  /\ Begin("remove", b, None)
  /\ UNCHANGED <<config, loose, packed, objects, checkout, push>>

RemoveTag(t) ==
  /\ Begin("remove", t, None)
  /\ UNCHANGED <<config, loose, packed, objects, checkout, push>>

(* AddTag writes the tag object, then the ref, over an older tag if any. *)
AddTagObject(t, o) ==
  /\ HeadCommit # None
  /\ Links[o] = {HeadCommit}
  /\ o \notin Commits
  /\ Begin("tag-write", t, o)
  /\ objects' = objects \cup {o}
  /\ UNCHANGED <<config, loose, packed, checkout, push>>

(* writeCommit: a new commit and its tree on top of what HEAD is ... *)
CommitObject(c) ==
  /\ c \in Commits \ objects
  /\ Parents[c] = {HeadCommit} \ {None}
  /\ Begin("commit-write", HEAD, c)
  /\ objects' = objects \cup {c} \cup UNION {Reach[o] : o \in Links[c] \ Parents[c]}
  /\ UNCHANGED <<config, loose, packed, checkout, push>>

(* ... then updateHead, whatever HEAD has become. *)
WriteRef ==
  /\ user.cmd.op \in {"branch-write", "tag-write"}
  /\ loose' = [loose EXCEPT ![user.cmd.name] = user.cmd.oid]
  /\ EndCommand
  /\ UNCHANGED <<config, packed, objects, checkout, push>>

UpdateHead ==
  /\ user.cmd.op = "commit-write"
  /\ loose' = [loose EXCEPT ![HeadName] = user.cmd.oid]
  /\ checkout' = user.cmd.oid
  /\ EndCommand
  /\ UNCHANGED <<config, packed, objects, push>>

RemoveFile ==
  /\ user.cmd.op = "remove"
  /\ loose' = [loose EXCEPT ![user.cmd.name] = None]
  /\ EndCommand
  /\ UNCHANGED <<config, packed, objects, checkout, push>>

(* Switch to a branch, in one step (WorkTree has its details). *)
Switch(b) ==
  /\ Resolve(b) \in Commits
  /\ user.cmd.op = "none" /\ user.left > 0
  /\ MayStart
  /\ loose' = [loose EXCEPT ![HEAD] = b]
  /\ checkout' = Resolve(b)
  /\ user' = [user EXCEPT !.left = @ - 1]
  /\ UNCHANGED <<config, packed, objects, push>>

UserStarts ==
  \/ \E b \in Branches : AddBranchCheck(b) \/ RemoveBranchCheck(b) \/ Switch(b)
  \/ \E t \in Tags : RemoveTag(t) \/ \E o \in Objects : AddTagObject(t, o)
  \/ \E c \in Commits : CommitObject(c)

UserStep == AddBranchRead \/ WriteRef \/ UpdateHead \/ RemoveFile

ServerStep(p) ==
  \/ Unpack(p) \/ UnpackFails(p)
  \/ CheckConnectivity(p) \/ FindAlias(p) \/ ReadHead(p)
  \/ PassOver(p) \/ Refuse(p) \/ ResetWorkTree(p) \/ ResetFails(p)
  \/ UpdateRef(p) \/ UpdateFails(p) \/ Report(p)

PushStep(p) == AdvertiseRefs(p) \/ ReadRefUpdates(p) \/ ServerStep(p)

Next == (\E p \in Pushes : PushStep(p)) \/ UserStarts \/ UserStep

(* A server process and a command that has started keep running; a client  *)
(* may go away after the advertisement, and a user need do nothing.        *)
Spec ==
  /\ Init /\ [][Next]_vars
  /\ \A p \in Pushes : WF_vars(ServerStep(p))
  /\ WF_vars(UserStep)
-----------------------------------------------------------------------------
TypeOK ==
  /\ config \in Configs
  /\ loose \in [Names -> Values]
  /\ packed \in [Names -> Objects \cup {None}]
  /\ objects \subseteq Objects
  /\ checkout \in Values \cup {Unknown}
  /\ push \in [Pushes -> Sessions]
  /\ user \in [cmd : LocalCommands, left : Nat]

(* A ref never names an object the store has not got, nor one from which a *)
(* missing object can be reached: whatever packs lacked or broke off, in   *)
(* whatever order pushes, tags and commits are written, and whoever deletes *)
(* what meanwhile.  A caller that skips the connectivity check keeps only  *)
(* the first half.                                                         *)
RefsAreConnected ==
  \A n \in Names : ReadRef(n) \in Objects =>
    /\ ReadRef(n) \in objects
    /\ ~config.skipCheck => Connected(ReadRef(n))

(* Unless the server is told to let pushes into the checked out branch,    *)
(* index and work dir are those of the HEAD commit after every step of     *)
(* every push and command: a push that finds the branch checked out is     *)
(* refused or takes them along (net_server_receive_pack.go:649).  Commands *)
(* that overlap can break this, since HEAD is read before it is needed.    *)
CheckoutInStep ==
  (/\ ~config.overlap /\ ~config.isBare
   /\ DenyCurrent \notin {"ignore", "warn"}
   /\ checkout # Unknown)
  => checkout = HeadCommit

(* With denyNonFastForwards a push writes to a branch only a descendant of *)
(* the value the branch has, loose or packed, provided that this value is  *)
(* what the server announced to the client and that HEAD is what the       *)
(* server has read.  The check goes by the old value the client names, and *)
(* nothing compares that with the value that is there: a branch that has   *)
(* moved since, or that is only in packed-refs and so never announced, is  *)
(* rewound (see RewindsAreRejected).                                       *)
FastForwardOnly ==
  [][\A p \in Pushes, b \in Branches :
       (/\ config.denyNonFastForwards
        /\ push'[p] # push[p] /\ loose'[b] # ReadRef(b)
        /\ ReadRef(b) = push[p].seen[b]
        /\ push[p].head \in {None, loose[HEAD]}
        /\ {ReadRef(b), loose'[b]} \subseteq Objects)
       => loose'[b] \in Commits /\ ReadRef(b) \in Ancestry[loose'[b]]]_vars

(* "expected non-fast-forward push to be rejected by server": with         *)
(* denyNonFastForwards no push gives a branch a commit that does not       *)
(* descend from the one it had.                                            *)
RewindsAreRejected ==
  [][\A p \in Pushes, b \in Branches :
       (/\ config.denyNonFastForwards /\ ~config.overlap
        /\ push'[p] # push[p] /\ ReadRef(b)' # ReadRef(b)
        /\ {ReadRef(b), ReadRef(b)'} \subseteq Commits)
       => ReadRef(b) \in Ancestry[ReadRef(b)']]_vars

(* Once HEAD leads to a commit it always does, unless the server is told   *)
(* to let pushes delete the checked out branch or commands overlap: no     *)
(* deletion, by a push or by RemoveBranch, takes the branch HEAD names.    *)
CurrentBranchSurvives ==
  [][(/\ ~config.overlap
      /\ DenyDeleteCurrent \notin {"ignore", "warn"}
      /\ HeadCommit \in Objects)
     => HeadCommit' \in Objects]_vars

(* What a push reports as ok, when nothing overlapped it and it was not    *)
(* left to the target of a symbolic ref, is what the ref resolves to when  *)
(* the report is sent, whatever the other updates of the push did, unless  *)
(* a later one names the ref again, which nothing refuses.  A ref that is  *)
(* in packed-refs too survives its deletion.                               *)
ReportIsTrue ==
  \A p \in Pushes : ~config.overlap /\ push[p].step = "report" =>
    \A i \in DOMAIN push[p].cmds :
      LET c == push[p].cmds[i]
      IN  (/\ ~c.ng /\ ~c.skip
           /\ c.new = None => packed[c.name] = None
           /\ \A j \in DOMAIN push[p].cmds : push[p].cmds[j].name = c.name => j <= i)
          => Resolve(c.name) = c.new

(* Every push the server has begun to work on is answered or broken off. *)
PushEnds ==
  \A p \in Pushes :
    push[p].step \notin Resting ~> push[p].step \in {"done", "broken"}
=============================================================================
