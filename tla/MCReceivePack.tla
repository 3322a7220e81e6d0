--------------------------- MODULE MCReceivePack ---------------------------
(* Instances of ReceivePack for TLC. *)
EXTENDS ReceivePack, TLC

CONSTANTS p1, p2, c1, c2, c3, t2, v2

(* c2 and c3 both follow c1 and share the tree t2; v2 is a tag of c2. *)
MCObjects == {c1, c2, c3, t2, v2}
MCCommits == {c1, c2, c3}
MCParents == [c \in MCCommits |-> IF c = c1 THEN {} ELSE {c1}]
MCLinks ==
  [o \in MCObjects |->
     IF o \in {c2, c3} THEN {c1, t2} ELSE IF o = v2 THEN {c2} ELSE {}]

MCBranches == {"main", "dev"}
MCTags == {"v"}

Refs(h, m, d, v) ==
  [n \in {"HEAD", "main", "dev", "v"} |->
     IF n = "HEAD" THEN h ELSE IF n = "main" THEN m ELSE IF n = "dev" THEN d ELSE v]

NoRefs == Refs(None, None, None, None)

Setup(c, l, pk, o) == [config |-> c, loose |-> l, packed |-> pk, objects |-> o]

(* A new repository; one commit on both branches, dev in packed-refs too;  *)
(* dev ahead of main, the same only in packed-refs; HEAD detached.         *)
New(c) == Setup(c, Refs("main", None, None, None), NoRefs, {})
Packed(c) == Setup(c, Refs("main", c1, c1, None), Refs(None, None, c1, None), {c1})
Ahead(c) == Setup(c, Refs("main", c1, c2, None), NoRefs, {c1, t2, c2})
PackedAhead(c) ==
  Setup(c, Refs("main", c1, None, None), Refs(None, None, c2, None), {c1, t2, c2})
Detached(c) == Setup(c, Refs(c1, c1, c1, None), NoRefs, {c1})

Config(cur, del, dd, nff, bare, skip, over) ==
  [denyCurrent |-> cur, denyDeleteCurrent |-> del, denyDeletes |-> dd,
   denyNonFastForwards |-> nff, isBare |-> bare, skipCheck |-> skip, overlap |-> over]

(* One command at a time: the defaults, updateInstead, a bare repository,  *)
(* settings that let everything through.                                   *)
Serial ==
  {Config("unset", "unset", FALSE, FALSE, FALSE, FALSE, FALSE),
   Config("updateinstead", "updateinstead", FALSE, TRUE, FALSE, FALSE, FALSE),
   Config("updateinstead", "unset", FALSE, FALSE, TRUE, TRUE, FALSE),
   Config("warn", "unset", FALSE, TRUE, FALSE, FALSE, FALSE),
   Config("ignore", "false", FALSE, FALSE, FALSE, TRUE, FALSE)}

(* Overlapping: the strictest settings, and updateInstead. *)
Strict == Config("true", "refuse", TRUE, TRUE, FALSE, FALSE, TRUE)
Instead == Config("updateinstead", "ignore", FALSE, TRUE, FALSE, FALSE, TRUE)

OnlyPackedAhead == {PackedAhead(c) : c \in {c \in Serial : c.denyNonFastForwards}}

MCSetups ==
  UNION {{New(c), Packed(c), Ahead(c), Detached(c)} : c \in Serial}
    \cup OnlyPackedAhead
    \cup {Packed(Strict), Ahead(Instead)}

(* Every kind of request, divided between the two clients. *)
MCRequests ==
  [p \in {p1, p2} |->
     IF p = p1
     THEN {<< <<"main", c2>> >>, << <<"main", None>> >>,
           << <<"dev", None>>, <<"v", v2>> >>, << <<"HEAD", c2>>, <<"main", c2>> >>}
     ELSE {<< <<"main", c3>> >>, << <<"dev", c1>> >>,
           << <<"main", c3>>, <<"HEAD", c2>> >>, << <<"dev", c3>>, <<"main", c2>> >>,
           << <<"dev", c3>>, <<"dev", None>> >>}]

MCMayMiss == {c2, t2}
MCPushes == {p1, p2}
=============================================================================
