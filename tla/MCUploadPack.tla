---------------------------- MODULE MCUploadPack ----------------------------
(* Instances of UploadPack for TLC. *)
EXTENDS UploadPack, TLC

CONSTANTS r, a, b, x, m, y, v, t

(* r is followed by a and x, a by b, and m merges b and x; y follows a and *)
(* only the client has it; v is a tag of b, t the tree of m.               *)
MCObjects == {r, a, b, x, m, y, v, t}
MCCommits == {r, a, b, x, m, y}
MCParents ==
  [c \in MCCommits |->
     IF c = r THEN {} ELSE IF c \in {a, x} THEN {r} ELSE IF c = m THEN {b, x} ELSE {a}]
MCLinks ==
  [o \in MCObjects |->
     IF o = m THEN {b, x, t} ELSE IF o \in MCCommits THEN MCParents[o]
     ELSE IF o = v THEN {b} ELSE {}]
MCAnnotated == {v}
MCStore == MCObjects \ {y}

(* The clock of a was behind: r is younger than its child. *)
MCTime == [c \in MCCommits |-> IF c = a THEN 1 ELSE IF c \in {r, x} THEN 2 ELSE 3]

MCRefNames == {"main", "dev", "v1"}
Value(main, dev, v1) ==
  [n \in MCRefNames |-> IF n = "main" THEN main ELSE IF n = "dev" THEN dev ELSE v1]
MCSetups ==
  {[head |-> "main", value |-> Value(m, x, v)],
   [head |-> "main", value |-> Value(None, b, None)],
   [head |-> "main", value |-> Value(None, None, None)]}

MCCommands == {"ls-refs", "fetch", "object-info"}

(* What is wanted, by clients that ask for no depth, with every set of     *)
(* capabilities.                                                           *)
Whole0(ws) == [NoNeed EXCEPT !.wants = ws]
Plain ==
  {[Whole0(ws) EXCEPT !.multiAck = k, !.noDone = nd, !.stateless = st] :
     ws \in {{m}, {b, x}, {v}, {m, t}}, k \in {"none", "basic", "detailed"},
     nd \in BOOLEAN, st \in BOOLEAN}

(* Every way to deepen: by levels, by date and refs, and by both at once.  *)
Deepen(ws, sh, d, rel, s, ns) ==
  [NoNeed EXCEPT !.wants = ws, !.shallow = sh, !.depth = d, !.relative = rel,
                 !.since = s, !.nots = ns]
Wanted == {{m}, {b, x}, {v}, {x}}
Held == {{}, {b}, {a, x}, {b, y}}
MCInfiniteDepth == Cardinality(MCCommits) + 1
Deepening ==
  {Deepen(ws, sh, d, rel, 0, {}) :
     ws \in Wanted, sh \in Held, d \in (1..3) \cup {MCInfiniteDepth}, rel \in BOOLEAN}
    \cup {Deepen(ws, sh, 0, FALSE, s, ns) : ws \in Wanted, sh \in Held, s \in {0, 2, 3}, ns \in {{}, {x}, {v}}}
    \cup {Deepen({m}, {b}, 2, FALSE, 2, {x}), Deepen({m}, {b}, 0, FALSE, 0, {None})}

Odd == {[Whole0({m}) EXCEPT !.sideband = FALSE], Whole0({y}), Whole0({})}

MCNeeds == Plain \cup Odd \cup {[n EXCEPT !.multiAck = "detailed"] : n \in Deepening}

MCHaves == {a, x, y}

MCFetches ==
  Deepening \cup Odd \cup
  {[Whole0(ws) EXCEPT !.haves = hs, !.done = dn, !.waitForDone = wd, !.wantRefs = wr] :
     ws \in {{m}, {b, x}, {v}, {}}, hs \in {<<>>, <<a>>, <<y>>, <<y, x>>, <<a, x, a>>},
     dn \in BOOLEAN, wd \in BOOLEAN, wr \in {{}, {"dev"}}}
  \cup {[Deepen({m}, {b}, d, FALSE, 0, {}) EXCEPT !.haves = <<b>>] : d \in 1..3}
=============================================================================
