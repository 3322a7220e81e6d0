--------------------------- MODULE ObjectIterator ---------------------------
(***************************************************************************)
(* object.go's ObjectIterator: a walk over a queue of objects, each with   *)
(* its depth, that returns an object once and never what is excluded.  It  *)
(* is the connectivity check of receive-pack, the source of every pack,    *)
(* and the walk behind negotiation, deepening and the log.                 *)
(***************************************************************************)
EXTENDS ObjectGraph, Naturals, Sequences, SequencesExt

CONSTANT Annotated  \* the objects that are annotated tags

(* A tag is of one object. *)
ASSUME ObjectIteratorAssumption ==
  /\ IsFiniteSet(Objects)
  /\ Annotated \subseteq Objects \ Commits
  /\ \A v \in Annotated : \E o \in Objects : Links[v] = {o}

Walks ==
  [kind : {"all", "commit"}, maxDepth : Nat, queue : Seq(Objects \X Nat),
   excludes : SUBSET Objects, out : Seq(Objects \X Nat), failed : BOOLEAN]

NewObjectIterator(kind, maxDepth) ==
  [kind |-> kind, maxDepth |-> maxDepth, queue |-> <<>>, excludes |-> {},
   out |-> <<>>, failed |-> FALSE]

(* IncludeAtDepth, for each object of S: an excluded one is not queued,    *)
(* nor is any beyond MaxDepth, where 0 means no limit.                     *)
IncludeAll(w, S, depth) ==
  LET kept == IF w.maxDepth > 0 /\ depth > w.maxDepth THEN {} ELSE S \ w.excludes
      oids == SetToSeq(kept)
  IN  [w EXCEPT !.queue = @ \o [i \in DOMAIN oids |-> <<oids[i], depth>>]]

(* Exclude: the object, the parents of a commit but not what is behind     *)
(* them, and for a walk over everything its tree and all below it.         *)
ExcludedBy(kind, o) ==
  LET parents == IF o \in Commits THEN Parents[o] ELSE {}
      content == IF o \in Annotated \/ kind = "commit" THEN {}
                 ELSE UNION {Reach[t] : t \in Links[o] \ parents}
  IN  {o} \cup parents \cup content

Exclude(w, S) == [w EXCEPT !.excludes = @ \cup UNION {ExcludedBy(w.kind, o) : o \in S}]

(* includeContentRefs: what is queued behind o. *)
ContentRefs(kind, o) ==
  IF kind = "all" \/ o \in Annotated THEN Links[o]
  ELSE IF o \in Commits THEN Parents[o] ELSE {}

(* Mutant of Step: the queue is a stack. *)
StepDepthFirst(w, store) ==
  LET o == w.queue[Len(w.queue)][1]
      depth == w.queue[Len(w.queue)][2]
      popped == [w EXCEPT !.queue = SubSeq(@, 1, Len(@) - 1)]
      returned == w.kind = "all" \/ o \in Commits
      visited == [popped EXCEPT !.excludes = @ \cup {o},
                    !.out = IF returned THEN Append(@, <<o, depth>>) ELSE @]
  IN  IF o \in w.excludes THEN popped
      ELSE IF o \notin store THEN [popped EXCEPT !.queue = <<>>, !.failed = TRUE]
      ELSE IncludeAll(visited, ContentRefs(w.kind, o), depth + 1)

(* One round of Next: an object that is excluded or has been seen is       *)
(* dropped, one the store lacks ends the walk with an error, any other is  *)
(* marked and what it refers to queued; a walk over commits returns only   *)
(* these.                                                                  *)
Step(w, store) ==
  LET o == w.queue[1][1]
      depth == w.queue[1][2]
      popped == [w EXCEPT !.queue = Tail(@)]
      returned == w.kind = "all" \/ o \in Commits
      visited == [popped EXCEPT !.excludes = @ \cup {o},
                    !.out = IF returned THEN Append(@, <<o, depth>>) ELSE @]
  IN  IF o \in w.excludes THEN popped
      ELSE IF o \notin store THEN [popped EXCEPT !.queue = <<>>, !.failed = TRUE]
      ELSE IncludeAll(visited, ContentRefs(w.kind, o), depth + 1)

(* Next until it returns nothing, or an error. *)
Walked(walk, store) ==
  LET run[w \in Walks] == IF w.queue = <<>> THEN w ELSE run[Step(w, store)]
  IN  run[walk]

Returned(walk) == {walk.out[i][1] : i \in DOMAIN walk.out}
-----------------------------------------------------------------------------
(* What a walk promises.  From, Without and Beyond are the objects that    *)
(* were included, excluded, and the deepest level.                         *)

(* The objects n steps or less away from the set From along paths that     *)
(* avoid the objects in Without, for each n up to deepest.                 *)
Within(kind, From, Without, deepest) ==
  LET further(S) == S \cup ((UNION {ContentRefs(kind, o) : o \in S}) \ Without)
      level[n \in 0..deepest] == IF n = 0 THEN From \ Without ELSE further(level[n - 1])
  IN  level

Exactly(walk, kind, within, deepest, store) ==
  LET returned == IF kind = "all" THEN within[deepest] ELSE within[deepest] \cap Commits
  IN  /\ walk.failed <=> ~(within[deepest] \subseteq store)
      /\ ~walk.failed => Returned(walk) = returned
      /\ \A i \in DOMAIN walk.out :
           /\ \A j \in DOMAIN walk.out : walk.out[i][1] = walk.out[j][1] => i = j
           /\ \A n \in DOMAIN within : walk.out[i][1] \in within[n] <=> n >= walk.out[i][2]

(* A walk from the objects From that avoids what is excluded by Without    *)
(* returns every object it can reach, or reach within maxDepth steps, once *)
(* and with the length of the shortest path to it, and nothing else; it    *)
(* fails exactly when one of them is missing from the store.               *)
WalkIsExact(kind, maxDepth, From, Without, store) ==
  LET excluded == UNION {ExcludedBy(kind, o) : o \in Without}
      start == Exclude(NewObjectIterator(kind, maxDepth), Without)
      deepest == IF maxDepth = 0 THEN Cardinality(Objects) ELSE maxDepth
  IN  Exactly(Walked(IncludeAll(start, From, 0), store), kind,
              Within(kind, From, excluded, deepest), deepest, store)
=============================================================================
