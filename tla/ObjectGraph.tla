---------------------------- MODULE ObjectGraph ----------------------------
(***************************************************************************)
(* The objects two repositories may hold and what each names: a commit its *)
(* parents and its tree, a tree its entries (submodules excepted), a tag   *)
(* its target.  An object is named by a hash of its content, so nothing    *)
(* here ever changes; a repository only has more or fewer of them.         *)
(***************************************************************************)
CONSTANTS
  Objects,   \* every object
  Commits,   \* those that are commits
  Parents,   \* Parents[c]: the parents of the commit c
  Links      \* Links[o]: every object o names

ASSUME ObjectGraphAssumption ==
  /\ Commits \subseteq Objects
  /\ Parents \in [Commits -> SUBSET Commits]
  /\ Links \in [Objects -> SUBSET Objects]
  /\ \A c \in Commits : Parents[c] \subseteq Links[c]

Closed(S) == \A o \in S : Links[o] \subseteq S

(* What a walk over everything reaches from the objects S: the least       *)
(* closed set that holds them.                                             *)
Closure(S) ==
  {o \in Objects : \A T \in SUBSET Objects : S \subseteq T /\ Closed(T) => o \in T}

Reach == [o \in Objects |-> Closure({o})]

(* The commits a walk over commits reaches from the commit c, c included. *)
AncestorsOf(c) ==
  {d \in Commits : \A T \in SUBSET Commits :
     c \in T /\ (\A e \in T : Parents[e] \subseteq T) => d \in T}

Ancestry == [c \in Commits |-> AncestorsOf(c)]
=============================================================================
