--------------------------- MODULE CommonAncestor ---------------------------
(***************************************************************************)
(* merge.go's commonAncestor and getDescendent: how a merge finds its      *)
(* base.  Both walk the commit graph backwards with one priority queue,    *)
(* youngest time stamp first.  container/heap does not say which of two    *)
(* entries with one time stamp comes out first, so the model takes any.    *)
(***************************************************************************)
EXTENDS History, Bags

CONSTANTS
  Histories,   \* the commit graphs to start from
  Times,       \* the committer time stamps
  TimesOf(_),  \* TimesOf(h): the time stamps the commits of h may carry
  Queries(_),  \* Queries(h): the pairs of commits to merge
  NoCommit     \* no result yet, or nil

(* Every commit has a time stamp, and the commits to merge exist. *)
ASSUME CommonAncestorAssumption ==
  /\ Times \subseteq Nat
  /\ NoCommit \notin Nat
  /\ \A h \in Histories :
       /\ IsHistory(h)
       /\ TimesOf(h) \subseteq [DOMAIN h -> Times]
       /\ Queries(h) \subseteq (DOMAIN h) \X (DOMAIN h)

VARIABLES
  history,   \* the commit graph
  time,      \* time[c]: the committer time stamp of c
  oid1, oid2,
  queue,     \* a bag of <<commit, kind>>
  seen,      \* seen[k]: parentsOf1 and parentsOf2
  both,      \* parentsOfBoth, in the order of discovery
  stale,     \* staleOIDs
  node,      \* the entry last popped
  todo,      \* its parents not yet looked at
  walk,      \* getDescendent's queue, a bag of <<commit, kind>>
  pair,      \* getDescendent's arguments
  result,    \* what the call returns
  pc

vars == <<history, time, oid1, oid2, queue, seen, both, stale, node, todo,
          walk, pair, result, pc>>

graph == <<history, time, oid1, oid2>>

Range(s) == {s[i] : i \in DOMAIN s}

(* The entries heap.Pop may return. *)
Youngest(q) ==
  {e \in BagToSet(q) : \A f \in BagToSet(q) : time[f[1]] <= time[e[1]]}

Remove1(q, e) == q (-) SetToBag({e})
Insert(q, e) == q (+) SetToBag({e})

(* Mutants of PushParents: every parent counts as stale; only the first    *)
(* parent is followed.                                                     *)
PushStaleParents(q, c, kind) ==
  q (+) SetToBag({<<p, "stale">> : p \in Parents(history, c)})

PushFirstParent(q, c, kind) ==
  q (+) SetToBag({<<history[c][i], kind>> : i \in {1} \cap DOMAIN history[c]})

(* pushParents: one entry per parent, whether or not it was seen before. *)
PushParents(q, c, kind) ==
  LET new == {<<p, kind>> : p \in Parents(history, c)}
  IN  q (+) SetToBag(new)

Init ==
  /\ history \in Histories
  /\ time \in TimesOf(history)
  /\ \E q \in Queries(history) : oid1 = q[1] /\ oid2 = q[2]
  /\ queue = SetToBag({<<oid1, "one">>, <<oid2, "two">>})
  /\ seen = [k \in {"one", "two"} |-> {}]
  /\ both = <<>>
  /\ stale = {}
  /\ node = NoCommit
  /\ todo = <<>>
  /\ walk = EmptyBag
  /\ pair = <<NoCommit, NoCommit>>
  /\ result = IF oid1 = oid2 THEN oid1 ELSE NoCommit
  /\ pc = IF oid1 = oid2 THEN "done" ELSE "pop"

Other(kind) == IF kind = "one" THEN "two" ELSE "one"
End(kind) == IF kind = "one" THEN oid1 ELSE oid2

(* A walk from one side reached the other end: that end is the base. *)
PopOtherEnd ==
  /\ pc = "pop"
  /\ \E e \in Youngest(queue) :
       /\ e[2] # "stale"
       /\ e[1] = End(Other(e[2]))
       /\ result' = e[1]
  /\ pc' = "done"
  /\ UNCHANGED <<graph, queue, seen, both, stale, node, todo, walk, pair>>

(* Mutant of PopSeen: it looks at the entry without taking it. *)
PeekSeen ==
  /\ pc = "pop"
  /\ \E e \in Youngest(queue) :
       /\ e[2] # "stale"
       /\ e[1] # End(Other(e[2]))
       /\ e[1] \notin seen[Other(e[2])]
       /\ e[1] \in seen[e[2]]
  /\ UNCHANGED vars

(* A commit this side has seen before and the other side has not. *)
PopSeen ==
  /\ pc = "pop"
  /\ \E e \in Youngest(queue) :
       /\ e[2] # "stale"
       /\ e[1] # End(Other(e[2]))
       /\ e[1] \notin seen[Other(e[2])]
       /\ e[1] \in seen[e[2]]
       /\ queue' = Remove1(queue, e)
  /\ pc' = IF queue' = EmptyBag THEN "choose" ELSE "pop"
  /\ UNCHANGED <<graph, seen, both, stale, node, todo, walk, pair, result>>

(* Any other entry: record the commit, then look at its parents. *)
PopExpand ==
  /\ pc = "pop"
  /\ \E e \in Youngest(queue) :
       LET c == e[1]
           kind == e[2]
           met == kind # "stale" /\ c \in seen[Other(kind)]
       IN  /\ kind # "stale" => c # End(Other(kind)) /\ (met \/ c \notin seen[kind])
           /\ both' = IF met /\ c \notin Range(both) THEN Append(both, c) ELSE both
           /\ seen' = IF kind = "stale" \/ met THEN seen
                      ELSE [seen EXCEPT ![kind] = @ \cup {c}]
           /\ stale' = IF kind = "stale" THEN stale \cup {c} ELSE stale
           /\ queue' = Remove1(queue, e)
           /\ node' = e
           /\ todo' = history[c]
  /\ pc' = "parents"
  /\ UNCHANGED <<graph, walk, pair, result>>

IsStale(p) == node[1] \in Range(both) \/ p \in stale

Queued(p) == {e \in BagToSet(queue) : e[1] = p}

(* A parent of a base, or one that is known to be stale, and queued: one   *)
(* of its entries is turned stale in place.                                *)
MarkStale ==
  /\ pc = "parents" /\ todo # <<>>
  /\ IsStale(Head(todo))
  /\ \E e \in Queued(Head(todo)) :
       queue' = Insert(Remove1(queue, e), <<Head(todo), "stale">>)
  /\ todo' = Tail(todo)
  /\ UNCHANGED <<graph, seen, both, stale, node, walk, pair, result, pc>>

PushParent ==
  /\ pc = "parents" /\ todo # <<>>
  /\ ~(IsStale(Head(todo)) /\ Queued(Head(todo)) # {})
  /\ queue' = Insert(queue, <<Head(todo), IF IsStale(Head(todo)) THEN "stale" ELSE node[2]>>)
  /\ todo' = Tail(todo)
  /\ UNCHANGED <<graph, seen, both, stale, node, walk, pair, result, pc>>

(* After each expanded commit: stop when only stale entries are left. *)
EndOfParents ==
  /\ pc = "parents" /\ todo = <<>>
  /\ pc' = IF \A e \in BagToSet(queue) : e[2] = "stale" THEN "choose" ELSE "pop"
  /\ UNCHANGED <<graph, queue, seen, both, stale, node, todo, walk, pair, result>>

(* errNoCommonAncestor. *)
NoneFound ==
  /\ pc = "choose" /\ both = <<>>
  /\ pc' = "failed"
  /\ UNCHANGED <<graph, queue, seen, both, stale, node, todo, walk, pair, result>>

(* The first commit found on both sides ... *)
FirstFound ==
  /\ pc = "choose" /\ both # <<>>
  /\ result' = Head(both)
  /\ both' = Tail(both)
  /\ pc' = "fold"
  /\ UNCHANGED <<graph, queue, seen, stale, node, todo, walk, pair>>

FoldDone ==
  /\ pc = "fold" /\ both = <<>>
  /\ pc' = "done"
  /\ UNCHANGED <<graph, queue, seen, both, stale, node, todo, walk, pair, result>>

(* ... is folded with the others through getDescendent. *)
FoldNext ==
  /\ pc = "fold" /\ both # <<>>
  /\ pair' = <<result, Head(both)>>
  /\ both' = Tail(both)
  /\ walk' = PushParents(PushParents(EmptyBag, result, "one"), Head(both), "two")
  /\ pc' = "walk"
  /\ UNCHANGED <<graph, queue, seen, stale, node, todo, result>>

(* Mutant of WalkFound: the ancestor is returned for the descendent. *)
WalkFoundAncestor ==
  /\ pc = "walk"
  /\ \E e \in Youngest(walk) :
       \/ e[2] = "one" /\ e[1] = pair[2] /\ result' = pair[2]
       \/ e[2] = "two" /\ e[1] = pair[1] /\ result' = pair[1]
  /\ pc' = "fold"
  /\ UNCHANGED <<graph, queue, seen, both, stale, node, todo, walk, pair>>

(* getDescendent: the walk from one argument reached the other. *)
WalkFound ==
  /\ pc = "walk"
  /\ \E e \in Youngest(walk) :
       \/ e[2] = "one" /\ e[1] = pair[2] /\ result' = pair[1]
       \/ e[2] = "two" /\ e[1] = pair[1] /\ result' = pair[2]
  /\ pc' = "fold"
  /\ UNCHANGED <<graph, queue, seen, both, stale, node, todo, walk, pair>>

WalkOn ==
  /\ pc = "walk"
  /\ \E e \in Youngest(walk) :
       /\ e # <<pair[2], "one">> /\ e # <<pair[1], "two">>
       /\ walk' = PushParents(Remove1(walk, e), e[1], e[2])
  /\ UNCHANGED <<graph, queue, seen, both, stale, node, todo, pair, result, pc>>

(* errDescendentNotFound: neither argument descends from the other. *)
WalkExhausted ==
  /\ pc = "walk" /\ walk = EmptyBag
  /\ result' = NoCommit
  /\ pc' = "failed"
  /\ UNCHANGED <<graph, queue, seen, both, stale, node, todo, walk, pair>>

Next ==
  \/ PopOtherEnd \/ PopSeen \/ PopExpand
  \/ MarkStale \/ PushParent \/ EndOfParents
  \/ NoneFound \/ FirstFound \/ FoldDone \/ FoldNext
  \/ WalkFound \/ WalkOn \/ WalkExhausted

Spec == Init /\ [][Next]_vars

(* One sequential call: it keeps running until it returns. *)
FairSpec == Spec /\ WF_vars(Next)
-----------------------------------------------------------------------------
TypeOK ==
  LET Commits == DOMAIN history
  IN  /\ time \in [Commits -> Times]
      /\ oid1 \in Commits /\ oid2 \in Commits
      /\ BagToSet(queue) \subseteq Commits \X {"one", "two", "stale"}
      /\ BagToSet(walk) \subseteq Commits \X {"one", "two"}
      /\ seen \in [{"one", "two"} -> SUBSET Commits]
      /\ Range(both) \cup stale \cup Range(todo) \subseteq Commits
      /\ result \in Commits \cup {NoCommit}
      /\ pc \in {"pop", "parents", "choose", "fold", "walk", "done", "failed"}

Best == BestCommonAncestors(history, oid1, oid2)

(* The base the call returns is the one best common ancestor: every other  *)
(* common ancestor is an ancestor of it.  A worse base would make the      *)
(* merge redo, or report as conflicts, changes both sides already share,   *)
(* and a criss-cross history must not be given an arbitrary base.          *)
BaseIsBest == pc = "done" => Best = {result}

(* "there are multiple common ancestors, b and d, but d is the best one    *)
(* because it is a descendent of b": the call fails only when no common    *)
(* ancestor descends from all the others.                                  *)
FailsOnlyWithoutUniqueBase ==
  pc = "failed" => \A c \in DOMAIN history : Best # {c}

(* Every call returns, although getDescendent keeps no set of the commits  *)
(* it has visited.                                                         *)
Returns == <>(pc \in {"done", "failed"})
=============================================================================
