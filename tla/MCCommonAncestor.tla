-------------------------- MODULE MCCommonAncestor --------------------------
(* Instances of CommonAncestor for TLC: every small commit graph. *)
EXTENDS CommonAncestor

(* No parent, one, or two different ones; the order of two parents is that *)
(* of their age.                                                           *)
SomeParents(c) ==
  {<<>>} \cup {<<p>> : p \in 1..(c - 1)}
         \cup {s \in (1..(c - 1)) \X (1..(c - 1)) : s[1] > s[2]}

Graphs[n \in 1..6] ==
  IF n = 1 THEN {<< <<>> >>}
  ELSE {Append(g, s) : g \in Graphs[n - 1], s \in SomeParents(n)}

FiveOrSix == Graphs[5] \cup Graphs[6]

(* The youngest commit with any other one, when the two reach the whole    *)
(* graph: commits neither reaches play no part, and the algorithm treats   *)
(* its arguments alike.                                                    *)
WholeGraphPairs(h) ==
  LET anc == Ancestors(h)
      b == Len(h)
  IN  {<<a, b>> : a \in {a \in 1..b : anc[a] \cup anc[b] = 1..b}}

MCTimes == 1..7

(* All commits within one second, as the tests make them ... *)
EqualTimes(h) == {[c \in DOMAIN h |-> 1]}

(* ... up to five commits on clocks of two seconds that may run backwards, *)
(* and of more commits every one younger than its parents.                 *)
MixedTimes(h) ==
  IF Len(h) <= 5 THEN [DOMAIN h -> 1..2] ELSE {[c \in DOMAIN h |-> c]}

(* Seven commits of one second: 4 and 6 both merge 2 and 3, 5 follows 4    *)
(* and 7 merges 4 and 6.  Of the common ancestors 1 to 4 of 5 and 7, the   *)
(* best is 4.                                                              *)
TwiceMerged == {<< <<>>, <<1>>, <<1>>, <<2, 3>>, <<4>>, <<2, 3>>, <<4, 6>> >>}
FiveAndSeven(h) == {<<5, 7>>}
=============================================================================
