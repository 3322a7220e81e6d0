------------------------------ MODULE History ------------------------------
(***************************************************************************)
(* The commit graph.  A history maps every commit to the sequence of its   *)
(* parents; a commit is a number and its parents are smaller ones, since a *)
(* commit is named by a hash of its content and so is younger than them.   *)
(***************************************************************************)
EXTENDS Naturals, Sequences

Parents(history, c) == {history[c][i] : i \in DOMAIN history[c]}

(* Commits are numbered from 1, parents before their children. *)
IsHistory(history) ==
  /\ history \in Seq(Seq(Nat))
  /\ \A c \in DOMAIN history : Parents(history, c) \subseteq 1..(c - 1)

(* Ancestors(h)[c]: the commits reachable from c, c included. *)
Ancestors(history) ==
  LET anc[c \in DOMAIN history] ==
        {c} \cup UNION {anc[p] : p \in Parents(history, c)}
  IN  anc

CommonAncestors(history, a, b) ==
  Ancestors(history)[a] \cap Ancestors(history)[b]

(* The common ancestors no other common ancestor descends from. *)
BestCommonAncestors(history, a, b) ==
  LET anc == Ancestors(history)
      common == anc[a] \cap anc[b]
  IN  {c \in common : \A d \in common : c \in anc[d] => d = c}
=============================================================================
