------------------------------ MODULE MCDiff3 ------------------------------
(* Instances of Diff3 for TLC. *)
EXTENDS Diff3, TLC

CONSTANTS word, empty, mid, bin, mt, mb, ms, me

(* empty is the empty line; the others are of one to three bytes. *)
MCLines == {word, empty, mid, bin, mt, mb, ms, me}
MCSize == [l \in MCLines |-> IF l = empty THEN 0 ELSE IF l = word THEN 2 ELSE IF l = mid THEN 3 ELSE 1]

Short(n) == UNION {[1..k -> {word, empty}] : k \in 0..n}

(* The texts of up to three lines; those of a line between two short ones; *)
(* a base there is none of; and files that are no text.                    *)
Texts == Short(3) \ {<<>>}
Around == {p \o <<mid>> \o q : p \in Short(1), q \in Short(1)}

MergeOf(o, a, b) == [base |-> o, target |-> a, source |-> b]

(* The texts of TestMyersDiff and of TestDiff3 (diff_test.go). *)
Tested ==
  {MergeOf(<<word, empty, mid, word, empty, empty, word>>, <<mid, empty, word, empty, word, mid>>, <<word, empty, mid>>),
   MergeOf(<<word, empty, mid, mt, mb, ms>>, <<word, mt, mb, empty, mid, ms, me>>, <<word, mt, empty, mid, mb, ms, me>>)}

(* One line more than a text has. *)
Long == <<word, mid, word, mid, word, mid, word, mid>>

MCMerges ==
  {MergeOf(o, a, b) : o \in Texts \cup {<<>>}, a \in Texts, b \in Texts}
    \cup {MergeOf(o, a, b) : o \in Around, a \in Around, b \in Around}
    \cup {MergeOf(o, <<word>>, b) : o \in {<<>>, <<bin>>}, b \in {<<empty>>, <<bin, word>>, Long}}
    \cup Tested

MCBuffers == {2, 5, 64}
=============================================================================
