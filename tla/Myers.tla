------------------------------- MODULE Myers -------------------------------
(***************************************************************************)
(* diff.go's myersDiffIterator: the linear-space form of Myers' algorithm. *)
(* A text is a sequence of lines; as in the code, lines count from 0 and a *)
(* piece of the two texts is i, j (where it starts) and n, m (how long it  *)
(* is).  The ranges where the texts differ come out in order; what lies    *)
(* between them is equal.                                                  *)
(***************************************************************************)
EXTENDS Integers, Sequences, SequencesExt

Larger(x, y) == IF x > y THEN x ELSE y
Smaller(x, y) == IF x < y THEN x ELSE y

Eq(A, B, i, j) == A[i + 1] = B[j + 1]

-----------------------------------------------------------------------------
(* The search for a middle snake in a piece p: at each h first forwards,   *)
(* then backwards over the diagonals k.  b keeps the furthest x on each    *)
(* diagonal modulo z, the backward half from z on.  It ends with a split:  *)
(* the piece to come back to and the size of what is left of this one; or  *)
(* with none, when the shorter side of the piece is all equal.             *)

ZOf(n, m) == 2 * (Smaller(n, m) + 1)

Searches(size) ==
  [h : Nat, k : Int, back : BOOLEAN, b : [0..size - 1 -> Nat], split : Seq(Int), end : BOOLEAN]

KMin(p, h) == 2 * Larger(0, h - p.m) - h
KMax(p, h) == h - 2 * Larger(0, h - p.n)

Parity(p) == (p.n + p.m) % 2
HMax(p) == (p.n + p.m + Parity(p)) \div 2

(* From <<u, v>>, the x up to which lines are equal. *)
SnakeEnd(A, B, p, back, u, v) ==
  LET same(x, y) == IF back THEN Eq(A, B, p.i + p.n - 1 - x, p.j + p.m - 1 - y)
                    ELSE Eq(A, B, p.i + x, p.j + y)
      run[x \in 0..p.n] ==
        IF x < p.n /\ v + x - u < p.m /\ same(x, v + x - u) THEN run[x + 1] ELSE x
  IN  IF u > p.n THEN u ELSE run[u]

(* Where a path on the diagonal k starts: below or right of the furthest   *)
(* one on a neighbouring diagonal.                                         *)
StartOf(p, s) ==
  LET half == IF s.back THEN p.z ELSE 0
      below == s.b[half + ((s.k - 1) % p.z)]
      above == s.b[half + ((s.k + 1) % p.z)]
  IN  IF s.k = -s.h \/ (s.k # s.h /\ below < above) THEN above ELSE below + 1

(* A path meets one from the other end. *)
Overlap(p, s, b, x) ==
  LET kk == p.n - p.m - s.k
  IN  IF s.back THEN Parity(p) = 0 /\ kk \in -s.h..s.h /\ x + b[kk % p.z] >= p.n
      ELSE Parity(p) = 1 /\ kk \in 1 - s.h..s.h - 1 /\ x + b[p.z + (kk % p.z)] >= p.n

(* <<i, n, j, m>> to come back to, and the n and m to go on with. *)
SplitAt(p, back, u, v, x, y) ==
  IF back THEN <<p.i + p.n - u, u, p.j + p.m - v, v, p.n - x, p.m - y>>
  ELSE <<p.i + x, p.n - x, p.j + y, p.m - y, u, v>>

NextProbe(p, s) ==
  IF s.k + 2 <= KMax(p, s.h) THEN [s EXCEPT !.k = @ + 2]
  ELSE IF ~s.back THEN [s EXCEPT !.back = TRUE, !.k = KMin(p, s.h)]
  ELSE IF s.h < HMax(p)
  THEN [s EXCEPT !.h = @ + 1, !.back = FALSE, !.k = KMin(p, s.h + 1)]
  ELSE [s EXCEPT !.end = TRUE]

(* A path from x = u to x = end on the diagonal s.k. *)
Advance(p, s, u, end) ==
  LET b == [s.b EXCEPT ![(IF s.back THEN p.z ELSE 0) + (s.k % p.z)] = end]
      least == IF s.back THEN 0 ELSE 1
  IN  IF ~Overlap(p, s, b, end) THEN NextProbe(p, [s EXCEPT !.b = b])
      ELSE IF s.h > least \/ end # u
      THEN [s EXCEPT !.split = SplitAt(p, s.back, u, u - s.k, end, end - s.k)]
      ELSE [s EXCEPT !.end = TRUE]

ProbeFrom(A, B, p, s, u) == Advance(p, s, u, SnakeEnd(A, B, p, s.back, u, u - s.k))

Probe(A, B, p, s) == ProbeFrom(A, B, p, s, StartOf(p, s))

Search(A, B, p, size) ==
  LET start == [h |-> 0, k |-> 0, back |-> FALSE, b |-> [x \in 0..size - 1 |-> 0],
                split |-> <<>>, end |-> FALSE]
      run[s \in Searches(size)] ==
        IF s.end \/ s.split # <<>> THEN s.split ELSE run[Probe(A, B, p, s)]
  IN  run[start]

-----------------------------------------------------------------------------
(* diff: pieces are split until one of their sides is empty; what is left  *)
(* of the other is deleted or inserted.                                    *)
Inside(A, B, i, n, j, m) == i + n <= Len(A) /\ j + m <= Len(B)

Diffs(A, B) ==
  {d \in [i : Nat, n : Nat, j : Nat, m : Nat, z : Nat, stack : Seq(Nat \X Nat \X Nat \X Nat),
          ranges : Seq([delStart : Nat, delEnd : Nat, insStart : Nat, insEnd : Nat]), end : BOOLEAN] :
     /\ Inside(A, B, d.i, d.n, d.j, d.m)
     /\ d.n > 0 /\ d.m > 0 => d.z = ZOf(d.n, d.m)
     /\ \A q \in DOMAIN d.stack :
          Inside(A, B, d.stack[q][1], d.stack[q][2], d.stack[q][3], d.stack[q][4])}

NewDiff(A, B) ==
  [i |-> 0, n |-> Len(A), j |-> 0, m |-> Len(B), z |-> ZOf(Len(A), Len(B)),
   stack |-> <<>>, ranges |-> <<>>, end |-> FALSE]

RangeOf(d) ==
  [delStart |-> d.i, delEnd |-> d.i + d.n, insStart |-> d.j, insEnd |-> d.j + d.m]

(* A range that touches the one before it is joined to it. *)
Emit(d) ==
  LET last == Len(d.ranges)
      touches == last > 0 /\ (d.ranges[last].delEnd = d.i \/ d.ranges[last].insEnd = d.j)
  IN  IF d.n + d.m = 0 THEN d.ranges
      ELSE IF touches
      THEN [d.ranges EXCEPT ![last].delEnd = d.i + d.n, ![last].insEnd = d.j + d.m]
      ELSE Append(d.ranges, RangeOf(d))

Pop(d) ==
  IF d.stack = <<>> THEN [d EXCEPT !.end = TRUE]
  ELSE LET top == Last(d.stack)
       IN  [d EXCEPT !.i = top[1], !.n = top[2], !.j = top[3], !.m = top[4],
                     !.z = ZOf(top[2], top[4]), !.stack = Front(@)]

Split(d, s) ==
  [d EXCEPT !.stack = Append(@, SubSeq(s, 1, 4)), !.n = s[5], !.m = s[6], !.z = ZOf(s[5], s[6])]

(* Mutant of SkipEqual: only the old text moves on. *)
SkipEqualOld(d) ==
  LET e == Smaller(d.n, d.m)
  IN  IF d.n = d.m THEN d ELSE [d EXCEPT !.i = @ + e, !.n = @ - e, !.m = @ - e]

(* All of the shorter side is equal to the start of the longer one. *)
SkipEqual(d) ==
  LET e == Smaller(d.n, d.m)
  IN  IF d.n = d.m THEN d
      ELSE [d EXCEPT !.i = @ + e, !.j = @ + e, !.n = @ - e, !.m = @ - e]

Searched(d, s) == IF s # <<>> THEN Split(d, s) ELSE SkipEqual(d)

DiffStep(A, B, d, size) ==
  IF d.n = 0 \/ d.m = 0 THEN Pop([d EXCEPT !.ranges = Emit(d)])
  ELSE Searched(d, Search(A, B, d, size))

DiffRanges(A, B) ==
  LET size == 2 * ZOf(Len(A), Len(B))
      run[d \in Diffs(A, B)] == IF d.end THEN d.ranges ELSE run[DiffStep(A, B, d, size)]
  IN  run[NewDiff(A, B)]

-----------------------------------------------------------------------------
(* next: the edits, in order.  Two equal texts give none at all.           *)
Equal(x, y, count) == [t \in 1..count |-> [kind |-> "eql", old |-> x + t - 1, new |-> y + t - 1]]
Deleted(from, to) == [t \in 1..to - from |-> [kind |-> "del", old |-> from + t - 1, new |-> -1]]
Inserted(from, to) == [t \in 1..to - from |-> [kind |-> "ins", old |-> -1, new |-> from + t - 1]]

EditsOf(A, B, rs) ==
  LET x(q) == IF q = 1 THEN 0 ELSE rs[q - 1].delEnd
      y(q) == IF q = 1 THEN 0 ELSE rs[q - 1].insEnd
      before(q) == Equal(x(q), y(q), Smaller(rs[q].delStart - x(q), rs[q].insStart - y(q)))
      of(q) == before(q) \o Deleted(rs[q].delStart, rs[q].delEnd)
                         \o Inserted(rs[q].insStart, rs[q].insEnd)
      last == Len(rs)
      after == Equal(x(last + 1), y(last + 1), Smaller(Len(A) - x(last + 1), Len(B) - y(last + 1)))
  IN  IF rs = <<>> THEN <<>>
      ELSE FlattenSeq([q \in DOMAIN rs |-> of(q)]) \o after

Edits(A, B) == EditsOf(A, B, DiffRanges(A, B))

(* get: for each line of A the line of B it is matched with, or -1.        *)
MatchesOf(A, es) ==
  [o \in 0..Len(A) - 1 |->
     IF \E q \in DOMAIN es : es[q].kind = "eql" /\ es[q].old = o
     THEN es[CHOOSE q \in DOMAIN es : es[q].kind = "eql" /\ es[q].old = o].new
     ELSE -1]

Matches(A, B) == MatchesOf(A, Edits(A, B))

-----------------------------------------------------------------------------
(* The length of a longest common subsequence. *)
LCS(A, B) ==
  LET l[q \in (0..Len(A)) \X (0..Len(B))] ==
        LET x == q[1]
            y == q[2]
        IN  IF x = 0 \/ y = 0 THEN 0
            ELSE IF A[x] = B[y] THEN l[<<x - 1, y - 1>>] + 1
            ELSE Larger(l[<<x - 1, y>>], l[<<x, y - 1>>])
  IN  l[<<Len(A), Len(B)>>]

(* How many of the first q edits are of these kinds. *)
Count(es, q, kinds) == Cardinality({t \in 1..q : es[t].kind \in kinds})

Exact(A, B, es) ==
  LET last == Len(es)
      old(q) == Count(es, q, {"eql", "del"})
      new(q) == Count(es, q, {"eql", "ins"})
  IN  /\ \A q \in 1..last :
           /\ es[q].kind # "ins" => es[q].old = old(q - 1)
           /\ es[q].kind # "del" => es[q].new = new(q - 1)
           /\ es[q].kind = "eql" => Eq(A, B, es[q].old, es[q].new)
      /\ old(last) = Len(A) /\ new(last) = Len(B)
      /\ Count(es, last, {"eql"}) = LCS(A, B)

(* The edits of two different texts lead from A to B: they keep or delete  *)
(* each line of A and keep or insert each line of B, in order, keep equal  *)
(* lines only, and no edits with fewer deletions and insertions do.        *)
EditsAreExact(A, B) == A # B => Exact(A, B, Edits(A, B))
=============================================================================
