---------------------------- MODULE Diff3Proofs ----------------------------
(***************************************************************************)
(* Theorems about the merge of a file: the chunks of diff3Iterator tile    *)
(* the three texts, the matches they are cut by come from exact edits,     *)
(* diff3Stream hands the reader the merged lines, and changes a line apart *)
(* merge without a conflict; for every three texts, every size of the      *)
(* lines and every size of the buffer.                                     *)
(***************************************************************************)
EXTENDS Diff3, MyersProofs

-----------------------------------------------------------------------------
(* Sequences in general. *)

Associates(a, b, c) == (a \o b) \o c = a \o (b \o c)

LEMMA Assoc ==
  ASSUME NEW S, NEW a \in Seq(S), NEW b \in Seq(S), NEW c \in Seq(S)
  PROVE  Associates(a, b, c)
<1>1. (a \o b) \o c = a \o (b \o c)
  OBVIOUS
<1> QED
  BY <1>1 DEF Associates

LEMMA FunctionIsSeq ==
  ASSUME NEW S, NEW n \in Nat, NEW s, s = [q \in 1..n |-> s[q]], \A q \in 1..n : s[q] \in S
  PROVE  s \in Seq(S) /\ Len(s) = n
OBVIOUS

(* Parts of a text. *)

IsPart(S, text, from, to, p) ==
  p \in Seq(S) /\ Len(p) = to - from /\ \A q \in 1..to - from : p[q] = text[from + q]

LEMMA PartIs ==
  ASSUME NEW S, NEW text \in Seq(S), NEW from \in Nat, NEW to \in Nat, from <= to, to <= Len(text)
  PROVE  IsPart(S, text, from, to, Part(text, from, to))
<1>1. Part(text, from, to) = [q \in 1..(to - (from + 1)) + 1 |-> text[(from + 1) + q - 1]]
  BY DEF Part
<1>2. (to - (from + 1)) + 1 = to - from /\ to - from \in Nat
  OBVIOUS
<1>3. ASSUME NEW q \in 1..to - from
      PROVE  (from + 1) + q - 1 = from + q /\ from + q \in 1..Len(text) /\ text[from + q] \in S
  <2>1. (from + 1) + q - 1 = from + q /\ from + q \in 1..Len(text)
    OBVIOUS
  <2> QED
    BY <2>1, ElementOfSeq
<1> DEFINE n == to - from
<1>4. Part(text, from, to) = [q \in 1..n |-> text[from + q]] /\ \A q \in 1..n : text[from + q] \in S
  BY <1>1, <1>2, <1>3
<1>5. n \in Nat
  BY <1>2
<1> HIDE DEF n
<1>6. Part(text, from, to) \in Seq(S) /\ Len(Part(text, from, to)) = n
      /\ \A q \in 1..n : Part(text, from, to)[q] = text[from + q]
  BY <1>4, <1>5
<1> QED
  BY <1>6 DEF n, IsPart

LEMMA PartAll ==
  ASSUME NEW S, NEW text \in Seq(S)
  PROVE  Part(text, 0, Len(text)) = text /\ Part(text, 0, 0) = <<>>
<1> DEFINE n == Len(text)  o == 0
<1>1. n \in Nat /\ o \in Nat /\ o = 0 /\ o <= n /\ o <= o
  OBVIOUS
<1>2. IsPart(S, text, o, n, Part(text, o, n))
  <2> HIDE DEF o, n
  <2>1. n <= Len(text)
    BY DEF n
  <2> QED
    BY <1>1, <2>1, PartIs
<1>3. IsPart(S, text, o, o, Part(text, o, o))
  <2> HIDE DEF o
  <2> QED
    BY <1>1, PartIs
<1> DEFINE p == Part(text, o, n)  e == Part(text, o, o)
<1>4. p \in Seq(S) /\ Len(p) = n /\ \A q \in 1..n : p[q] = text[q]
  <2>1. n - o = n /\ \A q \in 1..n : o + q = q
    BY <1>1
  <2> HIDE DEF n, o
  <2> QED
    BY <1>2, <2>1 DEF IsPart
<1>5. e \in Seq(S) /\ Len(e) = 0
  BY <1>3 DEF IsPart
<1> HIDE DEF p, e
<1>6. p = text
  BY <1>4, SeqEqual
<1>7. e = <<>>
  BY <1>5
<1> QED
  BY <1>6, <1>7 DEF p, e, o, n

LEMMA PartJoin ==
  ASSUME NEW S, NEW text \in Seq(S), NEW from \in Nat, NEW mid \in Nat, NEW to \in Nat,
         from <= mid, mid <= to, to <= Len(text)
  PROVE  Part(text, from, mid) \o Part(text, mid, to) = Part(text, from, to)
<1> DEFINE p == Part(text, from, mid)  r == Part(text, mid, to)  w == Part(text, from, to)
<1>1. IsPart(S, text, from, mid, p) /\ IsPart(S, text, mid, to, r) /\ IsPart(S, text, from, to, w)
  <2>1. mid <= Len(text) /\ from <= to
    OBVIOUS
  <2> QED
    BY <2>1, PartIs
<1> HIDE DEF p, r, w
<1>2. /\ p \in Seq(S) /\ Len(p) = mid - from /\ \A q \in 1..mid - from : p[q] = text[from + q]
      /\ r \in Seq(S) /\ Len(r) = to - mid /\ \A q \in 1..to - mid : r[q] = text[mid + q]
      /\ w \in Seq(S) /\ Len(w) = to - from /\ \A q \in 1..to - from : w[q] = text[from + q]
  BY <1>1 DEF IsPart
<1> DEFINE c == p \o r
<1>4. /\ c \in Seq(S) /\ Len(c) = to - from
      /\ \A q \in 1..mid - from : c[q] = p[q]
      /\ \A q \in 1..to - mid : c[(mid - from) + q] = r[q]
  <2> DEFINE n == mid - from  k == to - mid
  <2>1. n \in Nat /\ k \in Nat /\ n + k = to - from /\ Len(p) = n /\ Len(r) = k
    BY <1>2
  <2> HIDE DEF n, k
  <2>2. p \in Seq(S) /\ r \in Seq(S)
    BY <1>2
  <2>3. c \in Seq(S) /\ Len(c) = n + k
    BY <2>1, <2>2
  <2>4. \A q \in 1..n : c[q] = p[q]
    BY <2>1, <2>2
  <2>5. \A q \in 1..k : c[n + q] = r[q]
    BY <2>1, <2>2
  <2> QED
    BY <2>1, <2>3, <2>4, <2>5 DEF n, k
<1> HIDE DEF c
<1>5. ASSUME NEW q \in 1..to - from PROVE c[q] = w[q]
  <2>1. CASE q <= mid - from
    <3>1. q \in 1..mid - from
      BY <2>1
    <3> QED
      BY <1>2, <1>4, <3>1
  <2>2. CASE ~(q <= mid - from)
    <3> DEFINE t == q - (mid - from)
    <3>1. t \in 1..to - mid /\ (mid - from) + t = q /\ mid + t = from + q
      BY <2>2
    <3> HIDE DEF t
    <3>2. c[q] = r[t]
      BY <1>4, <3>1
    <3> QED
      BY <1>2, <3>1, <3>2
  <2> QED
    BY <2>1, <2>2
<1>6. c = w
  BY <1>2, <1>4, <1>5, SeqEqual
<1> QED
  BY <1>6 DEF c, p, r, w

(* A function that counts up as long as it is at a member of On.           *)
CountsUp(f, n, On) == f = [t \in 0..n |-> IF t \in On THEN f[t + 1] ELSE t]

LEMMA RunUp ==
  ASSUME NEW n \in Nat, NEW On \in SUBSET (0..n - 1), NEW f, f = CHOOSE g : CountsUp(g, n, On)
  PROVE  f[0] \in 0..n /\ f[0] \notin On /\ \A t \in 0..f[0] - 1 : t \in On
<1> DEFINE S == 0..n
           Stops == S \ On
           step == [t \in S |-> t + 1]
           value == [t \in S |-> t]
<1>1. \A t \in S \ Stops : step[t] \in S
  OBVIOUS
<1>2. \E g : CountsUp(g, n, On)
  <2>1. /\ Stops \in SUBSET S /\ \A t \in S \ Stops : step[t] \in S
        /\ \A t \in S : step[t] = t + 1 /\ value[t] = t /\ (t \in Stops <=> t \notin On)
    BY <1>1
  <2> HIDE DEF Stops, step, value, S
  <2>2. PICK g : Stepped(g, S, Stops, step, value)
    BY <2>1, StepFunction
  <2>3. \A t \in S : g[t] = IF t \in On THEN g[t + 1] ELSE t
    BY <2>1, <2>2 DEF Stepped
  <2>4. g = [t \in S |-> g[t]]
    BY <2>2 DEF Stepped
  <2>5. g = [t \in S |-> IF t \in On THEN g[t + 1] ELSE t]
    BY <2>3, <2>4
  <2> QED
    BY <2>5 DEF CountsUp, S
<1>3. CountsUp(f, n, On)
  BY <1>2, Zenon
<1>4. \A t \in S : f[t] = IF t \in On THEN f[t + 1] ELSE t
  BY <1>3 DEF CountsUp
<1> DEFINE Ends == {t \in Nat : t \in S /\ t \notin On}
<1>5. PICK e \in Ends : \A t \in Ends : e <= t
  <2>1. Ends \in SUBSET Nat /\ Ends # {}
    <3>1. n \in Ends
      OBVIOUS
    <3> QED
      BY <3>1
  <2> HIDE DEF Ends
  <2> QED
    BY <2>1, LeastNumber
<1>6. e \in Nat /\ e \in 0..n /\ e \notin On /\ \A t \in 0..e - 1 : t \in On /\ t \in S
  BY <1>5
<1> HIDE DEF Ends, S
<1> DEFINE T == {t \in Nat : t <= e => f[e - t] = e}
<1>7. T = Nat
  <2>1. 0 \in T
    <3>1. f[e] = e /\ e - 0 = e
      BY <1>4, <1>6 DEF S
    <3> QED
      BY <3>1
  <2>2. ASSUME NEW t \in T PROVE t + 1 \in T
    <3> SUFFICES ASSUME t + 1 <= e PROVE f[e - (t + 1)] = e
      OBVIOUS
    <3>1. e - (t + 1) \in 0..e - 1 /\ (e - (t + 1)) + 1 = e - t
      BY <1>6
    <3>2. f[e - (t + 1)] = f[e - t]
      BY <1>4, <1>6, <3>1
    <3>3. f[e - t] = e
      BY <1>6
    <3> QED
      BY <3>2, <3>3
  <2>3. T \in SUBSET Nat
    OBVIOUS
  <2> HIDE DEF T
  <2> QED
    BY <2>1, <2>2, <2>3, Climb
<1>8. f[0] = e
  <2>1. e \in T /\ e - e = 0
    BY <1>6, <1>7
  <2> QED
    BY <2>1
<1> QED
  BY <1>6, <1>8

-----------------------------------------------------------------------------
(* Where two texts are cut: no line of A from x on is matched with one of  *)
(* B before y.                                                             *)
Ahead(A, B, f, x, y) ==
  /\ Len(A) \in Nat /\ Len(B) \in Nat /\ Matched(A, B, f)
  /\ x \in 0..Len(A) /\ y \in 0..Len(B)
  /\ \A o \in 0..Len(A) - 1 : x <= o /\ f[o] # -1 => y <= f[o]

(* From x and y on the next i lines are matched.                           *)
RunsOn(A, f, x, y, i) == \A t \in 0..i - 1 : x + t < Len(A) /\ f[x + t] = y + t

LEMMA AheadRun ==
  ASSUME NEW A, NEW B, NEW f, NEW x, NEW y, Ahead(A, B, f, x, y),
         NEW i \in Nat, RunsOn(A, f, x, y, i)
  PROVE  Ahead(A, B, f, x + i, y + i)
<1> DEFINE n == Len(A)  m == Len(B)
<1>1. /\ n \in Nat /\ m \in Nat /\ Matched(A, B, f) /\ x \in 0..n /\ y \in 0..m
      /\ \A o \in 0..n - 1 : x <= o /\ f[o] # -1 => y <= f[o]
  BY DEF Ahead
<1>2. \A t \in 0..i - 1 : x + t < n /\ f[x + t] = y + t
  BY DEF RunsOn
<1>3. /\ f \in [0..n - 1 -> -1..m - 1]
      /\ \A o, p \in 0..n - 1 : o < p /\ f[o] # -1 /\ f[p] # -1 => f[o] < f[p]
  BY <1>1 DEF Matched
<1> HIDE DEF n, m
<1>4. CASE i = 0
  <2>1. x + i = x /\ y + i = y
    BY <1>1, <1>4
  <2> QED
    BY <2>1
<1>5. CASE i # 0
  <2> DEFINE t == i - 1  l == x + t
  <2>1. t \in 0..i - 1 /\ t \in Nat /\ t + 1 = i
    BY <1>5
  <2>2. l < n /\ f[l] = y + t /\ l \in 0..n - 1
    BY <1>1, <1>2, <2>1
  <2>3. f[l] \in -1..m - 1
    BY <1>3, <2>2
  <2>4. x + i = l + 1 /\ x + i \in 0..n /\ y + i = f[l] + 1 /\ y + i \in 0..m /\ f[l] # -1
    BY <1>1, <2>1, <2>2, <2>3
  <2>5. ASSUME NEW o \in 0..n - 1, x + i <= o, f[o] # -1 PROVE y + i <= f[o]
    <3>1. l < o
      BY <2>2, <2>4, <2>5
    <3>2. f[l] < f[o] /\ f[o] \in -1..m - 1
      BY <1>3, <2>2, <2>4, <2>5, <3>1
    <3> HIDE DEF l, t
    <3> QED
      BY <2>3, <2>4, <3>2
  <2> QED
    BY <1>1, <2>4, <2>5 DEF Ahead, n, m
<1> QED
  BY <1>4, <1>5

LEMMA RunSame ==
  ASSUME NEW S, NEW A \in Seq(S), NEW B \in Seq(S), NEW f, NEW x, NEW y, Ahead(A, B, f, x, y),
         NEW i \in Nat, RunsOn(A, f, x, y, i), NEW u, u = x + i, NEW v, v = y + i
  PROVE  Part(A, x, u) = Part(B, y, v)
<1> DEFINE n == Len(A)  m == Len(B)  p == Part(A, x, u)  r == Part(B, y, v)
<1>1. /\ n \in Nat /\ m \in Nat /\ Matched(A, B, f) /\ x \in 0..n /\ y \in 0..m
  BY DEF Ahead
<1>2. u \in 0..n /\ v \in 0..m
  BY AheadRun DEF Ahead
<1>3. \A t \in 0..i - 1 : x + t < n /\ f[x + t] = y + t
  BY DEF RunsOn
<1>4. /\ f \in [0..n - 1 -> -1..m - 1]
      /\ \A o \in 0..n - 1 : f[o] # -1 => Eq(A, B, o, f[o])
  BY <1>1 DEF Matched
<1>5. IsPart(S, A, x, u, p) /\ IsPart(S, B, y, v, r)
  <2>1. x \in Nat /\ u \in Nat /\ x <= u /\ u <= n /\ y \in Nat /\ v \in Nat /\ y <= v /\ v <= m
    BY <1>1, <1>2
  <2> QED
    BY <2>1, PartIs
<1> HIDE DEF n, m, p, r
<1>6. /\ p \in Seq(S) /\ Len(p) = i /\ \A q \in 1..i : p[q] = A[x + q]
      /\ r \in Seq(S) /\ Len(r) = i /\ \A q \in 1..i : r[q] = B[y + q]
  <2>1. u - x = i /\ v - y = i
    BY <1>1
  <2> QED
    BY <1>5, <2>1 DEF IsPart
<1>7. ASSUME NEW q \in 1..i PROVE p[q] = r[q]
  <2> DEFINE t == q - 1
  <2>0. t \in 0..i - 1 /\ t \in Nat /\ q = t + 1
    OBVIOUS
  <2>1. x + t \in 0..n - 1 /\ (x + t) + 1 = x + q /\ (y + t) + 1 = y + q /\ y + t # -1
    <3>1. x + t < n
      BY <1>3, <2>0
    <3> HIDE DEF t
    <3> QED
      BY <1>1, <2>0, <3>1
  <2> HIDE DEF t
  <2>2. Eq(A, B, x + t, y + t)
    BY <1>3, <1>4, <2>0, <2>1
  <2> QED
    BY <1>6, <2>1, <2>2 DEF Eq
<1>8. p = r
  BY <1>6, <1>7, SeqEqual
<1> QED
  BY <1>8 DEF p, r

LEMMA AheadKept ==
  ASSUME NEW A, NEW B, NEW f, NEW x, NEW y, Ahead(A, B, f, x, y),
         NEW o \in x..Len(A) - 1, f[o] # -1
  PROVE  Ahead(A, B, f, o, f[o]) /\ y <= f[o] /\ o \in 0..Len(A) - 1 /\ x <= o
<1> DEFINE n == Len(A)  m == Len(B)
<1>1. /\ n \in Nat /\ m \in Nat /\ Matched(A, B, f) /\ x \in 0..n /\ y \in 0..m
      /\ \A p \in 0..n - 1 : x <= p /\ f[p] # -1 => y <= f[p]
  BY DEF Ahead
<1>2. /\ f \in [0..n - 1 -> -1..m - 1]
      /\ \A q, p \in 0..n - 1 : q < p /\ f[q] # -1 /\ f[p] # -1 => f[q] < f[p]
  BY <1>1 DEF Matched
<1>3. o \in 0..n - 1 /\ x <= o
  BY <1>1
<1> HIDE DEF n, m
<1>4. y <= f[o] /\ f[o] \in -1..m - 1
  BY <1>1, <1>2, <1>3
<1>5. ASSUME NEW p \in 0..n - 1, o <= p, f[p] # -1 PROVE f[o] <= f[p]
  <2>1. CASE o = p
    BY <1>4, <2>1
  <2>2. CASE o # p
    <3>1. o < p
      BY <1>1, <1>3, <1>5, <2>2
    <3>2. f[o] < f[p] /\ f[p] \in -1..m - 1
      BY <1>2, <1>3, <1>5, <3>1
    <3> QED
      BY <1>4, <3>2
  <2> QED
    BY <2>1, <2>2
<1>6. o \in 0..n /\ f[o] \in 0..m
  BY <1>1, <1>3, <1>4
<1> QED
  BY <1>1, <1>3, <1>4, <1>5, <1>6 DEF Ahead, n, m

LEMMA AheadEnd ==
  ASSUME NEW A, NEW B, NEW f, NEW x, NEW y, Ahead(A, B, f, x, y)
  PROVE  Ahead(A, B, f, Len(A), Len(B))
<1> DEFINE n == Len(A)  m == Len(B)
<1>1. n \in Nat /\ m \in Nat /\ Matched(A, B, f)
  BY DEF Ahead
<1> HIDE DEF n, m
<1>2. n \in 0..n /\ m \in 0..m /\ \A o \in 0..n - 1 : ~(n <= o)
  BY <1>1
<1> QED
  BY <1>1, <1>2 DEF Ahead, n, m

-----------------------------------------------------------------------------
(* The next chunk. *)

Iters == [o : Nat, a : Nat, b : Nat, finished : BOOLEAN]

AllAhead(it) ==
  /\ it \in Iters
  /\ Ahead(merge.base, merge.target, matchA, it.o, it.a)
  /\ Ahead(merge.base, merge.source, matchB, it.o, it.b)

RunOf(i) ==
  RunsOn(merge.base, matchA, iter.o, iter.a, i) /\ RunsOn(merge.base, matchB, iter.o, iter.b, i)

LEMMA MismatchIs ==
  ASSUME AllAhead(iter), NEW i, i = Mismatch
  PROVE  i \in Nat /\ RunOf(i) /\ (i = 0 => ~(InBounds(0) /\ IsMatch(0)))
<1> DEFINE n == Len(merge.base)  o == iter.o  a == iter.a  b == iter.b
           On == {t \in 0..n : InBounds(t) /\ IsMatch(t)}
           f == CHOOSE g : CountsUp(g, n, On)
<1>1. n \in Nat /\ o \in Nat /\ a \in Nat /\ b \in Nat
  BY DEF AllAhead, Ahead, Iters
<1>2. \A t \in 0..n : IsMatch(t) <=> o + t < n /\ matchA[o + t] = a + t /\ matchB[o + t] = b + t
  BY DEF IsMatch
<1>3. On \in SUBSET (0..n - 1)
  <2> HIDE DEF n, o, a, b
  <2> QED
    BY <1>1, <1>2
<1>4. i = f[0]
  <2>1. \A g : CountsUp(g, n, On) <=>
               g = [t \in 0..n |-> IF InBounds(t) /\ IsMatch(t) THEN g[t + 1] ELSE t]
    <3> SUFFICES ASSUME NEW g
                 PROVE [t \in 0..n |-> IF t \in On THEN g[t + 1] ELSE t]
                         = [t \in 0..n |-> IF InBounds(t) /\ IsMatch(t) THEN g[t + 1] ELSE t]
      BY DEF CountsUp
    <3>1. \A t \in 0..n : t \in On <=> InBounds(t) /\ IsMatch(t)
      OBVIOUS
    <3> HIDE DEF On, n
    <3> QED
      BY <3>1
  <2>2. i = (CHOOSE g : g = [t \in 0..n |-> IF InBounds(t) /\ IsMatch(t) THEN g[t + 1] ELSE t])[0]
    BY DEF Mismatch
  <2> HIDE DEF On, n
  <2>3. (CHOOSE g : g = [t \in 0..n |-> IF InBounds(t) /\ IsMatch(t) THEN g[t + 1] ELSE t]) = f
    BY <2>1
  <2> QED
    BY <2>2, <2>3
<1> HIDE DEF On, f
<1>5. f[0] \in 0..n /\ f[0] \notin On /\ \A t \in 0..f[0] - 1 : t \in On
  BY <1>1, <1>3, RunUp DEF f
<1>6. i \in 0..n /\ i \notin On /\ \A t \in 0..i - 1 : t \in On
  BY <1>4, <1>5
<1> HIDE DEF n, o, a, b
<1>7. i \in Nat
  BY <1>1, <1>6
<1>8. \A t \in 0..i - 1 : o + t < n /\ matchA[o + t] = a + t /\ matchB[o + t] = b + t
  BY <1>1, <1>2, <1>6 DEF On
<1>9. i = 0 => ~(InBounds(0) /\ IsMatch(0))
  BY <1>6 DEF On
<1> QED
  BY <1>7, <1>8, <1>9 DEF RunOf, RunsOn, n, o, a, b

(* What a chunk is: lines matched all along; or what lies before the first *)
(* line both sides kept; or all that is left, when there is none.          *)
Matching(c, i) ==
  /\ c.clean /\ RunOf(i)
  /\ c.end.o = iter.o + i /\ c.end.a = iter.a + i /\ c.end.b = iter.b + i

UpToKept(c) ==
  /\ ~c.clean /\ FirstKept \in Kept
  /\ \A o \in Kept : FirstKept <= o
  /\ c.end = To(FirstKept, matchA[FirstKept], matchB[FirstKept], FALSE)

AllTheRest(c) == ~c.clean /\ Kept = {} /\ c.end = ToEnd

Finishes(c) ==
  c.end.finished =>
    c.end.o = Len(merge.base) /\ c.end.a = Len(merge.target) /\ c.end.b = Len(merge.source)

LEMMA KeptFirst ==
  ASSUME AllAhead(iter), Kept # {}
  PROVE  FirstKept \in Kept /\ \A o \in Kept : FirstKept <= o
<1>1. Kept \in SUBSET Nat
  BY DEF Kept, AllAhead, Ahead, Iters
<1>2. \E o \in Kept : \A p \in Kept : o <= p
  BY <1>1, LeastNumber
<1> QED
  BY <1>2 DEF FirstKept

LEMMA ChunkCases ==
  ASSUME AllAhead(iter), NEW c, c = NextChunk
  PROVE  /\ Finishes(c)
         /\ (\E i \in Nat : Matching(c, i)) \/ UpToKept(c) \/ AllTheRest(c)
<1> DEFINE i == Mismatch
<1>1. i \in Nat /\ RunOf(i) /\ (i = 0 => ~(InBounds(0) /\ IsMatch(0)))
  BY MismatchIs
<1>2. c = IF InBounds(i) /\ i > 0
          THEN [end |-> To(iter.o + i, iter.a + i, iter.b + i, FALSE), clean |-> TRUE]
          ELSE IF InBounds(i) /\ Kept # {}
          THEN [end |-> To(FirstKept, matchA[FirstKept], matchB[FirstKept], FALSE), clean |-> FALSE]
          ELSE [end |-> ToEnd, clean |-> i > 0]
  BY DEF NextChunk
<1> HIDE DEF i
<1>3. CASE InBounds(i) /\ i > 0
  <2>1. c = [end |-> To(iter.o + i, iter.a + i, iter.b + i, FALSE), clean |-> TRUE]
    BY <1>2, <1>3
  <2>2. Matching(c, i) /\ ~c.end.finished
    BY <1>1, <2>1 DEF Matching, To
  <2> QED
    BY <1>1, <2>2 DEF Finishes
<1>4. CASE InBounds(i) /\ ~(i > 0) /\ Kept # {}
  <2>1. c = [end |-> To(FirstKept, matchA[FirstKept], matchB[FirstKept], FALSE), clean |-> FALSE]
    BY <1>2, <1>4
  <2>2. UpToKept(c) /\ ~c.end.finished
    BY <1>4, <2>1, KeptFirst DEF UpToKept, To
  <2> QED
    BY <2>2 DEF Finishes
<1>5. CASE ~InBounds(i) \/ (~(i > 0) /\ Kept = {})
  <2>1. c = [end |-> ToEnd, clean |-> i > 0]
    BY <1>2, <1>5
  <2>2. Finishes(c)
    BY <2>1 DEF Finishes, ToEnd, To
  <2>3. CASE i > 0
    <3> DEFINE n == Len(merge.base)  m == Len(merge.target)  k == Len(merge.source)
               o == iter.o  a == iter.a  b == iter.b
    <3>1. /\ ~(o + i < n) /\ ~(a + i < m) /\ ~(b + i < k)
      BY <1>5, <2>3 DEF InBounds
    <3>2. /\ Ahead(merge.base, merge.target, matchA, o + i, a + i)
          /\ Ahead(merge.base, merge.source, matchB, o + i, b + i)
      BY <1>1, AheadRun DEF AllAhead, RunOf
    <3>3. /\ n \in Nat /\ m \in Nat /\ k \in Nat
          /\ o + i \in 0..n /\ a + i \in 0..m /\ b + i \in 0..k
      BY <3>2 DEF Ahead
    <3>4. n = o + i /\ m = a + i /\ k = b + i
      BY <3>1, <3>3
    <3>5. c = [end |-> To(o + i, a + i, b + i, TRUE), clean |-> TRUE]
      <4>1. (i > 0) = TRUE
        BY <2>3
      <4> HIDE DEF o, a, b, n, m, k
      <4> QED
        BY <2>1, <3>4, <4>1 DEF ToEnd, n, m, k
    <3>6. Matching(c, i)
      BY <1>1, <3>5 DEF Matching, To
    <3> QED
      BY <1>1, <2>2, <3>6
  <2>4. CASE ~(i > 0)
    <3>1. i = 0
      BY <1>1, <2>4
    <3>2. Kept = {}
      <4>1. CASE ~InBounds(i)
        <5> DEFINE n == Len(merge.base)  o == iter.o
        <5>1. ~(o + 0 < n)
          BY <3>1, <4>1 DEF InBounds
        <5>2. n \in Nat /\ o \in Nat
          BY DEF AllAhead, Ahead, Iters
        <5> HIDE DEF n, o
        <5>3. o..n - 1 = {}
          BY <5>1, <5>2
        <5> QED
          BY <5>3 DEF Kept, o, n
      <4> QED
        BY <1>5, <4>1
    <3>3. AllTheRest(c)
      <4>1. (i > 0) = FALSE
        BY <2>4
      <4>2. c = [end |-> ToEnd, clean |-> FALSE]
        BY <2>1, <4>1
      <4> QED
        BY <3>2, <4>2 DEF AllTheRest
    <3> QED
      BY <2>2, <3>3
  <2> QED
    BY <2>3, <2>4
<1> QED
  BY <1>3, <1>4, <1>5

(* What ends a chunk is ahead of where it starts. *)
Onward(c) ==
  /\ AllAhead(c.end) /\ c.clean \in BOOLEAN
  /\ iter.o <= c.end.o /\ iter.a <= c.end.a /\ iter.b <= c.end.b

LEMMA ChunkOnward ==
  ASSUME AllAhead(iter), NEW c, c = NextChunk
  PROVE  Onward(c)
<1>1. /\ iter \in Iters
      /\ Ahead(merge.base, merge.target, matchA, iter.o, iter.a)
      /\ Ahead(merge.base, merge.source, matchB, iter.o, iter.b)
  BY DEF AllAhead
<1>2. iter.o \in Nat /\ iter.a \in Nat /\ iter.b \in Nat
  BY <1>1 DEF Iters
<1>c. /\ c.clean \in BOOLEAN
      /\ c.end = To(c.end.o, c.end.a, c.end.b, c.end.finished) /\ c.end.finished \in BOOLEAN
  <2> DEFINE i == Mismatch
  <2>2. \A o, a, b : \A h \in BOOLEAN :
          LET e == To(o, a, b, h) IN e = To(e.o, e.a, e.b, e.finished) /\ e.finished \in BOOLEAN
    BY DEF To
  <2>3. /\ c.clean \in BOOLEAN
        /\ \E o, a, b : \E h \in BOOLEAN : c.end = To(o, a, b, h)
    <3>1. CASE InBounds(i) /\ i > 0
      BY <3>1 DEF NextChunk
    <3>2. CASE InBounds(i) /\ ~(i > 0) /\ Kept # {}
      BY <3>2 DEF NextChunk
    <3>3. CASE ~InBounds(i) \/ (~(i > 0) /\ Kept = {})
      <4>1. c = [end |-> ToEnd, clean |-> i > 0]
        BY <3>3 DEF NextChunk
      <4> DEFINE l == (i > 0)
      <4>2. l \in BOOLEAN
        OBVIOUS
      <4>3. c = [end |-> ToEnd, clean |-> l]
        BY <4>1
      <4> HIDE DEF l, i
      <4>4. c.clean = l /\ c.end = ToEnd
        BY <4>3
      <4> QED
        BY <4>2, <4>4 DEF ToEnd
    <3> QED
      BY <3>1, <3>2, <3>3
  <2> QED
    BY <2>2, <2>3
<1>3. CASE \E i \in Nat : Matching(c, i)
  <2>1. PICK i \in Nat : Matching(c, i)
    BY <1>3
  <2>2. RunOf(i) /\ c.end.o = iter.o + i /\ c.end.a = iter.a + i /\ c.end.b = iter.b + i
    BY <2>1 DEF Matching
  <2>3. /\ Ahead(merge.base, merge.target, matchA, c.end.o, c.end.a)
        /\ Ahead(merge.base, merge.source, matchB, c.end.o, c.end.b)
    BY <1>1, <2>2, AheadRun DEF RunOf
  <2>4. c.end \in Iters
    BY <1>2, <1>c, <2>2 DEF Iters, To
  <2>5. iter.o <= c.end.o /\ iter.a <= c.end.a /\ iter.b <= c.end.b
    <3> DEFINE o == iter.o  a == iter.a  b == iter.b  u == c.end.o  v == c.end.a  w == c.end.b
    <3>1. o \in Nat /\ a \in Nat /\ b \in Nat /\ u = o + i /\ v = a + i /\ w = b + i
      BY <1>2, <2>2
    <3> HIDE DEF o, a, b, u, v, w
    <3>2. o <= u /\ a <= v /\ b <= w
      BY <3>1
    <3> QED
      BY <3>2 DEF o, a, b, u, v, w
  <2> QED
    BY <1>c, <2>3, <2>4, <2>5 DEF Onward, AllAhead
<1>4. CASE UpToKept(c)
  <2> DEFINE k == FirstKept  x == matchA[k]  y == matchB[k]
  <2>1. k \in Kept /\ c.end = To(k, x, y, FALSE)
    BY <1>4 DEF UpToKept
  <2>2. k \in iter.o..Len(merge.base) - 1 /\ x # -1 /\ y # -1
    BY <2>1 DEF Kept
  <2>3. /\ Ahead(merge.base, merge.target, matchA, k, x) /\ iter.a <= x
        /\ Ahead(merge.base, merge.source, matchB, k, y) /\ iter.b <= y /\ iter.o <= k
    BY <1>1, <2>2, AheadKept
  <2> HIDE DEF k, x, y
  <2>4. k \in Nat /\ x \in Nat /\ y \in Nat
    BY <2>3 DEF Ahead
  <2> QED
    BY <1>c, <2>1, <2>3, <2>4 DEF Onward, AllAhead, Iters, To
<1>5. CASE AllTheRest(c)
  <2> DEFINE n == Len(merge.base)  m == Len(merge.target)  k == Len(merge.source)
  <2>1. c.end = To(n, m, k, TRUE)
    BY <1>5 DEF AllTheRest, ToEnd
  <2>2. /\ Ahead(merge.base, merge.target, matchA, n, m)
        /\ Ahead(merge.base, merge.source, matchB, n, k)
    BY <1>1, AheadEnd
  <2>3. n \in Nat /\ m \in Nat /\ k \in Nat /\ iter.o <= n /\ iter.a <= m /\ iter.b <= k
    BY <1>1 DEF Ahead
  <2> HIDE DEF n, m, k
  <2> QED
    BY <1>c, <2>1, <2>2, <2>3 DEF Onward, AllAhead, Iters, To
<1> QED
  BY <1>3, <1>4, <1>5, ChunkCases

(* In a clean chunk all three are equal. *)
LEMMA CleanSame ==
  ASSUME merge \in [base : Seq(Lines), target : Seq(Lines), source : Seq(Lines)],
         AllAhead(iter), NEW c, c = NextChunk, c.clean
  PROVE  /\ Part(merge.base, iter.o, c.end.o) = Part(merge.target, iter.a, c.end.a)
         /\ Part(merge.base, iter.o, c.end.o) = Part(merge.source, iter.b, c.end.b)
<1>1. PICK i \in Nat : Matching(c, i)
  BY ChunkCases DEF UpToKept, AllTheRest
<1>2. /\ merge.base \in Seq(Lines) /\ merge.target \in Seq(Lines) /\ merge.source \in Seq(Lines)
      /\ Ahead(merge.base, merge.target, matchA, iter.o, iter.a)
      /\ Ahead(merge.base, merge.source, matchB, iter.o, iter.b)
  BY DEF AllAhead
<1>3. /\ RunsOn(merge.base, matchA, iter.o, iter.a, i) /\ RunsOn(merge.base, matchB, iter.o, iter.b, i)
      /\ c.end.o = iter.o + i /\ c.end.a = iter.a + i /\ c.end.b = iter.b + i
  BY <1>1 DEF Matching, RunOf
<1> QED
  BY <1>2, <1>3, RunSame

-----------------------------------------------------------------------------
(* The inductive invariant: what the variables hold, that the chunks cut   *)
(* the texts where no match crosses, and that they tile them.              *)

Chunk == [o : Seq(Lines), a : Seq(Lines), b : Seq(Lines), clean : BOOLEAN, lines : Seq(Lines)]

Typed ==
  /\ merge \in Merges /\ bufSize \in Buffers /\ phase \in {"open", "read", "done"}
  /\ iter \in Iters
  /\ iter.o <= Len(merge.base) /\ iter.a <= Len(merge.target) /\ iter.b <= Len(merge.source)
  /\ lineBuffer \in Seq(Lines)
  /\ copied \in Int /\ copied >= -1
  /\ copied >= 0 => lineBuffer # <<>> /\ copied <= Size[lineBuffer[1]]
  /\ room \in 1..bufSize
  /\ hasConflict \in BOOLEAN
  /\ chunks \in Seq(Chunk)

Starting ==
  phase = "open" =>
    /\ iter = [o |-> 0, a |-> 0, b |-> 0, finished |-> FALSE]
    /\ lineBuffer = <<>> /\ copied = -1 /\ room = bufSize
    /\ out = <<>> /\ ~hasConflict /\ chunks = <<>>

Cuts == phase = "read" => AllAhead(iter)

Inv == Typed /\ Starting /\ Cuts /\ ChunksTileTheTexts

LEMMA MergeTexts ==
  ASSUME merge \in Merges
  PROVE  /\ merge \in [base : Seq(Lines), target : Seq(Lines), source : Seq(Lines)]
         /\ merge.base \in Seq(Lines) /\ merge.target \in Seq(Lines) /\ merge.source \in Seq(Lines)
BY Diff3Assumption

(* What one field of the chunks comes to. *)
AllOf(cs, f) == FlattenSeq([q \in DOMAIN cs |-> cs[q][f]])

LEMMA AllOfNone ==
  ASSUME NEW f
  PROVE  AllOf(<<>>, f) = <<>>
<1>1. [q \in DOMAIN <<>> |-> <<>>[q][f]] = <<>>
  OBVIOUS
<1> DEFINE s == [q \in DOMAIN <<>> |-> <<>>[q][f]]
<1>2. s = <<>>
  BY <1>1
<1> HIDE DEF s
<1>3. FlattenSeq(s) = <<>>
  BY <1>2 DEF FlattenSeq
<1> QED
  BY <1>3 DEF AllOf, s

(* Is the field f of every chunk of cs a sequence of S's. *)
FieldIn(cs, f, S) == \A q \in DOMAIN cs : cs[q][f] \in Seq(S)

Grows(cs, ds, f, e, S) ==
  AllOf(cs, f) \in Seq(S) /\ AllOf(ds, f) = AllOf(cs, f) \o e /\ FieldIn(ds, f, S)

LEMMA AllOfMore ==
  ASSUME NEW S, NEW C, NEW cs \in Seq(C), NEW f, FieldIn(cs, f, S), NEW c \in C,
         NEW e \in Seq(S), e = c[f], NEW ds, ds = Append(cs, c)
  PROVE  Grows(cs, ds, f, e, S)
<1> DEFINE n == Len(cs)  T == Seq(S)
           s == [q \in DOMAIN cs |-> cs[q][f]]  t == [q \in DOMAIN ds |-> ds[q][f]]
<1>1. n \in Nat /\ DOMAIN cs = 1..n
  OBVIOUS
<1>2. ds \in Seq(C) /\ Len(ds) = n + 1 /\ DOMAIN ds = 1..n + 1 /\ ds[n + 1] = c /\ \A q \in 1..n : ds[q] = cs[q]
  OBVIOUS
<1>3. /\ s = [q \in 1..n |-> s[q]] /\ t = [q \in 1..n + 1 |-> t[q]]
      /\ \A q \in 1..n : s[q] = cs[q][f] /\ s[q] \in T
      /\ \A q \in 1..n + 1 : t[q] = ds[q][f]
  <2> HIDE DEF n
  <2> QED
    BY <1>1, <1>2 DEF FieldIn
<1> HIDE DEF n, T, s, t
<1>4. s \in Seq(T) /\ Len(s) = n
  <2>1. n \in Nat /\ s = [q \in 1..n |-> s[q]] /\ \A q \in 1..n : s[q] \in T
    BY <1>1, <1>3, Zenon
  <2> QED
    BY <2>1, FunctionIsSeq, Zenon
<1>5. e \in T
  BY DEF T
<1>6. t[n + 1] = e /\ \A q \in 1..n : t[q] = s[q]
  <2>1. n + 1 \in 1..n + 1 /\ \A q \in 1..n : q \in 1..n + 1
    BY <1>1
  <2>2. t[n + 1] = c[f]
    <3>1. t[n + 1] = ds[n + 1][f]
      BY <1>3, <2>1
    <3>2. ds[n + 1] = c
      BY <1>2
    <3> QED
      BY <3>1, <3>2
  <2>3. ASSUME NEW q \in 1..n PROVE t[q] = s[q]
    <3>1. t[q] = ds[q][f] /\ s[q] = cs[q][f]
      BY <1>3, <2>1, Zenon
    <3>2. ds[q] = cs[q]
      BY <1>2, Zenon
    <3> QED
      BY <3>1, <3>2, Zenon
  <2> QED
    BY <2>2, <2>3
<1> DEFINE u == Append(s, e)
<1>7. u \in Seq(T) /\ Len(u) = n + 1 /\ u[n + 1] = e /\ \A q \in 1..n : u[q] = s[q]
  BY <1>4, <1>5, AppendProperties
<1> HIDE DEF u
<1>8. \A q \in 1..n + 1 : t[q] = u[q] /\ t[q] \in T
  <2> SUFFICES ASSUME NEW q \in 1..n + 1 PROVE t[q] = u[q] /\ t[q] \in T
    OBVIOUS
  <2>1. q = n + 1 \/ q \in 1..n
    BY <1>1
  <2> QED
    BY <1>3, <1>5, <1>6, <1>7, <2>1
<1>9. t \in Seq(T) /\ Len(t) = n + 1
  <2>1. n + 1 \in Nat
    BY <1>1
  <2>2. t = [q \in 1..n + 1 |-> t[q]] /\ \A q \in 1..n + 1 : t[q] \in T
    BY <1>3, <1>8, Zenon
  <2> QED
    BY <2>1, <2>2, FunctionIsSeq, Zenon
<1>10. t = u
  BY <1>7, <1>8, <1>9, SeqEqual
<1>11. FlattenSeq(s) \in T /\ FlattenSeq(t) = FlattenSeq(s) \o e
  <2>1. s \in Seq(Seq(S)) /\ e \in Seq(S) /\ t = Append(s, e)
    BY <1>4, <1>5, <1>10 DEF T, u
  <2> QED
    BY <2>1, FlattenFacts DEF T
<1>12. FieldIn(ds, f, S)
  BY <1>2, <1>3, <1>8 DEF FieldIn, T
<1> QED
  BY <1>11, <1>12 DEF AllOf, s, t, T, Grows

-----------------------------------------------------------------------------
(* The tiles, in terms of AllOf. *)
Clean(cs) == \A q \in DOMAIN cs : cs[q].clean => cs[q].o = cs[q].a /\ cs[q].o = cs[q].b

Tiled(cs, it) ==
  /\ AllOf(cs, "o") = Part(merge.base, 0, it.o)
  /\ AllOf(cs, "a") = Part(merge.target, 0, it.a)
  /\ AllOf(cs, "b") = Part(merge.source, 0, it.b)
  /\ Clean(cs)

LEMMA TilesIs == ChunksTileTheTexts <=> Tiled(chunks, iter)
BY Zenon DEF ChunksTileTheTexts, Tiled, AllOf, Clean

LEMMA TilesNext ==
  ASSUME merge' = merge
  PROVE  ChunksTileTheTexts' <=> Tiled(chunks', iter')
<1>1. ChunksTileTheTexts' <=> Tiled(chunks, iter)'
  BY TilesIs, PTL
<1> QED
  BY <1>1 DEF Tiled, AllOf, Clean, Part

LEMMA ResolvedIn ==
  ASSUME NEW o \in Seq(Lines), NEW a \in Seq(Lines), NEW b \in Seq(Lines)
  PROVE  Resolved(o, a, b) \in Seq(Lines)
<1>1. /\ <<TargetMarker>> \in Seq(Lines) /\ <<BaseMarker>> \in Seq(Lines)
      /\ <<SeparateMarker>> \in Seq(Lines) /\ <<SourceMarker>> \in Seq(Lines)
  BY Diff3Assumption
<1> DEFINE p == <<TargetMarker>>  q == <<BaseMarker>>  r == <<SeparateMarker>>  s == <<SourceMarker>>
<1>2. p \o a \o q \o o \o r \o b \o s \in Seq(Lines)
  <2> HIDE DEF p, q, r, s
  <2> QED
    BY <1>1 DEF p, q, r, s
<1>3. CASE o = a \/ a = b
  BY <1>3 DEF Resolved
<1>4. CASE o # a /\ a # b /\ o = b
  BY <1>4 DEF Resolved
<1>5. CASE ~(o = a \/ a = b) /\ ~(o # a /\ a # b /\ o = b)
  <2>1. Resolved(o, a, b) = p \o a \o q \o o \o r \o b \o s
    BY <1>5 DEF Resolved
  <2> QED
    BY <1>2, <2>1
<1> QED
  BY <1>3, <1>4, <1>5

LEMMA WroteStays ==
  ASSUME phase = "read", room \in 1..bufSize, bufSize \in Nat, NEW n \in Nat, n <= room, Wrote(n)
  PROVE  room' \in 1..bufSize /\ phase' \in {"read", "done"}
BY DEF Wrote

LEMMA InvInit ==
  ASSUME Init
  PROVE  Inv
<1>1. merge \in Merges /\ bufSize \in Buffers
  BY DEF Init
<1>2. merge.base \in Seq(Lines) /\ merge.target \in Seq(Lines) /\ merge.source \in Seq(Lines)
  BY <1>1, MergeTexts
<1>3. bufSize \in Nat /\ bufSize > 0
  BY <1>1, Diff3Assumption
<1>4. Typed
  <2>1. iter \in Iters /\ iter.o = 0 /\ iter.a = 0 /\ iter.b = 0
    BY DEF Init, Iters
  <2>2. Len(merge.base) \in Nat /\ Len(merge.target) \in Nat /\ Len(merge.source) \in Nat
    BY <1>2
  <2>3. <<>> \in Seq(Lines) /\ <<>> \in Seq(Chunk)
    OBVIOUS
  <2>4. /\ phase = "open" /\ lineBuffer = <<>> /\ copied = -1 /\ room = bufSize
        /\ hasConflict = FALSE /\ chunks = <<>>
    BY DEF Init
  <2>5. room \in 1..bufSize
    BY <1>3, <2>4
  <2>6. iter.o <= Len(merge.base) /\ iter.a <= Len(merge.target) /\ iter.b <= Len(merge.source)
    BY <2>1, <2>2
  <2>7. copied \in Int /\ copied >= -1 /\ ~(copied >= 0)
    BY <2>4
  <2>8. lineBuffer \in Seq(Lines) /\ chunks \in Seq(Chunk)
    BY <2>3, <2>4
  <2>9. phase \in {"open", "read", "done"} /\ hasConflict \in BOOLEAN
    BY <2>4
  <2> QED
    BY <1>1, <2>1, <2>5, <2>6, <2>7, <2>8, <2>9 DEF Typed
<1>5. Starting
  BY DEF Init, Starting
<1>6. Cuts
  BY DEF Init, Cuts
<1>7. ChunksTileTheTexts
  <2>1. chunks = <<>> /\ iter.o = 0 /\ iter.a = 0 /\ iter.b = 0
    BY DEF Init
  <2>2. \A f : AllOf(chunks, f) = <<>>
    BY <2>1, AllOfNone
  <2>3. Clean(chunks)
    BY <2>1 DEF Clean
  <2>4. Part(merge.base, 0, 0) = <<>> /\ Part(merge.target, 0, 0) = <<>> /\ Part(merge.source, 0, 0) = <<>>
    BY <1>2, PartAll
  <2>5. Tiled(chunks, iter)
    BY <2>1, <2>2, <2>3, <2>4 DEF Tiled
  <2> QED
    BY <2>5, TilesIs
<1> QED
  BY <1>4, <1>5, <1>6, <1>7 DEF Inv

(* What a step that leaves the chunks alone leaves true. *)
LEMMA TilesStay ==
  ASSUME ChunksTileTheTexts, UNCHANGED <<merge, iter, chunks>>
  PROVE  ChunksTileTheTexts'
<1>1. Tiled(chunks, iter)
  BY TilesIs
<1>2. Tiled(chunks', iter')
  BY <1>1
<1> QED
  BY <1>2, TilesNext

LEMMA InvOpenBinary ==
  ASSUME Inv, OpenBinary
  PROVE  Inv'
<1>1. phase' = "done" /\ hasConflict' = TRUE
      /\ UNCHANGED <<merge, bufSize, matchA, matchB, iter, lineBuffer, copied, room, chunks>>
  BY DEF OpenBinary
<1>2. Typed'
  BY <1>1 DEF Inv, Typed
<1>3. ChunksTileTheTexts'
  BY <1>1, TilesStay DEF Inv
<1>4. Starting' /\ Cuts'
  BY <1>1 DEF Starting, Cuts
<1> QED
  BY <1>2, <1>3, <1>4 DEF Inv

LEMMA AheadStarts ==
  ASSUME NEW A \in Seq(Lines), NEW B \in Seq(Lines)
  PROVE  Ahead(A, B, Matches(A, B), 0, 0)
<1> DEFINE f == Matches(A, B)  n == Len(A)  m == Len(B)
<1>1. Matched(A, B, f)
  BY MatchesMatch
<1>2. n \in Nat /\ m \in Nat
  OBVIOUS
<1>3. f \in [0..n - 1 -> -1..m - 1]
  BY <1>1 DEF Matched
<1> HIDE DEF f, n, m
<1>4. \A o \in 0..n - 1 : f[o] # -1 => 0 <= f[o]
  BY <1>2, <1>3
<1>5. 0 \in 0..n /\ 0 \in 0..m
  BY <1>2
<1> QED
  BY <1>1, <1>2, <1>4, <1>5 DEF Ahead, f, n, m

LEMMA Matched2 ==
  ASSUME merge \in Merges
  PROVE  /\ Matchings[merge.base, merge.target] = Matches(merge.base, merge.target)
         /\ Matchings[merge.base, merge.source] = Matches(merge.base, merge.source)
<1> DEFINE S == {<<m.base, m.target>> : m \in Merges} \cup {<<m.base, m.source>> : m \in Merges}
           p == <<merge.base, merge.target>>  r == <<merge.base, merge.source>>
<1>1. p \in S /\ r \in S
  OBVIOUS
<1>2. Matchings = [q \in S |-> Matches(q[1], q[2])]
  BY DEF Matchings
<1>3. p[1] = merge.base /\ p[2] = merge.target /\ r[1] = merge.base /\ r[2] = merge.source
  OBVIOUS
<1> HIDE DEF S, p, r
<1>4. Matchings[p] = Matches(p[1], p[2]) /\ Matchings[r] = Matches(r[1], r[2])
  BY <1>1, <1>2
<1> QED
  BY <1>3, <1>4 DEF p, r

LEMMA InvOpen ==
  ASSUME Inv, Open
  PROVE  Inv'
<1>1. /\ phase = "open" /\ phase' = "read"
      /\ matchA' = Matchings[merge.base, merge.target]
      /\ matchB' = Matchings[merge.base, merge.source]
      /\ UNCHANGED <<merge, bufSize, iter, lineBuffer, copied, room, out, hasConflict, chunks>>
  BY DEF Open
<1>2. Typed'
  BY <1>1 DEF Inv, Typed
<1>3. ChunksTileTheTexts'
  BY <1>1, TilesStay DEF Inv
<1>4. Starting'
  BY <1>1 DEF Starting
<1>5. AllAhead(iter)'
  <2>1. merge \in Merges /\ iter \in Iters /\ iter.o = 0 /\ iter.a = 0 /\ iter.b = 0
    <3>1. Typed /\ Starting
      BY DEF Inv
    <3>2. iter = [o |-> 0, a |-> 0, b |-> 0, finished |-> FALSE]
      BY <1>1, <3>1 DEF Starting
    <3> QED
      BY <3>1, <3>2 DEF Typed
  <2>2. matchA' = Matches(merge.base, merge.target) /\ matchB' = Matches(merge.base, merge.source)
    BY <1>1, <2>1, Matched2
  <2>3. /\ Ahead(merge.base, merge.target, matchA', 0, 0)
        /\ Ahead(merge.base, merge.source, matchB', 0, 0)
    BY <2>1, <2>2, MergeTexts, AheadStarts
  <2>4. /\ Ahead(merge'.base, merge'.target, matchA', iter'.o, iter'.a)
        /\ Ahead(merge'.base, merge'.source, matchB', iter'.o, iter'.b)
    BY <1>1, <2>1, <2>3
  <2> QED
    BY <1>1, <2>1, <2>4 DEF AllAhead, Ahead, Matched, Eq
<1> QED
  BY <1>2, <1>3, <1>4, <1>5 DEF Inv, Cuts

(* A step that reads on and leaves the chunks alone. *)
LEMMA CutsStay ==
  ASSUME Cuts, phase = "read", UNCHANGED <<merge, iter, matchA, matchB>>
  PROVE  Cuts'
BY DEF Cuts, AllAhead, Ahead, Matched, Eq

LEMMA InvFinishLine ==
  ASSUME Inv, FinishLine
  PROVE  Inv'
<1> DEFINE line == lineBuffer[1]
           end == IF NewLineFollows THEN <<NewLine>> ELSE <<>>
           n == Size[line] - copied + Len(end)
<1>1. /\ phase = "read" /\ copied >= 0 /\ Size[line] - copied < room
      /\ lineBuffer' = Tail(lineBuffer)
      /\ copied' = IF lineBuffer' # <<>> THEN 0 ELSE -1
      /\ Wrote(n)
      /\ UNCHANGED <<merge, bufSize, matchA, matchB, iter, hasConflict, chunks>>
  BY DEF FinishLine
<1>2. /\ Typed /\ Cuts /\ ChunksTileTheTexts
  BY DEF Inv
<1>3. /\ lineBuffer \in Seq(Lines) /\ lineBuffer # <<>> /\ copied <= Size[line] /\ copied \in Int
      /\ room \in 1..bufSize /\ bufSize \in Nat
  BY <1>1, <1>2, Diff3Assumption DEF Typed
<1>4. line \in Lines /\ Size[line] \in Nat
  BY <1>3, Diff3Assumption
<1>5. Len(end) \in {0, 1}
  OBVIOUS
<1> DEFINE s == Size[line]  l == Len(end)
<1>6. n \in Nat /\ n <= room
  <2>1. /\ s \in Nat /\ l \in {0, 1} /\ copied \in Int /\ copied >= 0 /\ copied <= s /\ room \in Nat
        /\ s - copied < room /\ n = s - copied + l
    BY <1>1, <1>3, <1>4, <1>5
  <2> HIDE DEF s, l, n
  <2> QED
    BY <2>1
<1> HIDE DEF n
<1>7. room' \in 1..bufSize /\ phase' \in {"read", "done"}
  BY <1>1, <1>3, <1>6, WroteStays
<1>8. lineBuffer' \in Seq(Lines)
  BY <1>1, <1>3
<1>9. copied' \in Int /\ copied' >= -1 /\ (copied' >= 0 => lineBuffer' # <<>> /\ copied' <= Size[lineBuffer'[1]])
  <2>1. CASE lineBuffer' = <<>>
    BY <1>1, <2>1
  <2>2. CASE lineBuffer' # <<>>
    <3>1. lineBuffer'[1] \in Lines
      BY <1>8, <2>2
    <3>2. Size[lineBuffer'[1]] \in Nat
      BY <3>1, Diff3Assumption
    <3> QED
      BY <1>1, <2>2, <3>2
  <2> QED
    BY <2>1, <2>2
<1>10. Typed'
  BY <1>1, <1>2, <1>7, <1>8, <1>9 DEF Typed
<1>11. Cuts'
  BY <1>1, <1>2, CutsStay
<1>12. ChunksTileTheTexts'
  BY <1>1, <1>2, TilesStay
<1>13. Starting'
  BY <1>7 DEF Starting
<1> QED
  BY <1>10, <1>11, <1>12, <1>13 DEF Inv

LEMMA InvFillBuffer ==
  ASSUME Inv, FillBuffer
  PROVE  Inv'
<1> DEFINE line == lineBuffer[1]
<1>1. /\ phase = "read" /\ copied >= 0 /\ Size[line] - copied >= room
      /\ copied' = IF Size[line] - copied = room THEN -1 ELSE copied + room
      /\ Wrote(room)
      /\ UNCHANGED <<merge, bufSize, matchA, matchB, iter, lineBuffer, hasConflict, chunks>>
  BY DEF FillBuffer
<1>2. /\ Typed /\ Cuts /\ ChunksTileTheTexts
  BY DEF Inv
<1>3. /\ lineBuffer \in Seq(Lines) /\ lineBuffer # <<>> /\ copied <= Size[line] /\ copied \in Int
      /\ room \in 1..bufSize /\ bufSize \in Nat
  BY <1>1, <1>2, Diff3Assumption DEF Typed
<1>4. line \in Lines /\ Size[line] \in Nat
  BY <1>3, Diff3Assumption
<1>5. room \in Nat /\ room <= room
  BY <1>3
<1>6. room' \in 1..bufSize /\ phase' \in {"read", "done"}
  BY <1>1, <1>3, <1>5, WroteStays
<1> DEFINE s == Size[line]
<1>7. copied' \in Int /\ copied' >= -1 /\ (copied' >= 0 => copied' <= s)
  <2> HIDE DEF s
  <2>1. s \in Nat /\ copied \in Int /\ copied >= 0 /\ room \in Nat /\ s - copied >= room
        /\ copied' = IF s - copied = room THEN -1 ELSE copied + room
    BY <1>1, <1>3, <1>4, <1>5 DEF s
  <2> QED
    BY <2>1
<1>8. Typed'
  BY <1>1, <1>2, <1>3, <1>6, <1>7 DEF Typed
<1>9. Cuts'
  BY <1>1, <1>2, CutsStay
<1>10. ChunksTileTheTexts'
  BY <1>1, <1>2, TilesStay
<1>11. Starting'
  BY <1>6 DEF Starting
<1> QED
  BY <1>8, <1>9, <1>10, <1>11 DEF Inv

LEMMA InvNoMoreChunks ==
  ASSUME Inv, NoMoreChunks
  PROVE  Inv'
<1>1. /\ phase = "read" /\ Wrote(0)
      /\ UNCHANGED <<merge, bufSize, matchA, matchB, iter, lineBuffer, copied, out, hasConflict, chunks>>
  BY DEF NoMoreChunks
<1>2. /\ Typed /\ Cuts /\ ChunksTileTheTexts
  BY DEF Inv
<1>3. room \in 1..bufSize /\ bufSize \in Nat
  BY <1>2, Diff3Assumption DEF Typed
<1>4. room' \in 1..bufSize /\ phase' \in {"read", "done"}
  BY <1>1, <1>3 DEF Wrote
<1>5. Typed'
  BY <1>1, <1>2, <1>4 DEF Typed
<1>6. Cuts'
  BY <1>1, <1>2, CutsStay
<1>7. ChunksTileTheTexts'
  BY <1>1, <1>2, TilesStay
<1>8. Starting'
  BY <1>4 DEF Starting
<1> QED
  BY <1>5, <1>6, <1>7, <1>8 DEF Inv

(* The pieces of the next chunk, and the chunk itself. *)
Pieces3(c, o, a, b) ==
  /\ o = Part(merge.base, iter.o, c.end.o)
  /\ a = Part(merge.target, iter.a, c.end.a)
  /\ b = Part(merge.source, iter.b, c.end.b)

ChunkOf(c, o, a, b) ==
  [o |-> o, a |-> a, b |-> b, clean |-> c.clean, lines |-> IF c.clean THEN o ELSE Resolved(o, a, b)]

LEMMA ChunkTyped ==
  ASSUME merge \in Merges, AllAhead(iter), NEW c, c = NextChunk, NEW o, NEW a, NEW b, Pieces3(c, o, a, b)
  PROVE  o \in Seq(Lines) /\ a \in Seq(Lines) /\ b \in Seq(Lines) /\ ChunkOf(c, o, a, b) \in Chunk
<1>1. merge.base \in Seq(Lines) /\ merge.target \in Seq(Lines) /\ merge.source \in Seq(Lines)
  BY MergeTexts
<1>2. Onward(c)
  BY ChunkOnward
<1>3. /\ c.end \in Iters /\ iter \in Iters /\ c.clean \in BOOLEAN
      /\ c.end.o <= Len(merge.base) /\ c.end.a <= Len(merge.target) /\ c.end.b <= Len(merge.source)
      /\ iter.o <= c.end.o /\ iter.a <= c.end.a /\ iter.b <= c.end.b
  BY <1>2 DEF Onward, AllAhead, Ahead
<1>4. /\ iter.o \in Nat /\ iter.a \in Nat /\ iter.b \in Nat
      /\ c.end.o \in Nat /\ c.end.a \in Nat /\ c.end.b \in Nat
  BY <1>3 DEF Iters
<1>5. /\ IsPart(Lines, merge.base, iter.o, c.end.o, o)
      /\ IsPart(Lines, merge.target, iter.a, c.end.a, a)
      /\ IsPart(Lines, merge.source, iter.b, c.end.b, b)
  BY <1>1, <1>3, <1>4, PartIs DEF Pieces3
<1>6. o \in Seq(Lines) /\ a \in Seq(Lines) /\ b \in Seq(Lines)
  BY <1>5 DEF IsPart
<1>7. Resolved(o, a, b) \in Seq(Lines)
  BY <1>6, ResolvedIn
<1> QED
  BY <1>3, <1>6, <1>7 DEF ChunkOf, Chunk

Joins(text, from, to, p) == Part(text, 0, from) \o p = Part(text, 0, to)

LEMMA PartOn ==
  ASSUME NEW text \in Seq(Lines), NEW from \in Nat, NEW to \in Nat, from <= to, to <= Len(text),
         NEW p, p = Part(text, from, to)
  PROVE  Joins(text, from, to, p)
<1> DEFINE z == 0
<1>1. z \in Nat /\ z <= from
  OBVIOUS
<1> HIDE DEF z
<1>2. Part(text, z, from) \o Part(text, from, to) = Part(text, z, to)
  BY <1>1, PartJoin
<1> QED
  BY <1>2 DEF z, Joins

LEMMA ChunkTiles ==
  ASSUME merge \in Merges, AllAhead(iter), chunks \in Seq(Chunk), Tiled(chunks, iter),
         NEW c, c = NextChunk, NEW o, NEW a, NEW b, Pieces3(c, o, a, b),
         NEW ds, ds = Append(chunks, ChunkOf(c, o, a, b))
  PROVE  Tiled(ds, c.end)
<1> DEFINE h == ChunkOf(c, o, a, b)
<1>1. /\ merge \in [base : Seq(Lines), target : Seq(Lines), source : Seq(Lines)]
      /\ merge.base \in Seq(Lines) /\ merge.target \in Seq(Lines) /\ merge.source \in Seq(Lines)
  BY MergeTexts
<1>2. o \in Seq(Lines) /\ a \in Seq(Lines) /\ b \in Seq(Lines) /\ h \in Chunk
  BY ChunkTyped
<1>3. h.o = o /\ h.a = a /\ h.b = b /\ h.clean = c.clean
  BY DEF ChunkOf
<1>4. \A q \in DOMAIN chunks : chunks[q] \in Chunk
  BY ElementOfSeq
<1>5. /\ FieldIn(chunks, "o", Lines) /\ FieldIn(chunks, "a", Lines) /\ FieldIn(chunks, "b", Lines)
  BY <1>4 DEF FieldIn, Chunk
<1>6. h["o"] = o /\ h["a"] = a /\ h["b"] = b
  BY <1>3
<1> HIDE DEF h
<1>7. ds = Append(chunks, h)
  BY DEF h
<1>8. /\ AllOf(ds, "o") = AllOf(chunks, "o") \o o
      /\ AllOf(ds, "a") = AllOf(chunks, "a") \o a
      /\ AllOf(ds, "b") = AllOf(chunks, "b") \o b
  <2>2. Grows(chunks, ds, "o", o, Lines)
    BY <1>2, <1>5, <1>6, <1>7, AllOfMore
  <2>3. Grows(chunks, ds, "a", a, Lines)
    BY <1>2, <1>5, <1>6, <1>7, AllOfMore
  <2>4. Grows(chunks, ds, "b", b, Lines)
    BY <1>2, <1>5, <1>6, <1>7, AllOfMore
  <2> QED
    BY <2>2, <2>3, <2>4 DEF Grows
<1>9. /\ 0 \in Nat /\ iter.o \in Nat /\ iter.a \in Nat /\ iter.b \in Nat
      /\ c.end.o \in Nat /\ c.end.a \in Nat /\ c.end.b \in Nat
      /\ c.end.o <= Len(merge.base) /\ c.end.a <= Len(merge.target) /\ c.end.b <= Len(merge.source)
      /\ iter.o <= c.end.o /\ iter.a <= c.end.a /\ iter.b <= c.end.b
      /\ 0 <= iter.o /\ 0 <= iter.a /\ 0 <= iter.b
  <2>1. Onward(c)
    BY ChunkOnward
  <2>2. /\ c.end \in Iters /\ iter \in Iters
        /\ c.end.o <= Len(merge.base) /\ c.end.a <= Len(merge.target) /\ c.end.b <= Len(merge.source)
        /\ iter.o <= c.end.o /\ iter.a <= c.end.a /\ iter.b <= c.end.b
    BY <2>1 DEF Onward, AllAhead, Ahead
  <2> QED
    BY <2>2 DEF Iters
<1>10. /\ AllOf(ds, "o") = Part(merge.base, 0, c.end.o)
       /\ AllOf(ds, "a") = Part(merge.target, 0, c.end.a)
       /\ AllOf(ds, "b") = Part(merge.source, 0, c.end.b)
  <2>1. /\ AllOf(ds, "o") = Part(merge.base, 0, iter.o) \o o
        /\ AllOf(ds, "a") = Part(merge.target, 0, iter.a) \o a
        /\ AllOf(ds, "b") = Part(merge.source, 0, iter.b) \o b
    BY <1>8 DEF Tiled
  <2>2. /\ Joins(merge.base, iter.o, c.end.o, o)
        /\ Joins(merge.target, iter.a, c.end.a, a)
        /\ Joins(merge.source, iter.b, c.end.b, b)
    BY <1>1, <1>9, PartOn DEF Pieces3
  <2> QED
    BY <2>1, <2>2 DEF Joins
<1>11. Clean(ds)
  <2>1. c.clean => o = a /\ o = b
    BY <1>1, CleanSame DEF Pieces3
  <2>2. h.clean => h.o = h.a /\ h.o = h.b
    BY <1>3, <2>1
  <2>3. \A q \in DOMAIN ds : ds[q] = h \/ (q \in DOMAIN chunks /\ ds[q] = chunks[q])
    BY <1>2, <1>7
  <2>4. Clean(chunks)
    BY DEF Tiled
  <2> QED
    BY <2>2, <2>3, <2>4 DEF Clean
<1> QED
  BY <1>10, <1>11 DEF Tiled

LEMMA InvReadChunk ==
  ASSUME Inv, ReadChunk
  PROVE  Inv'
<1> DEFINE c == NextChunk
           o == Part(merge.base, iter.o, c.end.o)
           a == Part(merge.target, iter.a, c.end.a)
           b == Part(merge.source, iter.b, c.end.b)
           lines == IF c.clean THEN o ELSE Resolved(o, a, b)
<1>1. /\ phase = "read" /\ copied = -1
      /\ iter' = c.end
      /\ chunks' = Append(chunks, ChunkOf(c, o, a, b))
      /\ lineBuffer' = lineBuffer \o lines
      /\ copied' = IF lineBuffer' # <<>> THEN 0 ELSE -1
      /\ hasConflict' = (hasConflict \/ (~c.clean /\ Conflicts(o, a, b)))
      /\ UNCHANGED <<merge, bufSize, phase, matchA, matchB, room, out>>
  BY DEF ReadChunk, ChunkOf
<1>2. Pieces3(c, o, a, b)
  BY DEF Pieces3
<1>3. Typed /\ Cuts /\ ChunksTileTheTexts
  BY DEF Inv
<1>4. AllAhead(iter) /\ merge \in Merges /\ chunks \in Seq(Chunk)
  BY <1>1, <1>3 DEF Cuts, Typed
<1> HIDE DEF c
<1>5. c = NextChunk
  BY DEF c
<1> HIDE DEF o, a, b
<1>6. o \in Seq(Lines) /\ a \in Seq(Lines) /\ b \in Seq(Lines) /\ ChunkOf(c, o, a, b) \in Chunk
  BY <1>2, <1>4, <1>5, ChunkTyped
<1>7. Tiled(chunks', iter')
  <2>1. Tiled(chunks, iter)
    BY <1>3, TilesIs
  <2>2. Tiled(chunks', c.end)
    BY <1>1, <1>2, <1>4, <1>5, <2>1, ChunkTiles
  <2> QED
    BY <1>1, <2>2
<1>8. ChunksTileTheTexts'
  BY <1>1, <1>7, TilesNext
<1>9. Onward(c)
  BY <1>4, <1>5, ChunkOnward
<1>10. AllAhead(iter)'
  <2>1. AllAhead(c.end)
    BY <1>9 DEF Onward
  <2> QED
    BY <1>1, <2>1 DEF AllAhead, Ahead, Matched, Eq
<1>11. lines \in Seq(Lines)
  BY <1>6, ResolvedIn
<1> HIDE DEF lines
<1>12. lineBuffer \in Seq(Lines) /\ lineBuffer' \in Seq(Lines)
  BY <1>1, <1>3, <1>11 DEF Typed
<1>13. copied' \in Int /\ copied' >= -1 /\ (copied' >= 0 => lineBuffer' # <<>> /\ copied' <= Size[lineBuffer'[1]])
  <2>1. CASE lineBuffer' = <<>>
    BY <1>1, <2>1
  <2>2. CASE lineBuffer' # <<>>
    <3>1. lineBuffer'[1] \in Lines
      BY <1>12, <2>2
    <3>2. Size[lineBuffer'[1]] \in Nat
      BY <3>1, Diff3Assumption
    <3> QED
      BY <1>1, <2>2, <3>2
  <2> QED
    BY <2>1, <2>2
<1>14. chunks' \in Seq(Chunk)
  BY <1>1, <1>4, <1>6
<1>15. hasConflict' \in BOOLEAN
  BY <1>1
<1>16. /\ iter' \in Iters
       /\ iter'.o <= Len(merge'.base) /\ iter'.a <= Len(merge'.target) /\ iter'.b <= Len(merge'.source)
  BY <1>1, <1>9 DEF Onward, AllAhead, Ahead
<1>17. Typed'
  BY <1>1, <1>3, <1>12, <1>13, <1>14, <1>15, <1>16 DEF Typed
<1>18. Starting' /\ Cuts'
  BY <1>1, <1>10 DEF Starting, Cuts
<1> QED
  BY <1>8, <1>17, <1>18 DEF Inv

LEMMA InvNext ==
  ASSUME Inv, [Next]_vars
  PROVE  Inv'
<1>1. CASE Next
  BY <1>1, InvOpenBinary, InvOpen, InvFinishLine, InvFillBuffer, InvReadChunk, InvNoMoreChunks DEF Next
<1>2. CASE UNCHANGED vars
  <2>1. UNCHANGED <<merge, bufSize, phase, matchA, matchB, iter, lineBuffer, copied, room, out, hasConflict, chunks>>
    BY <1>2 DEF vars
  <2>2. Typed' /\ Starting'
    BY <2>1 DEF Inv, Typed, Starting
  <2>3. Cuts'
    BY <2>1 DEF Inv, Cuts, AllAhead, Ahead, Matched, Eq
  <2>4. ChunksTileTheTexts'
    BY <2>1, TilesStay DEF Inv
  <2> QED
    BY <2>2, <2>3, <2>4 DEF Inv
<1> QED
  BY <1>1, <1>2

LEMMA Invariant == Spec => []Inv
<1>1. Init => Inv
  BY InvInit
<1>2. Inv /\ [Next]_vars => Inv'
  BY InvNext
<1> QED
  BY <1>1, <1>2, PTL DEF Spec

(* Every variable of a merge holds a value of its kind. *)
THEOREM TypeCorrect == Spec => []TypeOK
<1>1. Inv => TypeOK
  <2> SUFFICES ASSUME Inv PROVE TypeOK
    OBVIOUS
  <2>1. Typed
    BY DEF Inv
  <2>2. merge \in [base : Seq(Lines), target : Seq(Lines), source : Seq(Lines)]
    BY <2>1, MergeTexts DEF Typed
  <2>3. /\ iter.o \in Nat /\ iter.a \in Nat /\ iter.b \in Nat /\ iter.finished \in BOOLEAN
    BY <2>1 DEF Typed, Iters
  <2>4. /\ Len(merge.base) \in Nat /\ Len(merge.target) \in Nat /\ Len(merge.source) \in Nat
    BY <2>2
  <2>5. iter.o \in 0..Len(merge.base) /\ iter.a \in 0..Len(merge.target) /\ iter.b \in 0..Len(merge.source)
    BY <2>1, <2>3, <2>4 DEF Typed
  <2>6. \A q \in DOMAIN lineBuffer : lineBuffer[q] \in Lines
    BY <2>1, ElementOfSeq DEF Typed
  <2> QED
    BY <2>1, <2>2, <2>3, <2>5, <2>6 DEF Typed, TypeOK
<1> QED
  BY <1>1, Invariant, PTL

(* The chunks tile the three texts. *)
THEOREM ChunksTile == Spec => []ChunksTileTheTexts
<1>1. Inv => ChunksTileTheTexts
  BY DEF Inv
<1> QED
  BY <1>1, Invariant, PTL

(* The matches the chunks are cut by come from exact edits. *)
THEOREM DiffsExact == Spec => []DiffsAreExact
<1>1. Inv => DiffsAreExact
  <2> SUFFICES ASSUME Inv PROVE DiffsAreExact
    OBVIOUS
  <2>1. merge.base \in Seq(Lines) /\ merge.target \in Seq(Lines) /\ merge.source \in Seq(Lines)
    BY MergeTexts DEF Inv, Typed
  <2>2. EditsAreExact(merge.base, merge.target) /\ EditsAreExact(merge.base, merge.source)
    BY <2>1, EditsExact
  <2> QED
    BY <2>2 DEF DiffsAreExact
<1> QED
  BY <1>1, Invariant, PTL

-----------------------------------------------------------------------------
(* The bytes of lines. *)

Byte == {NewLine} \cup (Lines \X Nat)
Whole(l) == Bytes(l, 0, Size[l])

BytesAre(l, from, to, p) ==
  p \in Seq(Byte) /\ Len(p) = to - from /\ \A k \in 1..to - from : p[k] = <<l, from + k>>

LEMMA BytesIs ==
  ASSUME NEW l \in Lines, NEW from \in Nat, NEW to \in Nat, from <= to
  PROVE  BytesAre(l, from, to, Bytes(l, from, to))
<1> DEFINE n == to - from  p == Bytes(l, from, to)  at(k) == <<l, from + k>>
<1>1. n \in Nat
  OBVIOUS
<1>2. p = [k \in 1..n |-> at(k)]
  BY DEF Bytes
<1>3. \A k \in 1..n : at(k) \in Byte
  BY DEF Byte
<1> HIDE DEF n, p, at
<1>4. p \in Seq(Byte) /\ Len(p) = n /\ \A k \in 1..n : p[k] = at(k)
  BY <1>1, <1>2, <1>3
<1> QED
  BY <1>4 DEF BytesAre, n, p, at

LEMMA BytesJoin ==
  ASSUME NEW l \in Lines, NEW from \in Nat, NEW mid \in Nat, NEW to \in Nat, from <= mid, mid <= to
  PROVE  Bytes(l, from, mid) \o Bytes(l, mid, to) = Bytes(l, from, to)
<1> DEFINE p == Bytes(l, from, mid)  r == Bytes(l, mid, to)  w == Bytes(l, from, to)  c == p \o r
           n == mid - from  m == to - mid
<1>1. BytesAre(l, from, mid, p) /\ BytesAre(l, mid, to, r) /\ BytesAre(l, from, to, w)
  <2>1. from <= to
    OBVIOUS
  <2> QED
    BY <2>1, BytesIs
<1>2. n \in Nat /\ m \in Nat /\ to - from = n + m /\ mid = from + n
  OBVIOUS
<1> HIDE DEF p, r, w, n, m
<1>3. /\ p \in Seq(Byte) /\ Len(p) = n /\ \A k \in 1..n : p[k] = <<l, from + k>>
      /\ r \in Seq(Byte) /\ Len(r) = m /\ \A k \in 1..m : r[k] = <<l, mid + k>>
      /\ w \in Seq(Byte) /\ Len(w) = n + m /\ \A k \in 1..n + m : w[k] = <<l, from + k>>
  BY <1>1, <1>2 DEF BytesAre, n, m
<1>4. c \in Seq(Byte) /\ Len(c) = n + m
  <2>1. p \in Seq(Byte) /\ r \in Seq(Byte) /\ Len(p) = n /\ Len(r) = m
    BY <1>3
  <2> QED
    BY <2>1
<1>5. (\A k \in 1..n : c[k] = p[k]) /\ (\A k \in 1..m : c[n + k] = r[k])
  <2>1. p \in Seq(Byte) /\ r \in Seq(Byte) /\ Len(p) = n /\ Len(r) = m
    BY <1>3
  <2>2. \A k \in 1..n : c[k] = p[k]
    BY <1>2, <2>1
  <2>3. \A k \in 1..m : c[n + k] = r[k]
    BY <1>2, <2>1
  <2> QED
    BY <2>2, <2>3
<1> HIDE DEF c
<1>6. ASSUME NEW k \in 1..n + m PROVE c[k] = w[k]
  <2>1. CASE k <= n
    <3>1. k \in 1..n
      BY <1>2, <2>1
    <3> QED
      BY <1>3, <1>5, <3>1
  <2>2. CASE ~(k <= n)
    <3> DEFINE t == k - n
    <3>1. t \in 1..m /\ n + t = k /\ mid + t = from + k
      BY <1>2, <2>2
    <3> HIDE DEF t
    <3>2. c[k] = r[t] /\ r[t] = <<l, mid + t>>
      BY <1>3, <1>5, <3>1
    <3> QED
      BY <1>3, <3>1, <3>2
  <2> QED
    BY <2>1, <2>2
<1>7. c = w
  BY <1>3, <1>4, <1>6, SeqEqual
<1> QED
  BY <1>7 DEF c, p, r, w

LEMMA BytesNone ==
  ASSUME NEW l, NEW from \in Nat
  PROVE  Bytes(l, from, from) = <<>>
<1>1. from - from = 0 /\ 1..0 = {}
  OBVIOUS
<1> QED
  BY <1>1 DEF Bytes

LEMMA SizeNat ==
  ASSUME NEW l \in Lines
  PROVE  Size[l] \in Nat
BY Diff3Assumption

LEMMA WholeIn ==
  ASSUME NEW l \in Lines
  PROVE  Whole(l) \in Seq(Byte)
<1>1. 0 \in Nat /\ Size[l] \in Nat /\ 0 <= Size[l]
  BY SizeNat
<1>2. BytesAre(l, 0, Size[l], Bytes(l, 0, Size[l]))
  BY <1>1, BytesIs
<1> QED
  BY <1>2 DEF BytesAre, Whole

(* Lines with a newline after each. *)
Ended(ls) == FlattenSeq([q \in DOMAIN ls |-> Whole(ls[q]) \o <<NewLine>>])

LEMMA NothingJoined == Ended(<<>>) = <<>> /\ Joined(<<>>) = <<>>
<1> DEFINE s == [q \in DOMAIN <<>> |-> Whole(<<>>[q]) \o <<NewLine>>]
           t == [q \in DOMAIN <<>> |-> Bytes(<<>>[q], 0, Size[<<>>[q]])
                                         \o (IF q < Len(<<>>) THEN <<NewLine>> ELSE <<>>)]
<1>1. s = <<>> /\ t = <<>>
  OBVIOUS
<1>2. Ended(<<>>) = FlattenSeq(s) /\ Joined(<<>>) = FlattenSeq(t)
  BY DEF Ended, Joined
<1> HIDE DEF s, t
<1>3. FlattenSeq(s) = <<>> /\ FlattenSeq(t) = <<>>
  BY <1>1 DEF FlattenSeq
<1> QED
  BY <1>2, <1>3

LEMMA LastAppended ==
  ASSUME NEW T, NEW n \in Nat, NEW s \in Seq(T), Len(s) = n, NEW e \in T,
         NEW t \in Seq(T), Len(t) = n + 1, t[n + 1] = e, \A q \in 1..n : t[q] = s[q]
  PROVE  t = Append(s, e)
<1> DEFINE u == Append(s, e)
<1>1. u \in Seq(T) /\ Len(u) = n + 1 /\ u[n + 1] = e /\ \A q \in 1..n : u[q] = s[q]
  BY AppendProperties
<1> HIDE DEF u
<1>2. \A q \in 1..n + 1 : t[q] = u[q]
  <2> SUFFICES ASSUME NEW q \in 1..n + 1 PROVE t[q] = u[q]
    OBVIOUS
  <2>1. q = n + 1 \/ q \in 1..n
    OBVIOUS
  <2> QED
    BY <1>1, <2>1
<1>3. t = u
  BY <1>1, <1>2, SeqEqual
<1> QED
  BY <1>3 DEF u

(* One line more. *)
OneMore(ls, l, ms) ==
  /\ Ended(ls) \in Seq(Byte)
  /\ Ended(ms) = Ended(ls) \o (Whole(l) \o <<NewLine>>)
  /\ Joined(ms) = Ended(ls) \o Whole(l)

LEMMA JoinedMore ==
  ASSUME NEW ls \in Seq(Lines), NEW l \in Lines, NEW ms, ms = Append(ls, l)
  PROVE  OneMore(ls, l, ms)
<1> DEFINE n == Len(ls)  T == Seq(Byte)
           s == [q \in DOMAIN ls |-> Whole(ls[q]) \o <<NewLine>>]
           t == [q \in DOMAIN ms |-> Whole(ms[q]) \o <<NewLine>>]
           u == [q \in DOMAIN ms |-> Bytes(ms[q], 0, Size[ms[q]])
                                       \o (IF q < Len(ms) THEN <<NewLine>> ELSE <<>>)]
           e == Whole(l) \o <<NewLine>>  w == Whole(l)
<1>1. n \in Nat /\ DOMAIN ls = 1..n /\ DOMAIN ms = 1..n + 1 /\ Len(ms) = n + 1
  OBVIOUS
<1>2. ms[n + 1] = l /\ (\A q \in 1..n : ms[q] = ls[q]) /\ (\A q \in 1..n : ls[q] \in Lines)
  OBVIOUS
<1>3. <<NewLine>> \in T
  BY DEF Byte
<1>4. w \in T /\ e \in T
  BY <1>3, WholeIn
<1>5. \A q \in 1..n : Whole(ls[q]) \in T /\ Whole(ls[q]) \o <<NewLine>> \in T
  BY <1>2, <1>3, WholeIn
<1>6. w \o <<>> = w
  <2> HIDE DEF w
  <2> QED
    BY <1>4
<1>7. s = [q \in 1..n |-> Whole(ls[q]) \o <<NewLine>>] /\ t = [q \in 1..n + 1 |-> Whole(ms[q]) \o <<NewLine>>]
  BY <1>1
<1>8. u = [q \in 1..n + 1 |-> Whole(ms[q]) \o (IF q < n + 1 THEN <<NewLine>> ELSE <<>>)]
  BY <1>1 DEF Whole
<1>9. Ended(ls) = FlattenSeq(s) /\ Ended(ms) = FlattenSeq(t) /\ Joined(ms) = FlattenSeq(u)
  BY DEF Ended, Joined
<1>a. e = Whole(l) \o <<NewLine>> /\ w = Whole(l)
  OBVIOUS
<1> HIDE DEF n, T, s, t, u, e, w
<1>10. /\ \A q \in 1..n : s[q] \in T
       /\ \A q \in 1..n : t[q] = s[q]
       /\ t[n + 1] = e
  <2>1. n + 1 \in 1..n + 1 /\ \A q \in 1..n : q \in 1..n + 1
    BY <1>1
  <2> QED
    BY <1>2, <1>5, <1>7, <1>a, <2>1
<1>11. /\ \A q \in 1..n : u[q] = s[q]
       /\ u[n + 1] = w
  <2>1. n + 1 \in 1..n + 1 /\ ~(n + 1 < n + 1) /\ \A q \in 1..n : q \in 1..n + 1 /\ q < n + 1
    BY <1>1
  <2>2. u[n + 1] = Whole(ms[n + 1]) \o <<>>
    BY <1>8, <2>1
  <2> QED
    BY <1>2, <1>6, <1>7, <1>8, <1>a, <2>1, <2>2
<1>12. s \in Seq(T) /\ Len(s) = n
  <2>1. s = [q \in 1..n |-> s[q]]
    BY <1>7
  <2> QED
    BY <1>1, <1>10, <2>1
<1>13. t = Append(s, e)
  <2>1. \A q \in 1..n + 1 : t[q] \in T
    <3> SUFFICES ASSUME NEW q \in 1..n + 1 PROVE t[q] \in T
      OBVIOUS
    <3>1. q = n + 1 \/ q \in 1..n
      BY <1>1
    <3> QED
      BY <1>4, <1>10, <3>1
  <2>2. t = [q \in 1..n + 1 |-> t[q]]
    BY <1>7
  <2>3. t \in Seq(T) /\ Len(t) = n + 1
    BY <1>1, <2>1, <2>2
  <2> QED
    BY <1>1, <1>4, <1>10, <1>12, <2>3, LastAppended
<1>14. u = Append(s, w)
  <2>1. \A q \in 1..n + 1 : u[q] \in T
    <3> SUFFICES ASSUME NEW q \in 1..n + 1 PROVE u[q] \in T
      OBVIOUS
    <3>1. q = n + 1 \/ q \in 1..n
      BY <1>1
    <3> QED
      BY <1>4, <1>10, <1>11, <3>1
  <2>2. u = [q \in 1..n + 1 |-> u[q]]
    BY <1>8
  <2>3. u \in Seq(T) /\ Len(u) = n + 1
    BY <1>1, <2>1, <2>2
  <2> QED
    BY <1>1, <1>4, <1>11, <1>12, <2>3, LastAppended
<1>15. FlattenSeq(s) \in T /\ FlattenSeq(t) = FlattenSeq(s) \o e /\ FlattenSeq(u) = FlattenSeq(s) \o w
  <2>1. s \in Seq(Seq(Byte)) /\ e \in Seq(Byte) /\ w \in Seq(Byte)
    BY <1>4, <1>12 DEF T
  <2> QED
    BY <1>13, <1>14, <2>1, FlattenFacts DEF T
<1> QED
  BY <1>9, <1>15, <1>a DEF OneMore, T

-----------------------------------------------------------------------------
(* The bytes written so far. *)

LEMMA MergedIs == Merged = AllOf(chunks, "lines")
BY Zenon DEF Merged, AllOf

(* A line that is not empty ends with a buffer of this size. *)
EndsAt(M, size, q) == Size[M[q]] > 0 /\ Len(Joined(SubSeq(M, 1, q))) % size = 0
EndsWith(M, size) == \E q \in DOMAIN M : EndsAt(M, size, q)

LEMMA EndsIs == LineEndsWithBuffer <=> EndsWith(Merged, bufSize)
BY Zenon DEF LineEndsWithBuffer, EndsWith, EndsAt

LEMMA EndsNext ==
  ASSUME UNCHANGED <<bufSize, chunks>>
  PROVE  LineEndsWithBuffer' <=> LineEndsWithBuffer
BY DEF LineEndsWithBuffer, Merged, Joined, Bytes

(* The lines before the first q are the first q of all. *)
LEMMA FirstOf ==
  ASSUME NEW M \in Seq(Lines), NEW L \in Seq(Lines), NEW N, N = M \o L, NEW q \in DOMAIN M
  PROVE  q \in DOMAIN N /\ N[q] = M[q] /\ SubSeq(N, 1, q) = SubSeq(M, 1, q)
<1>1. /\ Len(M) \in Nat /\ Len(L) \in Nat /\ DOMAIN M = 1..Len(M) /\ N \in Seq(Lines)
      /\ DOMAIN N = 1..Len(M) + Len(L) /\ \A t \in 1..Len(M) : N[t] = M[t]
  OBVIOUS
<1> DEFINE n == Len(M)  m == Len(L)
<1>2. n \in Nat /\ m \in Nat /\ q \in 1..n /\ q \in 1..n + m
  BY <1>1
<1>3. /\ SubSeq(N, 1, q) = [t \in 1..(q - 1) + 1 |-> N[1 + t - 1]]
      /\ SubSeq(M, 1, q) = [t \in 1..(q - 1) + 1 |-> M[1 + t - 1]]
  OBVIOUS
<1>4. \A t \in 1..(q - 1) + 1 : N[1 + t - 1] = M[1 + t - 1]
  <2> SUFFICES ASSUME NEW t \in 1..(q - 1) + 1 PROVE N[1 + t - 1] = M[1 + t - 1]
    OBVIOUS
  <2>1. 1 + t - 1 = t /\ t \in 1..n
    BY <1>2
  <2> QED
    BY <1>1, <2>1
<1> QED
  BY <1>1, <1>2, <1>3, <1>4

LEMMA EndsStays ==
  ASSUME NEW M \in Seq(Lines), NEW L \in Seq(Lines), NEW N, N = M \o L, NEW size, EndsWith(M, size)
  PROVE  EndsWith(N, size)
<1>1. PICK q \in DOMAIN M : EndsAt(M, size, q)
  BY DEF EndsWith
<1>2. q \in DOMAIN N /\ N[q] = M[q] /\ SubSeq(N, 1, q) = SubSeq(M, 1, q)
  BY FirstOf
<1>3. EndsAt(N, size, q)
  BY <1>1, <1>2 DEF EndsAt
<1> QED
  BY <1>2, <1>3 DEF EndsWith

LEMMA EndsHere ==
  ASSUME NEW W \in Seq(Lines), NEW l \in Lines, NEW L \in Seq(Lines), NEW V, V = Append(W, l),
         NEW M, M = V \o L, NEW size, Size[l] > 0, Len(Joined(V)) % size = 0
  PROVE  EndsWith(M, size)
<1> DEFINE q == Len(V)
<1>1. V \in Seq(Lines) /\ q \in DOMAIN V /\ V[q] = l /\ q \in Nat
  OBVIOUS
<1>2. SubSeq(V, 1, q) = V
  <2>1. Part(V, 0, Len(V)) = V
    BY <1>1, PartAll
  <2> QED
    BY <2>1 DEF Part
<1> HIDE DEF q
<1>3. q \in DOMAIN M /\ M[q] = V[q] /\ SubSeq(M, 1, q) = SubSeq(V, 1, q)
  BY <1>1, FirstOf
<1>4. EndsAt(M, size, q)
  BY <1>1, <1>2, <1>3 DEF EndsAt
<1> QED
  BY <1>3, <1>4 DEF EndsWith

(* What is left of a buffer when n bytes are added to x. *)
LEMMA RoomLeft ==
  ASSUME NEW b \in Nat, b > 0, NEW x \in Nat, NEW n \in Nat, n <= b - (x % b)
  PROVE  /\ x % b \in 0..b - 1
         /\ n = b - (x % b) => (x + n) % b = 0
         /\ n # b - (x % b) => (x + n) % b = (x % b) + n
<1> DEFINE q == x \div b  r == x % b  y == x + n  p == y \div b  s == y % b
<1>1. /\ r \in 0..b - 1 /\ q \in Nat /\ x = b * q + r
      /\ s \in 0..b - 1 /\ p \in Nat /\ y = b * p + s
  OBVIOUS
<1>2. n <= b - r /\ y = x + n
  OBVIOUS
<1> HIDE DEF q, r, p, s, y
<1> DEFINE t == p - q
<1>3. t \in Int /\ b * t = b * p - b * q
  BY <1>1
<1>4. b * t = r + n - s
  <2> DEFINE u == b * p  v == b * q
  <2>1. u \in Nat /\ v \in Nat /\ x = v + r /\ y = u + s /\ b * t = u - v
    BY <1>1, <1>3
  <2> HIDE DEF u, v, t
  <2>2. b * t \in Int
    BY <2>1
  <2> QED
    BY <1>1, <1>2, <2>1
<1> HIDE DEF t
<1>5. t >= 2 => b * t >= b + b
  BY <1>3
<1>6. t <= -1 => b * t <= -b
  BY <1>3
<1>7. t = 0 => b * t = 0
  BY <1>3
<1>8. t = 1 => b * t = b
  BY <1>3
<1> DEFINE w == b * t
<1>9. /\ w = r + n - s /\ (t >= 2 => w >= b + b) /\ (t <= -1 => w <= -b)
      /\ (t = 0 => w = 0) /\ (t = 1 => w = b)
  BY <1>4, <1>5, <1>6, <1>7, <1>8
<1>10. w \in Int
  BY <1>3
<1> HIDE DEF w
<1>11. t = 0 \/ t = 1
  BY <1>1, <1>2, <1>3, <1>9, <1>10
<1>12. /\ n = b - r => s = 0
       /\ n # b - r => s = r + n
  BY <1>1, <1>2, <1>9, <1>10, <1>11
<1> QED
  BY <1>1, <1>12 DEF r, s, y

(* The lines W are written, each with its newline when another may follow, *)
(* and the first of lineBuffer is written in part; unless a line ended     *)
(* with the buffer.                                                        *)
Trailing == ~iter.finished \/ Last(chunks).lines = <<>>

Streamed(W) ==
  /\ Merged = W \o lineBuffer
  /\ copied >= 0 => out = Ended(W) \o Bytes(lineBuffer[1], 0, copied)
  /\ copied = -1 => lineBuffer = <<>> /\ out = (IF Trailing THEN Ended(W) ELSE Joined(W))
  /\ copied >= 0 /\ iter.finished => ~Trailing
  /\ phase = "done" => copied = -1
  /\ ~(iter.finished /\ copied = -1) => room = bufSize - (Len(out) % bufSize)

Stream ==
  \/ phase = "open"
  \/ phase = "done" /\ ~iter.finished
  \/ LineEndsWithBuffer
  \/ \E W \in Seq(Lines) : Streamed(W)

LEMMA EndedIn ==
  ASSUME NEW W \in Seq(Lines)
  PROVE  /\ Ended(W) \in Seq(Byte) /\ Joined(W) \in Seq(Byte)
         /\ W # <<>> => Ended(W) = Joined(W) \o <<NewLine>>
<1>1. CASE W = <<>>
  <2>1. Ended(W) = <<>> /\ Joined(W) = <<>>
    BY <1>1, NothingJoined
  <2>2. <<>> \in Seq(Byte)
    <3> DEFINE T == Byte
    <3> HIDE DEF T
    <3>1. <<>> \in Seq(T)
      OBVIOUS
    <3> QED
      BY <3>1 DEF T
  <2> QED
    BY <1>1, <2>1, <2>2
<1>2. CASE W # <<>>
  <2> DEFINE n == Len(W)  l == W[n]  V == SubSeq(W, 1, n - 1)
  <2>1. V \in Seq(Lines) /\ l \in Lines /\ W = Append(V, l)
    <3>1. n \in Nat /\ n > 0 /\ n \in 1..n /\ n - 1 \in Nat
      BY <1>2
    <3>2. l \in Lines
      BY <3>1, ElementOfSeq
    <3>3. V \in Seq(Lines) /\ Len(V) = n - 1 /\ \A q \in 1..n - 1 : V[q] = W[q]
      <4>1. IsPart(Lines, W, 0, n - 1, Part(W, 0, n - 1))
        BY <3>1, PartIs
      <4>2. Part(W, 0, n - 1) = V
        BY DEF Part
      <4>3. (n - 1) - 0 = n - 1 /\ \A q \in 1..n - 1 : 0 + q = q
        BY <3>1
      <4> HIDE DEF n, V
      <4> QED
        BY <4>1, <4>2, <4>3 DEF IsPart
    <3> DEFINE k == n - 1
    <3>4. k \in Nat /\ Len(V) = k /\ Len(W) = k + 1 /\ W[k + 1] = l /\ \A q \in 1..k : W[q] = V[q]
      BY <3>1, <3>3
    <3> HIDE DEF n, l, V, k
    <3> QED
      BY <3>2, <3>3, <3>4, LastAppended
  <2> HIDE DEF l, V
  <2>2. OneMore(V, l, W)
    BY <2>1, JoinedMore
  <2> DEFINE e == Ended(V)  w == Whole(l)  z == <<NewLine>>
  <2>3. e \in Seq(Byte) /\ w \in Seq(Byte) /\ z \in Seq(Byte)
    BY <2>1, <2>2, WholeIn DEF OneMore, Byte
  <2>4. Ended(W) = e \o (w \o z) /\ Joined(W) = e \o w
    BY <2>2 DEF OneMore
  <2> HIDE DEF e, w, z
  <2>5. e \o (w \o z) = (e \o w) \o z /\ e \o w \in Seq(Byte) /\ (e \o w) \o z \in Seq(Byte)
    BY <2>3
  <2> QED
    BY <2>4, <2>5 DEF z
<1> QED
  BY <1>1, <1>2

LEMMA StreamOpen ==
  ASSUME Inv, Open
  PROVE  Stream'
<1>1. /\ phase = "open" /\ phase' = "read"
      /\ UNCHANGED <<merge, bufSize, iter, lineBuffer, copied, room, out, hasConflict, chunks>>
  BY DEF Open
<1>2. /\ iter = [o |-> 0, a |-> 0, b |-> 0, finished |-> FALSE]
      /\ lineBuffer = <<>> /\ copied = -1 /\ room = bufSize /\ out = <<>> /\ chunks = <<>>
  BY <1>1 DEF Inv, Starting
<1>3. bufSize \in Nat /\ bufSize > 0
  BY Diff3Assumption DEF Inv, Typed
<1>4. Merged = <<>>
  BY <1>2, MergedIs, AllOfNone
<1>5. Merged' = Merged
  BY <1>1 DEF Merged
<1>6. Ended(<<>>) = <<>>
  BY NothingJoined
<1>7. Trailing'
  BY <1>1, <1>2 DEF Trailing
<1>8. room = bufSize - (Len(out) % bufSize)
  <2>1. Len(out) = 0 /\ 0 % bufSize = 0
    BY <1>2, <1>3
  <2> QED
    BY <1>2, <1>3, <2>1
<1>9. <<>> \in Seq(Lines) /\ <<>> \o <<>> = <<>>
  OBVIOUS
<1>10. Streamed(<<>>)'
  BY <1>1, <1>2, <1>4, <1>5, <1>6, <1>7, <1>8, <1>9 DEF Streamed
<1> QED
  BY <1>9, <1>10 DEF Stream

(* What a reading step starts from. *)
LEMMA StreamReads ==
  ASSUME Inv, Stream, phase = "read"
  PROVE  LineEndsWithBuffer \/ \E W \in Seq(Lines) : Streamed(W)
BY DEF Stream

LEMMA StreamNoMore ==
  ASSUME Inv, Stream, NoMoreChunks
  PROVE  Stream'
<1>1. /\ phase = "read" /\ copied = -1 /\ iter.finished /\ Wrote(0)
      /\ UNCHANGED <<merge, bufSize, matchA, matchB, iter, lineBuffer, copied, out, hasConflict, chunks>>
  BY DEF NoMoreChunks
<1>2. CASE LineEndsWithBuffer
  BY <1>1, <1>2, EndsNext DEF Stream
<1>3. CASE \E W \in Seq(Lines) : Streamed(W)
  <2>1. PICK W \in Seq(Lines) : Streamed(W)
    BY <1>3
  <2>2. Merged' = Merged /\ Trailing' = Trailing
    BY <1>1 DEF Merged, Trailing
  <2>3. Streamed(W)'
    BY <1>1, <2>1, <2>2 DEF Streamed
  <2> QED
    BY <2>3 DEF Stream
<1> QED
  BY <1>1, <1>2, <1>3, StreamReads

LEMMA StreamReadChunk ==
  ASSUME Inv, Stream, ReadChunk
  PROVE  Stream'
<1> DEFINE c == NextChunk
           o == Part(merge.base, iter.o, c.end.o)
           a == Part(merge.target, iter.a, c.end.a)
           b == Part(merge.source, iter.b, c.end.b)
           lines == IF c.clean THEN o ELSE Resolved(o, a, b)
           h == ChunkOf(c, o, a, b)
<1>1. /\ phase = "read" /\ copied = -1 /\ ~iter.finished
      /\ chunks' = Append(chunks, h)
      /\ lineBuffer' = lineBuffer \o lines
      /\ copied' = IF lineBuffer' # <<>> THEN 0 ELSE -1
      /\ UNCHANGED <<merge, bufSize, phase, matchA, matchB, room, out>>
  BY DEF ReadChunk, ChunkOf
<1>2. h.lines = lines
  BY DEF ChunkOf
<1>3. Typed /\ Cuts
  BY DEF Inv
<1>4. AllAhead(iter) /\ merge \in Merges /\ chunks \in Seq(Chunk)
  BY <1>1, <1>3 DEF Cuts, Typed
<1>5. h \in Chunk
  <2>1. Pieces3(c, o, a, b)
    BY DEF Pieces3
  <2> HIDE DEF o, a, b
  <2> QED
    BY <1>4, <2>1, ChunkTyped
<1> HIDE DEF h, lines
<1>6. lines \in Seq(Lines) /\ h["lines"] = lines
  BY <1>2, <1>5 DEF Chunk
<1>7. FieldIn(chunks, "lines", Lines)
  <2>1. \A q \in DOMAIN chunks : chunks[q] \in Chunk
    BY <1>4, ElementOfSeq
  <2> QED
    BY <2>1 DEF FieldIn, Chunk
<1>8. Grows(chunks, chunks', "lines", lines, Lines)
  BY <1>1, <1>4, <1>5, <1>6, <1>7, AllOfMore
<1>9. Merged \in Seq(Lines) /\ Merged' = Merged \o lines
  <2>1. Merged' = AllOf(chunks', "lines")
    BY Zenon DEF Merged, AllOf
  <2> QED
    BY <1>8, <2>1, MergedIs DEF Grows
<1>10. CASE LineEndsWithBuffer
  <2>1. EndsWith(Merged, bufSize)
    BY <1>10, EndsIs
  <2>2. EndsWith(Merged', bufSize)
    BY <1>6, <1>9, <2>1, EndsStays
  <2>3. LineEndsWithBuffer'
    BY <1>1, <2>2 DEF LineEndsWithBuffer, EndsWith, EndsAt, Joined, Bytes
  <2> QED
    BY <2>3 DEF Stream
<1>11. CASE \E W \in Seq(Lines) : Streamed(W)
  <2>1. PICK W \in Seq(Lines) : Streamed(W)
    BY <1>11
  <2>2. /\ Merged = W \o lineBuffer /\ lineBuffer = <<>> /\ out = Ended(W)
        /\ room = bufSize - (Len(out) % bufSize)
    BY <1>1, <2>1 DEF Streamed, Trailing
  <2>3. lineBuffer' = lines /\ Merged = W
    BY <1>1, <1>6, <2>2
  <2>4. Last(chunks').lines = lines
    <3>1. Last(chunks') = h
      BY <1>1, <1>4, <1>5 DEF Last
    <3> QED
      BY <1>2, <3>1
  <2>5. Merged' = W \o lineBuffer' /\ room' = bufSize' - (Len(out') % bufSize') /\ out' = Ended(W)
    BY <1>1, <1>9, <2>2, <2>3
  <2>6. CASE lines = <<>>
    <3>1. Trailing'
      BY <2>4, <2>6 DEF Trailing
    <3> QED
      BY <1>1, <2>3, <2>5, <2>6, <3>1 DEF Stream, Streamed
  <2>7. CASE lines # <<>>
    <3>1. iter'.finished => ~Trailing'
      BY <2>4, <2>7 DEF Trailing
    <3>2. copied' = 0
      BY <1>1, <2>3, <2>7
    <3>3. lineBuffer'[1] \in Lines
      BY <1>6, <2>3, <2>7
    <3>4. out' = Ended(W) \o Bytes(lineBuffer'[1], 0, 0)
      <4>1. Bytes(lineBuffer'[1], 0, 0) = <<>>
        BY BytesNone
      <4>2. Ended(W) \in Seq(Byte)
        BY EndedIn
      <4> QED
        BY <2>5, <4>1, <4>2
    <3>5. Streamed(W)'
      <4>1. copied' >= 0 /\ copied' # -1
        BY <3>2
      <4>2. out' = Ended(W) \o Bytes(lineBuffer'[1], 0, copied')
        BY <3>2, <3>4
      <4>3. phase' # "done"
        BY <1>1
      <4> QED
        BY <2>5, <3>1, <4>1, <4>2, <4>3 DEF Streamed
    <3> QED
      BY <3>5 DEF Stream
  <2> QED
    BY <2>6, <2>7
<1> QED
  BY <1>1, <1>10, <1>11, StreamReads

(* The room after n bytes more. *)
LEMMA RoomNext ==
  ASSUME bufSize \in Nat, bufSize > 0, phase = "read", NEW x, x = Len(out), x \in Nat,
         room = bufSize - (x % bufSize), NEW n \in Nat, n > 0, n <= room, Wrote(n)
  PROVE  /\ phase' = "read"
         /\ room' = bufSize - ((x + n) % bufSize)
         /\ n = room => (x + n) % bufSize = 0
<1> DEFINE r == x % bufSize  s == (x + n) % bufSize
<1>1. /\ r \in 0..bufSize - 1
      /\ n = room => s = 0
      /\ n # room => s = r + n
  BY RoomLeft
<1>2. room = bufSize - r
  OBVIOUS
<1>3. phase' = "read" /\ room' = IF room = n THEN bufSize ELSE room - n
  BY DEF Wrote
<1> HIDE DEF r, s
<1>4. room' = bufSize - s
  BY <1>1, <1>2, <1>3
<1> QED
  BY <1>1, <1>3, <1>4 DEF s

(* Bytes after bytes. *)
LEMMA LengthAfter ==
  ASSUME NEW u \in Seq(Byte), NEW v \in Seq(Byte)
  PROVE  /\ u \o v \in Seq(Byte)
         /\ Len(u) \in Nat /\ Len(v) \in Nat
         /\ Len(u \o v) = Len(u) + Len(v)
<1> DEFINE T == Byte
<1>1. u \in Seq(T) /\ v \in Seq(T)
  OBVIOUS
<1> HIDE DEF T
<1>2. u \o v \in Seq(T) /\ Len(u) \in Nat /\ Len(v) \in Nat
  BY <1>1
<1>3. Len(u \o v) = Len(u) + Len(v)
  BY <1>1
<1> QED
  BY <1>2, <1>3 DEF T

LEMMA BytesAfter ==
  ASSUME NEW e \in Seq(Byte), NEW p \in Seq(Byte), NEW q \in Seq(Byte)
  PROVE  (e \o p) \o q = e \o (p \o q)
<1> DEFINE T == Byte
<1>1. e \in Seq(T) /\ p \in Seq(T) /\ q \in Seq(T)
  OBVIOUS
<1> HIDE DEF T
<1> QED
  BY <1>1

LEMMA OneLine ==
  ASSUME NEW W \in Seq(Lines), NEW l \in Lines
  PROVE  Append(W, l) \in Seq(Lines) /\ OneMore(W, l, Append(W, l))
<1> DEFINE n == Len(W)  V == Append(W, l)
<1>1. V \in Seq(Lines) /\ Len(V) = n + 1 /\ V[n + 1] = l /\ \A q \in 1..n : V[q] = W[q]
  OBVIOUS
<1> QED
  BY <1>1, JoinedMore

LEMMA StreamFillBuffer ==
  ASSUME Inv, Stream, FillBuffer
  PROVE  Stream'
<1> DEFINE line == lineBuffer[1]  s == Size[line]
<1>1. /\ phase = "read" /\ copied >= 0 /\ s - copied >= room
      /\ out' = out \o Bytes(line, copied, copied + room)
      /\ copied' = IF s - copied = room THEN -1 ELSE copied + room
      /\ Wrote(room)
      /\ UNCHANGED <<merge, bufSize, matchA, matchB, iter, lineBuffer, hasConflict, chunks>>
  BY DEF FillBuffer
<1>2. /\ lineBuffer \in Seq(Lines) /\ lineBuffer # <<>> /\ copied \in Nat /\ copied # -1
      /\ room \in Nat /\ room > 0 /\ bufSize \in Nat /\ bufSize > 0
  <2>1. Typed
    BY DEF Inv
  <2>2. bufSize \in Nat /\ bufSize > 0
    BY <2>1, Diff3Assumption DEF Typed
  <2> QED
    BY <1>1, <2>1, <2>2 DEF Typed
<1>3. line \in Lines /\ s \in Nat
  BY <1>2, SizeNat
<1> HIDE DEF line, s
<1>4. CASE LineEndsWithBuffer
  BY <1>1, <1>4, EndsNext DEF Stream
<1>5. CASE \E W \in Seq(Lines) : Streamed(W)
  <2>1. PICK W \in Seq(Lines) : Streamed(W)
    BY <1>5
  <2>2. /\ Merged = W \o lineBuffer /\ out = Ended(W) \o Bytes(line, 0, copied)
        /\ iter.finished => ~Trailing
        /\ room = bufSize - (Len(out) % bufSize)
    BY <1>1, <1>2, <2>1 DEF Streamed, line
  <2> DEFINE to == copied + room  p == Bytes(line, 0, copied)  q == Bytes(line, copied, to)
             e == Ended(W)  x == Len(out)
  <2>3. 0 \in Nat /\ to \in Nat /\ 0 <= copied /\ copied <= to /\ to - copied = room /\ copied - 0 = copied
    BY <1>2
  <2>4. BytesAre(line, 0, copied, p) /\ BytesAre(line, copied, to, q)
    BY <1>2, <1>3, <2>3, BytesIs
  <2>5. p \o q = Bytes(line, 0, to)
    BY <1>2, <1>3, <2>3, BytesJoin, SMTT(30)
  <2>6. p \in Seq(Byte) /\ q \in Seq(Byte) /\ Len(q) = room /\ e \in Seq(Byte)
    BY <2>3, <2>4, EndedIn DEF BytesAre
  <2>7. out = e \o p /\ out' = out \o q
    BY <1>1, <2>2
  <2> HIDE DEF to, p, q, e
  <2>8. out \in Seq(Byte) /\ out' = e \o (p \o q) /\ Len(out') = x + room /\ x \in Nat
    <3>1. out \in Seq(Byte)
      BY <2>6, <2>7, LengthAfter
    <3>2. Len(out \o q) = Len(out) + Len(q) /\ Len(out) \in Nat
      BY <2>6, <3>1, LengthAfter
    <3>3. (e \o p) \o q = e \o (p \o q)
      BY <2>6, BytesAfter
    <3> QED
      BY <2>6, <2>7, <3>1, <3>2, <3>3
  <2>9. /\ phase' = "read"
        /\ room' = bufSize - (Len(out') % bufSize)
        /\ Len(out') % bufSize = 0
    <3>1. x = Len(out) /\ room = bufSize - (x % bufSize) /\ room <= room
      BY <1>2, <2>2
    <3> HIDE DEF x
    <3>2. /\ phase' = "read"
          /\ room' = bufSize - ((x + room) % bufSize)
          /\ (x + room) % bufSize = 0
      BY <1>1, <1>2, <2>8, <3>1, RoomNext
    <3> QED
      BY <2>8, <3>2
  <2>10. Merged' = Merged /\ Trailing' = Trailing
    BY <1>1 DEF Merged, Trailing
  <2>11. CASE s - copied = room
    <3>1. to = s /\ s > 0
      BY <1>2, <1>3, <2>11 DEF to
    <3> DEFINE V == Append(W, line)  L == Tail(lineBuffer)
    <3>2. L \in Seq(Lines) /\ Merged = V \o L
      <4>1. lineBuffer = <<line>> \o L /\ L \in Seq(Lines) /\ <<line>> \in Seq(Lines)
        BY <1>2, <1>3 DEF line
      <4>2. W \o (<<line>> \o L) = Append(W, line) \o L
        <5> HIDE DEF L
        <5> QED
          BY <1>3, <4>1
      <4> QED
        BY <2>2, <4>1, <4>2
    <3>3. OneMore(W, line, V)
      BY <1>3, OneLine
    <3>4. Joined(V) = out'
      BY <2>5, <2>8, <3>1, <3>3 DEF OneMore, Whole, e, s
    <3>5. Len(Joined(V)) % bufSize = 0
      BY <2>9, <3>4
    <3> HIDE DEF L
    <3>6. EndsWith(Merged, bufSize)
      BY <1>3, <3>1, <3>2, <3>5, EndsHere DEF s
    <3> QED
      BY <1>1, <3>6, EndsIs, EndsNext DEF Stream
  <2>12. CASE s - copied # room
    <3>1. copied' = to /\ to >= 0 /\ to # -1
      BY <1>1, <2>3, <2>12 DEF to
    <3>2. out' = Ended(W) \o Bytes(lineBuffer'[1], 0, copied')
      BY <1>1, <2>5, <2>8, <3>1 DEF e, line
    <3>3. Merged' = W \o lineBuffer'
      BY <1>1, <2>2, <2>10
    <3>4. iter'.finished => ~Trailing'
      BY <1>1, <2>2, <2>10
    <3>5. phase' # "done" /\ copied' >= 0 /\ copied' # -1
      BY <2>9, <3>1
    <3>6. room' = bufSize' - (Len(out') % bufSize')
      BY <1>1, <2>9
    <3>7. Streamed(W)'
      BY <3>2, <3>3, <3>4, <3>5, <3>6 DEF Streamed
    <3> QED
      BY <3>7 DEF Stream
  <2> QED
    BY <2>11, <2>12
<1> QED
  BY <1>1, <1>4, <1>5, StreamReads

LEMMA StreamFinishLine ==
  ASSUME Inv, Stream, FinishLine
  PROVE  Stream'
<1> DEFINE line == lineBuffer[1]  s == Size[line]
           end == IF NewLineFollows THEN <<NewLine>> ELSE <<>>
           n == s - copied + Len(end)
<1>1. /\ phase = "read" /\ copied >= 0 /\ s - copied < room
      /\ out' = out \o Bytes(line, copied, s) \o end
      /\ lineBuffer' = Tail(lineBuffer)
      /\ copied' = IF lineBuffer' # <<>> THEN 0 ELSE -1
      /\ Wrote(n)
      /\ UNCHANGED <<merge, bufSize, matchA, matchB, iter, hasConflict, chunks>>
  BY DEF FinishLine
<1>2. /\ lineBuffer \in Seq(Lines) /\ lineBuffer # <<>> /\ copied \in Nat /\ copied # -1 /\ copied <= s
      /\ room \in Nat /\ room > 0 /\ bufSize \in Nat /\ bufSize > 0
  <2>1. Typed
    BY DEF Inv
  <2>2. bufSize \in Nat /\ bufSize > 0
    BY <2>1, Diff3Assumption DEF Typed
  <2> QED
    BY <1>1, <2>1, <2>2 DEF Typed
<1>3. line \in Lines /\ s \in Nat
  BY <1>2, SizeNat
<1> DEFINE L == Tail(lineBuffer)
<1>4. lineBuffer = <<line>> \o L /\ L \in Seq(Lines) /\ Len(lineBuffer) = 1 + Len(L)
  BY <1>2, <1>3
<1>5. NewLineFollows <=> L # <<>> \/ ~iter.finished
  <2> HIDE DEF L
  <2>1. Len(L) \in Nat /\ (Len(L) = 0 <=> L = <<>>)
    BY <1>4
  <2>2. Len(lineBuffer) > 1 <=> L # <<>>
    BY <1>4, <2>1
  <2> QED
    BY <2>2 DEF NewLineFollows
<1>6. /\ NewLineFollows => end = <<NewLine>>
      /\ ~NewLineFollows => end = <<>>
  OBVIOUS
<1>7. end \in Seq(Byte) /\ Len(end) \in {0, 1} /\ (NewLineFollows => Len(end) = 1)
  <2>1. <<NewLine>> \in Seq(Byte)
    BY DEF Byte
  <2>2. <<>> \in Seq(Byte)
    <3> DEFINE T == Byte
    <3> HIDE DEF T
    <3>1. <<>> \in Seq(T)
      OBVIOUS
    <3> QED
      BY <3>1 DEF T
  <2> QED
    BY <1>6, <2>1, <2>2
<1> HIDE DEF end, L, line, s
<1>8. n \in Nat /\ n <= room /\ (NewLineFollows => n > 0)
  <2> DEFINE l == Len(end)
  <2> HIDE DEF l
  <2>1. l \in {0, 1} /\ (NewLineFollows => l = 1)
    BY <1>7 DEF l
  <2>2. n = s - copied + l
    BY DEF l
  <2> HIDE DEF n
  <2> QED
    BY <1>1, <1>2, <1>3, <2>1, <2>2
<1> HIDE DEF n
<1>9. CASE LineEndsWithBuffer
  BY <1>1, <1>9, EndsNext DEF Stream
<1>10. CASE \E W \in Seq(Lines) : Streamed(W)
  <2>1. PICK W \in Seq(Lines) : Streamed(W)
    BY <1>10
  <2>2. /\ Merged = W \o lineBuffer /\ out = Ended(W) \o Bytes(line, 0, copied)
        /\ iter.finished => ~Trailing
        /\ room = bufSize - (Len(out) % bufSize)
    BY <1>1, <1>2, <2>1 DEF Streamed, line
  <2> DEFINE p == Bytes(line, 0, copied)  q == Bytes(line, copied, s)
             e == Ended(W)  x == Len(out)  V == Append(W, line)  w == Whole(line)
  <2>3. 0 \in Nat /\ 0 <= copied /\ copied <= s
    BY <1>2
  <2>4. BytesAre(line, 0, copied, p) /\ BytesAre(line, copied, s, q)
    BY <1>2, <1>3, <2>3, BytesIs
  <2>5. p \o q = w
    <3>1. p \o q = Bytes(line, 0, s)
      BY <1>2, <1>3, <2>3, BytesJoin, SMTT(30)
    <3> QED
      BY <3>1 DEF Whole, s
  <2>6. p \in Seq(Byte) /\ q \in Seq(Byte) /\ Len(q) = s - copied /\ e \in Seq(Byte)
    BY <2>4, EndedIn DEF BytesAre
  <2>7. out = e \o p /\ out' = out \o q \o end
    BY <1>1, <2>2
  <2>8. V \in Seq(Lines) /\ OneMore(W, line, V)
    BY <1>3, OneLine
  <2> HIDE DEF p, q, e
  <2>9. out \in Seq(Byte) /\ out' = (e \o (p \o q)) \o end /\ Len(out') = x + (s - copied) + Len(end) /\ x \in Nat
    <3> DEFINE v == out \o q  t == v \o end
    <3>1. out \in Seq(Byte)
      BY <2>6, <2>7, LengthAfter
    <3>2. v \in Seq(Byte) /\ Len(v) = Len(out) + Len(q) /\ Len(out) \in Nat
      BY <2>6, <3>1, LengthAfter
    <3>3. v = e \o (p \o q)
      BY <2>6, <2>7, BytesAfter
    <3>4. out' = t
      BY <2>7
    <3>5. end \in Seq(Byte)
      BY <1>7
    <3> HIDE DEF v
    <3>6. Len(t) = Len(v) + Len(end)
      BY <3>2, <3>5, LengthAfter
    <3>7. t = (e \o (p \o q)) \o end
      BY <3>3
    <3> HIDE DEF t
    <3> QED
      BY <2>6, <3>1, <3>2, <3>4, <3>6, <3>7
  <2>10. Len(out') = x + n
    <3> DEFINE l == Len(end)  y == Len(out')
    <3>1. y = x + (s - copied) + l /\ n = s - copied + l /\ l \in Nat
      BY <1>7, <2>9 DEF n
    <3> HIDE DEF l, y, x
    <3>2. y = x + n
      BY <1>2, <1>3, <2>9, <3>1
    <3> QED
      BY <3>2 DEF y
  <2>11. /\ NewLineFollows => out' = Ended(V)
         /\ ~NewLineFollows => out' = Joined(V)
    <3>1. out' = (e \o w) \o end
      BY <2>5, <2>9
    <3>2. w \in Seq(Byte)
      BY <1>3, WholeIn
    <3> HIDE DEF w
    <3>3. (e \o w) \o <<>> = e \o w
      BY <2>6, <3>2
    <3>4. (e \o w) \o <<NewLine>> = e \o (w \o <<NewLine>>)
      <4> DEFINE z == <<NewLine>>
      <4>1. z \in Seq(Byte)
        BY DEF Byte
      <4> HIDE DEF z
      <4>2. Associates(e, w, z)
        BY <2>6, <3>2, <4>1, Assoc, Zenon
      <4> QED
        BY <4>2 DEF Associates, z
    <3> QED
      BY <1>6, <2>8, <3>1, <3>3, <3>4 DEF OneMore, w, e
  <2>12. Merged' = V \o lineBuffer' /\ Trailing' = Trailing
    <3>1. Merged' = Merged /\ Trailing' = Trailing
      BY <1>1 DEF Merged, Trailing
    <3>2. W \o (<<line>> \o L) = Append(W, line) \o L
      BY <1>3, <1>4, SMTT(30)
    <3> QED
      BY <1>1, <1>4, <2>2, <3>1, <3>2 DEF L
  <2>13. lineBuffer' = L
    BY <1>1 DEF L
  <2>14. NewLineFollows => phase' = "read" /\ room' = bufSize' - (Len(out') % bufSize')
    <3> SUFFICES ASSUME NewLineFollows PROVE phase' = "read" /\ room' = bufSize' - (Len(out') % bufSize')
      OBVIOUS
    <3>1. n > 0 /\ x = Len(out) /\ room = bufSize - (x % bufSize)
      BY <1>8, <2>2
    <3> HIDE DEF x
    <3>2. phase' = "read" /\ room' = bufSize - ((x + n) % bufSize)
      BY <1>1, <1>2, <1>8, <2>9, <3>1, RoomNext
    <3> QED
      BY <1>1, <2>10, <3>2
  <2> HIDE DEF V, x
  <2>u. PICK U \in Seq(Lines) : U = V
    BY <2>8
  <2>15. CASE L # <<>>
    <3>1. NewLineFollows /\ copied' = 0
      BY <1>1, <1>5, <2>13, <2>15
    <3>2. lineBuffer'[1] \in Lines
      BY <1>4, <2>13, <2>15
    <3>3. out' = Ended(U) \o Bytes(lineBuffer'[1], 0, copied')
      <4>1. Bytes(lineBuffer'[1], 0, 0) = <<>>
        BY BytesNone
      <4>2. Ended(U) \in Seq(Byte)
        BY EndedIn
      <4> QED
        BY <2>u, <2>11, <3>1, <4>1, <4>2
    <3>4. iter'.finished => ~Trailing'
      BY <1>1, <2>2, <2>12
    <3>5. phase' # "done" /\ copied' >= 0 /\ copied' # -1
      BY <2>14, <3>1
    <3>6. Streamed(U)'
      BY <2>u, <2>12, <2>14, <3>1, <3>3, <3>4, <3>5 DEF Streamed
    <3> QED
      BY <3>6 DEF Stream
  <2>16. CASE L = <<>>
    <3>1. copied' = -1 /\ lineBuffer' = <<>>
      BY <1>1, <2>13, <2>16
    <3>2. NewLineFollows <=> ~iter.finished
      BY <1>5, <2>16
    <3>3. iter'.finished <=> iter.finished
      BY <1>1
    <3>4. ~iter.finished => Trailing
      BY DEF Trailing
    <3>5. out' = IF Trailing' THEN Ended(U) ELSE Joined(U)
      BY <2>u, <2>2, <2>11, <2>12, <3>2, <3>4
    <3>6. ~iter'.finished => room' = bufSize' - (Len(out') % bufSize')
      BY <2>14, <3>2, <3>3
    <3>7. ~(copied' >= 0)
      BY <3>1
    <3>8. Streamed(U)'
      BY <2>u, <2>12, <3>1, <3>5, <3>6, <3>7 DEF Streamed
    <3> QED
      BY <3>8 DEF Stream
  <2> QED
    BY <2>15, <2>16
<1> QED
  BY <1>1, <1>9, <1>10, StreamReads

LEMMA StreamNext ==
  ASSUME Inv, Stream, [Next]_vars
  PROVE  Stream'
<1>1. CASE OpenBinary
  <2>1. phase = "open" /\ phase' = "done" /\ iter' = iter
    BY <1>1 DEF OpenBinary
  <2>2. ~iter.finished
    BY <2>1 DEF Inv, Starting
  <2> QED
    BY <2>1, <2>2 DEF Stream
<1>2. CASE UNCHANGED vars
  <2>1. UNCHANGED <<merge, bufSize, phase, matchA, matchB, iter, lineBuffer, copied, room, out, hasConflict, chunks>>
    BY <1>2 DEF vars
  <2>2. CASE LineEndsWithBuffer
    BY <2>1, <2>2, EndsNext DEF Stream
  <2>3. CASE \E W \in Seq(Lines) : Streamed(W)
    <3>1. PICK W \in Seq(Lines) : Streamed(W)
      BY <2>3
    <3>2. Streamed(W)'
      BY <2>1, <3>1 DEF Streamed, Merged, Trailing
    <3> QED
      BY <3>2 DEF Stream
  <2>4. CASE phase = "open" \/ (phase = "done" /\ ~iter.finished)
    BY <2>1, <2>4 DEF Stream
  <2> QED
    BY <2>2, <2>3, <2>4 DEF Stream
<1> QED
  BY <1>1, <1>2, StreamOpen, StreamFinishLine, StreamFillBuffer, StreamReadChunk, StreamNoMore DEF Next

(* The reader gets the merged lines. *)
THEOREM ReaderGetsMerged == Spec => []StreamIsMerged
<1>1. Init => Stream
  BY DEF Init, Stream
<1>2. Inv /\ Stream /\ [Next]_vars => Stream'
  BY StreamNext
<1>3. Stream => StreamIsMerged
  <2> SUFFICES ASSUME Stream, phase = "done", iter.finished, ~LineEndsWithBuffer
               PROVE  out = Joined(Merged) \o (IF Merged # <<>> /\ Last(chunks).lines = <<>> THEN <<NewLine>> ELSE <<>>)
    BY DEF StreamIsMerged
  <2>1. PICK W \in Seq(Lines) : Streamed(W)
    BY DEF Stream
  <2>2. copied = -1 /\ lineBuffer = <<>> /\ out = (IF Trailing THEN Ended(W) ELSE Joined(W)) /\ Merged = W \o lineBuffer
    BY <2>1 DEF Streamed
  <2>3. Merged = W
    BY <2>2
  <2>4. Trailing <=> Last(chunks).lines = <<>>
    BY DEF Trailing
  <2>5. Joined(W) \in Seq(Byte) /\ (W # <<>> => Ended(W) = Joined(W) \o <<NewLine>>)
    BY EndedIn
  <2>6. Joined(W) \o <<>> = Joined(W)
    BY <2>5
  <2>7. CASE W = <<>>
    <3>1. Ended(W) = <<>> /\ Joined(W) = <<>>
      BY <2>7, NothingJoined
    <3> QED
      BY <2>2, <2>3, <2>6, <2>7, <3>1
  <2>8. CASE W # <<>>
    BY <2>2, <2>3, <2>4, <2>5, <2>6, <2>8
  <2> QED
    BY <2>7, <2>8
<1> QED
  BY <1>1, <1>2, <1>3, Invariant, PTL DEF Spec

-----------------------------------------------------------------------------
(* Two texts y and x that go apart from o on either side of a line all     *)
(* three have once: it is o's p-th and x's d-th; y is o up to it, and x is *)
(* o from it on.                                                           *)
Parted(o, x, y, p, d) ==
  /\ p \in Nat /\ d \in Nat
  /\ p < Len(o) /\ d < Len(x) /\ p < Len(y) /\ Len(x) - d = Len(o) - p
  /\ \A t \in 0..Len(o) - p - 1 : x[d + t + 1] = o[p + t + 1]
  /\ \A t \in 0..p : y[t + 1] = o[t + 1]
  /\ \A u \in 0..Len(o) - 1, v \in 0..Len(x) - 1 : Eq(o, x, u, v) => (u = p <=> v = d)
  /\ \A u \in 0..Len(o) - 1, v \in 0..Len(y) - 1 : Eq(o, y, u, v) => (u = p <=> v = p)

(* All that is unchanged there is matched.                                 *)
Fits(o, p, d, fx, fy) ==
  /\ \A q \in p..Len(o) - 1 : fx[q] = d + (q - p)
  /\ \A q \in 0..p : fy[q] = q

LEMMA PartedFits ==
  ASSUME NEW o, NEW x, NEW y, NEW p, NEW d, Parted(o, x, y, p, d),
         NEW fx, Longest(o, x, fx), NEW fy, Longest(o, y, fy)
  PROVE  Fits(o, p, d, fx, fy)
<1> DEFINE N == Len(o)  M == Len(x)  K == Len(y)
<1>1. /\ p \in Nat /\ d \in Nat /\ p < N /\ d < M /\ p < K /\ M - d = N - p
      /\ N \in Nat /\ M \in Nat /\ K \in Nat
      /\ \A t \in 0..N - p - 1 : x[d + t + 1] = o[p + t + 1]
      /\ \A t \in 0..p : y[t + 1] = o[t + 1]
      /\ \A u \in 0..N - 1, v \in 0..M - 1 : Eq(o, x, u, v) => (u = p <=> v = d)
      /\ \A u \in 0..N - 1, v \in 0..K - 1 : Eq(o, y, u, v) => (u = p <=> v = p)
  BY DEF Parted, Longest
<1>2. \A q \in p..N - 1 : fx[q] = d + (q - p)
  <2> DEFINE R == N - p  k == 0
  <2>1. Block(o, x, p, d, R, k)
    <3>1. \A t \in 0..R - 1 : Eq(o, x, p + t, d + t)
      BY <1>1 DEF Eq
    <3> HIDE DEF N, M
    <3>0. p \in Nat /\ d \in Nat /\ p < N /\ d < M /\ M - d = N - p /\ N \in Nat /\ M \in Nat
      BY <1>1
    <3>2. /\ R \in Nat /\ k \in Nat /\ k < R /\ p + R = N /\ d + R = M /\ p + R <= N /\ d + R <= M
          /\ p + k = p /\ d + k = d
      BY <3>0
    <3> HIDE DEF R, k
    <3>3. k = 0
      BY DEF k
    <3> QED
      BY <1>1, <3>1, <3>2, <3>3 DEF Block, N, M
  <2>2. R \in Nat /\ \A q \in p..N - 1 : q - p \in 0..R - 1 /\ p + (q - p) = q
    <3> HIDE DEF N, M
    <3> QED
      BY <1>1
  <2> HIDE DEF R, k, N, M
  <2>3. \A t \in 0..R - 1 : fx[p + t] = d + t
    BY <2>1, BlockKept
  <2> QED
    BY <2>2, <2>3
<1>3. \A q \in 0..p : fy[q] = q
  <2> DEFINE R == p + 1  z == 0
  <2>1. Block(o, y, z, z, R, p)
    <3>1. \A t \in 0..R - 1 : t \in 0..p /\ z + t = t
      BY <1>1
    <3>2. \A t \in 0..R - 1 : Eq(o, y, z + t, z + t)
      <4> HIDE DEF z, R
      <4> QED
        BY <1>1, <3>1 DEF Eq
    <3> HIDE DEF N, K
    <3>3. /\ R \in Nat /\ p < R /\ z + R <= N /\ z + R <= K /\ z + p = p /\ p = R - 1 /\ z \in Nat
      BY <1>1
    <3> HIDE DEF R, z
    <3>4. z = 0
      BY DEF z
    <3> QED
      BY <1>1, <3>2, <3>3, <3>4 DEF Block, N, K
  <2>2. \A q \in 0..p : q \in 0..R - 1 /\ z + q = q
    BY <1>1
  <2> HIDE DEF R, z
  <2>3. \A t \in 0..R - 1 : fy[z + t] = z + t
    BY <2>1, BlockKept
  <2> QED
    BY <2>2, <2>3
<1> QED
  BY <1>2, <1>3 DEF Fits

(* How far the merge has come: up to the line both texts are where o is    *)
(* but for what x changed, after it but for what y changed.                *)
Where(p, d, u, v, w) ==
  \/ u <= p /\ w = u /\ v <= d
  \/ u > p /\ w > p /\ v + p = u + d

(* The chunk from u, v and w goes to s, t and r.                           *)
CutTo(o, x, y, fx, fy, u, v, w, s, t, r, finished) ==
  \/ \E i \in Nat : /\ RunsOn(o, fx, u, v, i) /\ RunsOn(o, fy, u, w, i)
                    /\ s = u + i /\ t = v + i /\ r = w + i
  \/ /\ s \in u..Len(o) - 1 /\ fx[s] # -1 /\ fy[s] # -1 /\ t = fx[s] /\ r = fy[s]
     /\ \A q \in u..Len(o) - 1 : fx[q] # -1 /\ fy[q] # -1 => s <= q
  \/ /\ \A q \in u..Len(o) - 1 : fx[q] = -1 \/ fy[q] = -1
     /\ s = Len(o) /\ t = Len(x) /\ r = Len(y) /\ finished

(* All three go on alike.                                                  *)
Alike(o, x, y, u, v, w, s, t, r) ==
  /\ t - v = s - u /\ r - w = s - u
  /\ Part(o, u, s) = Part(x, v, t) /\ Part(o, u, s) = Part(y, w, r)

(* The chunk does not step over the line both texts are where o is, or     *)
(* nothing is changed in it.                                               *)
Steps(o, x, y, p, u, v, w, s, t, r) == s <= p \/ u > p \/ Alike(o, x, y, u, v, w, s, t, r)

LEMMA WhereRuns ==
  ASSUME NEW S, NEW o \in Seq(S), NEW x \in Seq(S), NEW y \in Seq(S), NEW p, NEW d, Parted(o, x, y, p, d),
         NEW fx, NEW fy, Fits(o, p, d, fx, fy), NEW u, NEW v, NEW w, Where(p, d, u, v, w),
         Ahead(o, x, fx, u, v), Ahead(o, y, fy, u, w), NEW i \in Nat,
         RunsOn(o, fx, u, v, i), RunsOn(o, fy, u, w, i),
         NEW s, s = u + i, NEW t, t = v + i, NEW r, r = w + i
  PROVE  Where(p, d, s, t, r) /\ Alike(o, x, y, u, v, w, s, t, r)
<1> DEFINE N == Len(o)  M == Len(x)  K == Len(y)
<1>1. /\ p \in Nat /\ d \in Nat /\ p < N /\ d < M /\ p < K /\ N \in Nat /\ M \in Nat /\ K \in Nat
      /\ u \in 0..N /\ v \in 0..M /\ w \in 0..K
      /\ \A a, b \in 0..N - 1 : a < b /\ fx[a] # -1 /\ fx[b] # -1 => fx[a] < fx[b]
  BY DEF Parted, Ahead, Matched
<1>2. \A q \in p..N - 1 : fx[q] = d + (q - p)
  BY DEF Fits
<1>3. \A q \in 0..i - 1 : u + q < N /\ fx[u + q] = v + q
  BY DEF RunsOn
<1>4. Part(o, u, s) = Part(x, v, t) /\ Part(o, u, s) = Part(y, w, r)
  BY RunSame
<1> HIDE DEF N, M, K
<1>5. t - v = s - u /\ r - w = s - u
  BY <1>1
<1>6. ASSUME s <= p, u <= p
      PROVE  t <= d
  <2>1. CASE i = 0
    <3>1. v <= d
      BY <1>1, <1>6 DEF Where
    <3> QED
      BY <1>1, <2>1, <3>1
  <2>2. CASE i # 0
    <3> DEFINE q == i - 1  b == u + q
    <3>1. q \in 0..i - 1 /\ b \in 0..N - 1 /\ b < p /\ p \in 0..N - 1 /\ p \in p..N - 1 /\ v + q + 1 = t /\ v + q # -1
      BY <1>1, <1>6, <2>2
    <3>2. fx[b] = v + q /\ fx[p] = d + (p - p)
      BY <1>2, <1>3, <3>1
    <3>3. d + (p - p) = d /\ d # -1
      BY <1>1
    <3>4. v + q < d
      BY <1>1, <3>1, <3>2, <3>3
    <3> HIDE DEF b, q
    <3>5. q \in Nat
      BY <2>2 DEF q
    <3> QED
      BY <1>1, <3>1, <3>4, <3>5
  <2> QED
    BY <2>1, <2>2
<1>7. ASSUME u <= p, s > p
      PROVE  v + (p - u) = d
  <2> DEFINE q == p - u
  <2>1. q \in 0..i - 1 /\ u + q = p /\ p \in p..N - 1
    BY <1>1, <1>7
  <2>2. fx[p] = v + q /\ fx[p] = d + (p - p)
    BY <1>2, <1>3, <2>1
  <2>3. d + (p - p) = d
    BY <1>1
  <2> QED
    BY <2>2, <2>3
<1>8. Where(p, d, s, t, r)
  <2>1. CASE u <= p /\ s <= p
    <3>1. w = u
      BY <1>1, <2>1 DEF Where
    <3> QED
      BY <1>6, <2>1, <3>1 DEF Where
  <2>2. CASE u <= p /\ s > p
    <3>1. w = u
      BY <1>1, <2>2 DEF Where
    <3>2. r > p /\ t + p = s + d
      BY <1>1, <1>7, <2>2, <3>1
    <3> QED
      BY <2>2, <3>2 DEF Where
  <2>3. CASE u > p
    <3>1. w > p /\ v + p = u + d
      BY <1>1, <2>3 DEF Where
    <3>2. s > p /\ r > p /\ t + p = s + d
      BY <1>1, <2>3, <3>1
    <3> QED
      BY <3>2 DEF Where
  <2> QED
    BY <1>1, <2>1, <2>2, <2>3
<1> QED
  BY <1>4, <1>5, <1>8 DEF Alike

LEMMA WhereNext ==
  ASSUME NEW S, NEW o \in Seq(S), NEW x \in Seq(S), NEW y \in Seq(S), NEW p, NEW d, Parted(o, x, y, p, d),
         NEW fx, NEW fy, Fits(o, p, d, fx, fy), NEW u, NEW v, NEW w, Where(p, d, u, v, w),
         Ahead(o, x, fx, u, v), Ahead(o, y, fy, u, w),
         NEW s, NEW t, NEW r, NEW finished, CutTo(o, x, y, fx, fy, u, v, w, s, t, r, finished)
  PROVE  Where(p, d, s, t, r) /\ Steps(o, x, y, p, u, v, w, s, t, r)
<1> DEFINE N == Len(o)  M == Len(x)  K == Len(y)
<1>1. /\ p \in Nat /\ d \in Nat /\ p < N /\ d < M /\ p < K /\ N \in Nat /\ M \in Nat /\ K \in Nat
      /\ M - d = N - p
      /\ u \in 0..N /\ v \in 0..M /\ w \in 0..K
      /\ fx \in [0..N - 1 -> -1..M - 1] /\ fy \in [0..N - 1 -> -1..K - 1]
      /\ \A a, b \in 0..N - 1 : a < b /\ fx[a] # -1 /\ fx[b] # -1 => fx[a] < fx[b]
      /\ \A a, b \in 0..N - 1 : a < b /\ fy[a] # -1 /\ fy[b] # -1 => fy[a] < fy[b]
  BY DEF Parted, Ahead, Matched
<1>2. (\A q \in p..N - 1 : fx[q] = d + (q - p)) /\ \A q \in 0..p : fy[q] = q
  BY DEF Fits
<1>3. CASE \E i \in Nat : RunsOn(o, fx, u, v, i) /\ RunsOn(o, fy, u, w, i) /\ s = u + i /\ t = v + i /\ r = w + i
  BY <1>3, WhereRuns DEF Steps
<1> HIDE DEF N, M, K
<1>0. p \in 0..N - 1 /\ fx[p] = d /\ fy[p] = p /\ d # -1 /\ p # -1
  <2>1. p \in p..N - 1 /\ p \in 0..p /\ d + (p - p) = d /\ p \in 0..N - 1 /\ d # -1 /\ p # -1
    BY <1>1
  <2> QED
    BY <1>2, <2>1
<1>4. CASE /\ s \in u..N - 1 /\ fx[s] # -1 /\ fy[s] # -1 /\ t = fx[s] /\ r = fy[s]
           /\ \A q \in u..N - 1 : fx[q] # -1 /\ fy[q] # -1 => s <= q
  <2>1. s \in 0..N - 1 /\ s >= u
    BY <1>1, <1>4
  <2>2. t \in -1..M - 1 /\ r \in -1..K - 1
    BY <1>1, <1>4, <2>1
  <2>3. CASE u <= p
    <3>1. p \in u..N - 1
      BY <1>1, <2>3
    <3>2. s <= p
      BY <1>0, <1>4, <3>1
    <3>3. s \in 0..p
      BY <1>1, <2>1, <3>2
    <3>4. r = s
      BY <1>2, <1>4, <3>3
    <3>5. t <= d
      <4>1. CASE s = p
        BY <1>0, <1>1, <1>4, <4>1
      <4>2. CASE s < p
        <5>1. fx[s] < fx[p]
          BY <1>0, <1>1, <1>4, <2>1, <4>2
        <5> QED
          BY <1>0, <1>1, <1>4, <2>2, <5>1, SMTT(30)
      <4> QED
        BY <1>1, <2>1, <3>2, <4>1, <4>2
    <3> QED
      BY <3>2, <3>4, <3>5 DEF Where, Steps
  <2>4. CASE u > p
    <3>1. s > p /\ s \in p..N - 1
      BY <1>1, <2>1, <2>4
    <3>2. t = d + (s - p)
      BY <1>2, <1>4, <3>1
    <3>3. t + p = s + d
      BY <1>1, <2>1, <3>2
    <3>4. fy[p] < fy[s]
      BY <1>0, <1>1, <1>4, <2>1, <3>1
    <3>5. r > p
      BY <1>0, <1>1, <1>4, <2>2, <3>4
    <3> QED
      BY <2>4, <3>1, <3>3, <3>5 DEF Where, Steps
  <2> QED
    BY <1>1, <2>3, <2>4
<1>5. CASE (\A q \in u..N - 1 : fx[q] = -1 \/ fy[q] = -1) /\ s = N /\ t = M /\ r = K
  <2>1. u > p
    <3> SUFFICES ASSUME u <= p PROVE FALSE
      BY <1>1
    <3>1. p \in u..N - 1
      BY <1>1
    <3> QED
      BY <1>0, <1>5, <3>1
  <2>2. s > p /\ r > p /\ t + p = s + d
    BY <1>1, <1>5
  <2> QED
    BY <2>1, <2>2 DEF Where, Steps
<1> QED
  BY <1>3, <1>4, <1>5 DEF CutTo, N, M, K

-----------------------------------------------------------------------------
(* What is merged that far.                                                *)
SoFar(x, y, p, d, u, v, w) ==
  IF u <= p THEN Part(x, 0, v) ELSE Part(x, 0, d) \o Part(y, p, w)

(* A chunk that one side left as it was comes out as the other has it.     *)
ComesOutAs(o, x, y, ls) == (o = x => ls = y) /\ (o = y => ls = x)

(* Where the parts of a text are in order and in bounds.                   *)
Reaches(text, from, to) == from \in Nat /\ to \in Nat /\ from <= to /\ to <= Len(text)

Same(A, B, a, b, n) == \A q \in 1..n : A[a + q] = B[b + q]

(* Equal parts of two texts. *)
LEMMA PartSame ==
  ASSUME NEW S, NEW A \in Seq(S), NEW B \in Seq(S), NEW a, NEW b, NEW s, NEW t,
         Reaches(A, a, s), Reaches(B, b, t), s - a = t - b, Same(A, B, a, b, s - a)
  PROVE  Part(A, a, s) = Part(B, b, t)
<1> DEFINE p == Part(A, a, s)  r == Part(B, b, t)  n == s - a
<1>1. IsPart(S, A, a, s, p) /\ IsPart(S, B, b, t, r)
  BY PartIs DEF Reaches
<1>2. t - b = n /\ n \in Nat
  BY DEF Reaches
<1> HIDE DEF p, r
<1>3. /\ p \in Seq(S) /\ Len(p) = n /\ \A q \in 1..n : p[q] = A[a + q]
      /\ r \in Seq(S) /\ Len(r) = n /\ \A q \in 1..n : r[q] = B[b + q]
  BY <1>1, <1>2 DEF IsPart
<1>4. \A q \in 1..n : A[a + q] = B[b + q]
  BY DEF Same
<1> HIDE DEF n
<1>5. p = r
  BY <1>3, <1>4, SeqEqual
<1> QED
  BY <1>5 DEF p, r

(* A part of equal parts. *)
LEMMA PartInside ==
  ASSUME NEW S, NEW A \in Seq(S), NEW B \in Seq(S), NEW a, NEW b, NEW s, NEW t,
         Reaches(A, a, s), Reaches(B, b, t), Part(A, a, s) = Part(B, b, t),
         NEW e, NEW f, Reaches(A, a, e), Reaches(B, b, f), e - a = f - b, e <= s, f <= t
  PROVE  Part(A, a, e) = Part(B, b, f)
<1>1. IsPart(S, A, a, s, Part(A, a, s)) /\ IsPart(S, B, b, t, Part(B, b, t))
  BY PartIs DEF Reaches
<1>2. Same(A, B, a, b, e - a)
  <2> SUFFICES ASSUME NEW q \in 1..e - a PROVE A[a + q] = B[b + q]
    BY DEF Same
  <2>1. q \in 1..s - a /\ q \in 1..t - b
    BY DEF Reaches
  <2> DEFINE p == Part(A, a, s)
  <2>2. p[q] = A[a + q]
    BY <1>1, <2>1 DEF IsPart
  <2>3. Part(B, b, t)[q] = B[b + q]
    BY <1>1, <2>1 DEF IsPart
  <2> QED
    BY <2>2, <2>3
<1> QED
  BY <1>2, PartSame

(* Two parts that meet.                                                    *)
LEMMA PartMeet ==
  ASSUME NEW S, NEW A \in Seq(S), NEW a, NEW s, NEW t, Reaches(A, a, s), Reaches(A, s, t)
  PROVE  /\ Part(A, a, s) \o Part(A, s, t) = Part(A, a, t)
         /\ Part(A, a, s) \in Seq(S) /\ Part(A, s, t) \in Seq(S)
<1>1. a \in Nat /\ s \in Nat /\ t \in Nat /\ a <= s /\ s <= t /\ s <= Len(A) /\ t <= Len(A)
  BY DEF Reaches
<1>2. Part(A, a, s) \o Part(A, s, t) = Part(A, a, t)
  BY <1>1, PartJoin
<1>3. IsPart(S, A, a, s, Part(A, a, s)) /\ IsPart(S, A, s, t, Part(A, s, t))
  BY <1>1, PartIs
<1> QED
  BY <1>2, <1>3 DEF IsPart

(* Each chunk adds what is merged there, and is no conflict.               *)
LEMMA SumGrows ==
  ASSUME NEW S, NEW o \in Seq(S), NEW x \in Seq(S), NEW y \in Seq(S), NEW p, NEW d, Parted(o, x, y, p, d),
         NEW u, NEW v, NEW w, NEW s, NEW t, NEW r,
         Reaches(o, u, s), Reaches(x, v, t), Reaches(y, w, r),
         Where(p, d, u, v, w), Where(p, d, s, t, r),
         Steps(o, x, y, p, u, v, w, s, t, r),
         NEW ls, ComesOutAs(Part(o, u, s), Part(x, v, t), Part(y, w, r), ls)
  PROVE  /\ SoFar(x, y, p, d, s, t, r) = SoFar(x, y, p, d, u, v, w) \o ls
         /\ Part(o, u, s) = Part(x, v, t) \/ Part(o, u, s) = Part(y, w, r)
<1> DEFINE N == Len(o)  M == Len(x)  K == Len(y)  z == 0
           op == Part(o, u, s)  xp == Part(x, v, t)  yp == Part(y, w, r)
<1>1. /\ p \in Nat /\ d \in Nat /\ p < N /\ d < M /\ p < K /\ N \in Nat /\ M \in Nat /\ K \in Nat
      /\ M - d = N - p
      /\ u \in Nat /\ v \in Nat /\ w \in Nat /\ s \in Nat /\ t \in Nat /\ r \in Nat
      /\ u <= s /\ s <= N /\ v <= t /\ t <= M /\ w <= r /\ r <= K
  BY DEF Parted, Reaches
<1>2. (\A q \in 0..N - p - 1 : x[d + q + 1] = o[p + q + 1]) /\ \A q \in 0..p : y[q + 1] = o[q + 1]
  BY DEF Parted
<1>z. z = 0 /\ z \in Nat
  OBVIOUS
<1> HIDE DEF z
<1>w. Reaches(x, z, v) /\ Reaches(x, z, d)
  BY <1>1, <1>z, SMTT(30) DEF Reaches
<1>3. Part(x, z, v) \o xp = Part(x, z, t)
  BY <1>w, PartMeet
<1>4. CASE s <= p
  <2>1. u <= p /\ w = u /\ r = s
    BY <1>1, <1>4 DEF Where
  <2>2. op = yp
    <3>1. Same(o, y, u, w, s - u)
      <4> SUFFICES ASSUME NEW q \in 1..s - u PROVE o[u + q] = y[w + q]
        BY DEF Same
      <4> DEFINE l == u + q - 1
      <4>1. l \in 0..p /\ l + 1 = u + q /\ w + q = u + q
        BY <1>1, <1>4, <2>1
      <4> HIDE DEF l
      <4> QED
        BY <1>2, <4>1
    <3>2. s - u = r - w
      BY <2>1
    <3> QED
      BY <3>1, <3>2, PartSame
  <2>3. ls = xp
    BY <2>2 DEF ComesOutAs
  <2>4. /\ SoFar(x, y, p, d, s, t, r) = Part(x, z, t)
        /\ SoFar(x, y, p, d, u, v, w) = Part(x, z, v)
    BY <1>4, <1>z, <2>1 DEF SoFar
  <2> QED
    BY <1>3, <2>2, <2>3, <2>4
<1>5. CASE u > p
  <2>1. w > p /\ v + p = u + d /\ s > p /\ r > p /\ t + p = s + d /\ ~(u <= p) /\ ~(s <= p)
    BY <1>1, <1>5 DEF Where
  <2>2. op = xp
    <3>1. Same(o, x, u, v, s - u)
      <4> SUFFICES ASSUME NEW q \in 1..s - u PROVE o[u + q] = x[v + q]
        BY DEF Same
      <4> DEFINE l == u - p + q - 1
      <4>1. l \in 0..N - p - 1 /\ p + l + 1 = u + q /\ d + l + 1 = v + q
        <5> HIDE DEF N, M, K
        <5> QED
          BY <1>1, <1>5, <2>1
      <4> HIDE DEF l
      <4> QED
        BY <1>2, <4>1
    <3>2. s - u = t - v
      BY <1>1, <2>1, SMTT(30)
    <3> QED
      BY <3>1, <3>2, PartSame
  <2>3. ls = yp
    BY <2>2 DEF ComesOutAs
  <2>4. Reaches(y, p, w)
    BY <1>1, <2>1 DEF Reaches
  <2>5. Part(y, p, w) \o yp = Part(y, p, r) /\ Part(y, p, w) \in Seq(S) /\ yp \in Seq(S)
    BY <2>4, PartMeet
  <2>6. Part(x, z, d) \in Seq(S)
    <3>1. Reaches(x, d, d)
      BY <1>1 DEF Reaches
    <3> QED
      BY <1>w, <3>1, PartMeet
  <2>7. (Part(x, z, d) \o Part(y, p, w)) \o yp = Part(x, z, d) \o (Part(y, p, w) \o yp)
    <3> DEFINE a == Part(x, z, d)  b == Part(y, p, w)  c == yp
    <3>1. a \in Seq(S) /\ b \in Seq(S) /\ c \in Seq(S)
      BY <2>5, <2>6
    <3> HIDE DEF a, b, c
    <3>2. Associates(a, b, c)
      BY <3>1, Assoc, Zenon
    <3> QED
      BY <3>2 DEF Associates, a, b, c
  <2>8. /\ SoFar(x, y, p, d, s, t, r) = Part(x, z, d) \o Part(y, p, r)
        /\ SoFar(x, y, p, d, u, v, w) = Part(x, z, d) \o Part(y, p, w)
    BY <1>z, <2>1 DEF SoFar
  <2> QED
    BY <2>2, <2>3, <2>5, <2>7, <2>8
<1>6. CASE u <= p /\ s > p /\ Alike(o, x, y, u, v, w, s, t, r)
  <2>1. w = u /\ v <= d /\ t + p = s + d /\ ~(s <= p) /\ r > p
    BY <1>1, <1>6 DEF Where
  <2>2. t - v = s - u /\ r - w = s - u /\ op = xp /\ op = yp
    BY <1>6 DEF Alike
  <2>3. ls = yp /\ xp = yp
    BY <2>2 DEF ComesOutAs
  <2>4. /\ Reaches(x, v, d) /\ Reaches(y, w, p) /\ Reaches(y, p, r) /\ Reaches(x, d, t)
        /\ d - v = p - w /\ d <= t /\ p <= r
    <3> HIDE DEF N, M, K
    <3>1. v + p = u + d /\ d <= t
      BY <1>1, <1>6, <2>1, <2>2
    <3> QED
      BY <1>1, <1>6, <2>1, <3>1 DEF Reaches, N, M, K
  <2>5. Part(x, v, d) = Part(y, w, p)
    BY <2>3, <2>4, PartInside
  <2>6. Part(y, w, p) \o Part(y, p, r) = yp /\ Part(y, p, r) \in Seq(S) /\ Part(y, w, p) \in Seq(S)
    BY <2>4, PartMeet
  <2>7. Part(x, z, v) \o Part(x, v, d) = Part(x, z, d) /\ Part(x, z, v) \in Seq(S)
    BY <1>w, <2>4, PartMeet, SMTT(30)
  <2>8. (Part(x, z, v) \o Part(y, w, p)) \o Part(y, p, r) = Part(x, z, v) \o (Part(y, w, p) \o Part(y, p, r))
    <3> DEFINE a == Part(x, z, v)  b == Part(y, w, p)  c == Part(y, p, r)
    <3>1. a \in Seq(S) /\ b \in Seq(S) /\ c \in Seq(S)
      BY <2>6, <2>7
    <3> HIDE DEF a, b, c
    <3>2. Associates(a, b, c)
      BY <3>1, Assoc, Zenon
    <3> QED
      BY <3>2 DEF Associates, a, b, c
  <2>9. /\ SoFar(x, y, p, d, s, t, r) = Part(x, z, d) \o Part(y, p, r)
        /\ SoFar(x, y, p, d, u, v, w) = Part(x, z, v)
    BY <1>6, <1>z, <2>1 DEF SoFar
  <2> QED
    BY <2>2, <2>3, <2>5, <2>6, <2>7, <2>8, <2>9
<1>7. s <= p \/ u > p \/ (u <= p /\ s > p /\ Alike(o, x, y, u, v, w, s, t, r))
  <2> HIDE DEF N, M, K, op, xp, yp
  <2>1. (s <= p \/ s > p) /\ (u <= p \/ u > p)
    BY <1>1
  <2> QED
    BY <2>1 DEF Steps
<1> QED
  BY <1>4, <1>5, <1>6, <1>7

-----------------------------------------------------------------------------
(* The merge on its way.  When one side changed nothing and has no matches *)
(* either, it is done in one step.                                         *)
AtEnd(o, x, y, u, v, w) == u = Len(o) /\ v = Len(x) /\ w = Len(y)

Both(x, y, p, d) == Part(x, 0, d) \o Part(y, p, Len(y))

Way(o, x, y, p, d, fx, fy, u, v, w, finished, M) ==
  /\ finished => AtEnd(o, x, y, u, v, w)
  /\ \/ Fits(o, p, d, fx, fy) /\ Where(p, d, u, v, w) /\ M = SoFar(x, y, p, d, u, v, w)
     \/ /\ (o = x /\ Unmatched(o, fx)) \/ (o = y /\ Unmatched(o, fy))
        /\ \/ u = 0 /\ v = 0 /\ w = 0 /\ M = <<>>
           \/ finished /\ M = Both(x, y, p, d)

LEMMA BothWhole ==
  ASSUME NEW S, NEW o \in Seq(S), NEW x \in Seq(S), NEW y \in Seq(S), NEW p, NEW d, Parted(o, x, y, p, d)
  PROVE  (o = x => y = Both(x, y, p, d)) /\ (o = y => x = Both(x, y, p, d))
<1> DEFINE N == Len(o)  M == Len(x)  K == Len(y)  z == 0
<1>1. /\ p \in Nat /\ d \in Nat /\ p < N /\ d < M /\ p < K /\ N \in Nat /\ M \in Nat /\ K \in Nat
      /\ M - d = N - p
  BY DEF Parted
<1>2. /\ \A q \in 0..N - p - 1 : x[d + q + 1] = o[p + q + 1]
      /\ \A q \in 0..p : y[q + 1] = o[q + 1]
      /\ \A u \in 0..N - 1, v \in 0..M - 1 : Eq(o, x, u, v) => (u = p <=> v = d)
  BY DEF Parted
<1>3. Both(x, y, p, d) = Part(x, z, d) \o Part(y, p, K)
  BY DEF Both
<1>4. Part(x, z, M) = x /\ Part(y, z, K) = y
  BY PartAll
<1>z. z = 0 /\ z \in Nat
  OBVIOUS
<1> HIDE DEF z
<1>5. Reaches(x, z, d) /\ Reaches(x, d, M) /\ Reaches(y, p, K) /\ Reaches(y, z, p)
  BY <1>1, <1>z DEF Reaches
<1>6. ASSUME o = x PROVE y = Both(x, y, p, d)
  <2>1. p = d
    <3>1. p \in 0..N - 1 /\ p \in 0..M - 1
      BY <1>1, <1>6
    <3>2. Eq(o, x, p, p)
      BY <1>6 DEF Eq
    <3> QED
      BY <1>2, <3>1, <3>2
  <2>2. Same(x, y, z, z, d - z)
    <3> SUFFICES ASSUME NEW q \in 1..d - z PROVE x[z + q] = y[z + q]
      BY DEF Same
    <3> DEFINE l == q - 1
    <3>1. l \in 0..p /\ l + 1 = q /\ z + q = q
      BY <1>1, <1>z, <2>1
    <3> HIDE DEF l
    <3> QED
      BY <1>2, <1>6, <3>1
  <2>3. Part(x, z, d) = Part(y, z, p)
    <3>1. d - z = p - z
      BY <2>1
    <3> QED
      BY <1>5, <2>2, <3>1, PartSame
  <2>4. Part(y, z, p) \o Part(y, p, K) = Part(y, z, K)
    BY <1>5, PartMeet
  <2> QED
    BY <1>3, <1>4, <2>3, <2>4
<1>7. ASSUME o = y PROVE x = Both(x, y, p, d)
  <2>1. Same(x, y, d, p, M - d)
    <3> SUFFICES ASSUME NEW q \in 1..M - d PROVE x[d + q] = y[p + q]
      BY DEF Same
    <3> DEFINE l == q - 1
    <3>1. l \in 0..N - p - 1 /\ d + l + 1 = d + q /\ p + l + 1 = p + q
      <4> HIDE DEF N, M, K
      <4> QED
        BY <1>1
    <3> HIDE DEF l
    <3> QED
      BY <1>2, <1>7, <3>1
  <2>2. Part(x, d, M) = Part(y, p, K)
    <3>1. M - d = K - p
      BY <1>1, <1>7
    <3> QED
      BY <1>5, <2>1, <3>1, PartSame
  <2>3. Part(x, z, d) \o Part(x, d, M) = Part(x, z, M)
    BY <1>5, PartMeet
  <2> QED
    BY <1>3, <1>4, <2>2, <2>3
<1> QED
  BY <1>6, <1>7

(* It is at u, v and w, and goes on to s, t and r. *)
Going(o, x, y, p, d, fx, fy, u, v, w, M) ==
  /\ Parted(o, x, y, p, d)
  /\ Way(o, x, y, p, d, fx, fy, u, v, w, FALSE, M)
  /\ Ahead(o, x, fx, u, v) /\ Ahead(o, y, fy, u, w)

GoesTo(o, x, y, fx, fy, u, v, w, s, t, r, finished) ==
  /\ CutTo(o, x, y, fx, fy, u, v, w, s, t, r, finished)
  /\ finished => AtEnd(o, x, y, s, t, r)
  /\ Reaches(o, u, s) /\ Reaches(x, v, t) /\ Reaches(y, w, r)

LEMMA WayNext ==
  ASSUME NEW S, NEW o \in Seq(S), NEW x \in Seq(S), NEW y \in Seq(S), NEW p, NEW d,
         NEW fx, NEW fy, NEW u, NEW v, NEW w, NEW M, Going(o, x, y, p, d, fx, fy, u, v, w, M),
         NEW s, NEW t, NEW r, NEW finished, GoesTo(o, x, y, fx, fy, u, v, w, s, t, r, finished),
         NEW ls \in Seq(S), ComesOutAs(Part(o, u, s), Part(x, v, t), Part(y, w, r), ls)
  PROVE  /\ Way(o, x, y, p, d, fx, fy, s, t, r, finished, M \o ls)
         /\ Part(o, u, s) = Part(x, v, t) \/ Part(o, u, s) = Part(y, w, r)
<1>a. /\ Parted(o, x, y, p, d) /\ Way(o, x, y, p, d, fx, fy, u, v, w, FALSE, M)
      /\ Ahead(o, x, fx, u, v) /\ Ahead(o, y, fy, u, w)
  BY DEF Going
<1>b. /\ CutTo(o, x, y, fx, fy, u, v, w, s, t, r, finished)
      /\ finished => AtEnd(o, x, y, s, t, r)
      /\ Reaches(o, u, s) /\ Reaches(x, v, t) /\ Reaches(y, w, r)
  BY DEF GoesTo
<1>1. CASE Fits(o, p, d, fx, fy) /\ Where(p, d, u, v, w) /\ M = SoFar(x, y, p, d, u, v, w)
  <2>1. Where(p, d, s, t, r) /\ Steps(o, x, y, p, u, v, w, s, t, r)
    BY <1>1, <1>a, <1>b, WhereNext
  <2>0. Where(p, d, u, v, w)
    BY <1>1
  <2>2. /\ SoFar(x, y, p, d, s, t, r) = SoFar(x, y, p, d, u, v, w) \o ls
        /\ Part(o, u, s) = Part(x, v, t) \/ Part(o, u, s) = Part(y, w, r)
    BY <1>a, <1>b, <2>0, <2>1, SumGrows
  <2>3. SoFar(x, y, p, d, s, t, r) = M \o ls
    BY <1>1, <2>2
  <2> QED
    BY <1>1, <1>b, <2>1, <2>2, <2>3 DEF Way
<1>2. CASE /\ (o = x /\ Unmatched(o, fx)) \/ (o = y /\ Unmatched(o, fy))
           /\ u = 0 /\ v = 0 /\ w = 0 /\ M = <<>>
  <2>1. \A q \in 0..Len(o) - 1 : fx[q] = -1 \/ fy[q] = -1
    BY <1>2 DEF Unmatched
  <2>2. ASSUME NEW i \in Nat, RunsOn(o, fx, u, v, i), RunsOn(o, fy, u, w, i),
               s = u + i, t = v + i, r = w + i
        PROVE  i = 0
    <3> SUFFICES ASSUME i # 0 PROVE FALSE
      OBVIOUS
    <3>1. 0 \in 0..i - 1 /\ 0 + 0 = 0
      OBVIOUS
    <3>2. 0 < Len(o) /\ fx[0] = 0 /\ fy[0] = 0
      BY <1>2, <2>2, <3>1 DEF RunsOn
    <3>3. 0 \in 0..Len(o) - 1
      BY <3>2
    <3> QED
      BY <2>1, <3>2, <3>3
  <2>3. CASE \E i \in Nat : /\ RunsOn(o, fx, u, v, i) /\ RunsOn(o, fy, u, w, i)
                            /\ s = u + i /\ t = v + i /\ r = w + i
    <3>1. s = 0 /\ t = 0 /\ r = 0
      BY <1>2, <2>2, <2>3
    <3>2. Part(o, u, s) = <<>> /\ Part(x, v, t) = <<>> /\ Part(y, w, r) = <<>>
      BY <1>2, <3>1, PartAll
    <3>3. ls = <<>> /\ M \o ls = <<>>
      BY <1>2, <3>2 DEF ComesOutAs
    <3> QED
      BY <1>2, <1>b, <3>1, <3>2, <3>3 DEF Way
  <2>4. CASE /\ s \in u..Len(o) - 1 /\ fx[s] # -1 /\ fy[s] # -1 /\ t = fx[s] /\ r = fy[s]
             /\ \A q \in u..Len(o) - 1 : fx[q] # -1 /\ fy[q] # -1 => s <= q
    BY <1>2, <2>1, <2>4
  <2>5. CASE /\ \A q \in u..Len(o) - 1 : fx[q] = -1 \/ fy[q] = -1
             /\ s = Len(o) /\ t = Len(x) /\ r = Len(y) /\ finished
    <3>1. Part(o, u, s) = o /\ Part(x, v, t) = x /\ Part(y, w, r) = y
      BY <1>2, <2>5, PartAll
    <3>2. (o = x => ls = y) /\ (o = y => ls = x)
      BY <3>1 DEF ComesOutAs
    <3>3. ls = Both(x, y, p, d)
      BY <1>2, <1>a, <3>2, BothWhole
    <3>4. M \o ls = ls
      BY <1>2
    <3>5. /\ (o = x /\ Unmatched(o, fx)) \/ (o = y /\ Unmatched(o, fy))
          /\ finished /\ M \o ls = Both(x, y, p, d)
      BY <1>2, <2>5, <3>3, <3>4
    <3>6. Way(o, x, y, p, d, fx, fy, s, t, r, finished, M \o ls)
      BY <1>b, <3>5, Zenon DEF Way
    <3> QED
      BY <1>2, <3>1, <3>6
  <2> QED
    BY <1>b, <2>3, <2>4, <2>5 DEF CutTo
<1> QED
  BY <1>1, <1>2, <1>a DEF Way

(* From where it starts to where it ends.                                  *)
LEMMA WayStarts ==
  ASSUME NEW S, NEW o \in Seq(S), NEW x \in Seq(S), NEW y \in Seq(S), NEW p, NEW d, Parted(o, x, y, p, d),
         NEW fx, fx = Matches(o, x), NEW fy, fy = Matches(o, y)
  PROVE  Way(o, x, y, p, d, fx, fy, 0, 0, 0, FALSE, <<>>)
<1>1. /\ Longest(o, x, fx) \/ (o = x /\ Unmatched(o, fx))
      /\ Longest(o, y, fy) \/ (o = y /\ Unmatched(o, fy))
  BY MatchesLongest
<1>2. CASE Longest(o, x, fx) /\ Longest(o, y, fy)
  <2>1. Fits(o, p, d, fx, fy)
    BY <1>2, PartedFits
  <2>2. p \in Nat /\ d \in Nat
    BY DEF Parted
  <2>3. Where(p, d, 0, 0, 0)
    BY <2>2 DEF Where
  <2>4. SoFar(x, y, p, d, 0, 0, 0) = <<>>
    <3>1. Part(x, 0, 0) = <<>>
      BY PartAll
    <3> QED
      BY <2>2, <3>1 DEF SoFar
  <2> QED
    BY <2>1, <2>3, <2>4 DEF Way
<1>3. CASE (o = x /\ Unmatched(o, fx)) \/ (o = y /\ Unmatched(o, fy))
  BY <1>3 DEF Way
<1> QED
  BY <1>1, <1>2, <1>3

Came(o, x, y, p, d, fx, fy, u, v, w, M) ==
  Parted(o, x, y, p, d) /\ Len(o) \in Nat /\ Way(o, x, y, p, d, fx, fy, u, v, w, TRUE, M)

LEMMA WayEnds ==
  ASSUME NEW o, NEW x, NEW y, NEW p, NEW d,
         NEW fx, NEW fy, NEW u, NEW v, NEW w, NEW M, Came(o, x, y, p, d, fx, fy, u, v, w, M)
  PROVE  M = Both(x, y, p, d)
<1>1. AtEnd(o, x, y, u, v, w)
  BY DEF Way, Came
<1>2. p \in Nat /\ p < Len(o)
  BY DEF Parted, Came
<1>3. CASE M = SoFar(x, y, p, d, u, v, w)
  <2>1. ~(u <= p) /\ w = Len(y)
    BY <1>1, <1>2 DEF AtEnd
  <2> QED
    BY <1>3, <2>1 DEF SoFar, Both
<1>4. CASE u = 0
  BY <1>1, <1>2, <1>4 DEF AtEnd
<1> QED
  BY <1>3, <1>4 DEF Way, Came

-----------------------------------------------------------------------------
(* The merge is on its way for either side that may be the x.              *)
OnWays(m, fa, fb, it, M) ==
  \A p, d \in Nat :
    /\ Parted(m.base, m.target, m.source, p, d) =>
         Way(m.base, m.target, m.source, p, d, fa, fb, it.o, it.a, it.b, it.finished, M)
    /\ Parted(m.base, m.source, m.target, p, d) =>
         Way(m.base, m.source, m.target, p, d, fb, fa, it.o, it.b, it.a, it.finished, M)

Separate(m) ==
  \E p, d \in Nat : Parted(m.base, m.target, m.source, p, d) \/ Parted(m.base, m.source, m.target, p, d)

Along ==
  \/ phase = "open"
  \/ phase = "done" /\ ~iter.finished
  \/ OnWays(merge, matchA, matchB, iter, Merged) /\ (Separate(merge) => ~hasConflict)

(* Primed, it is of the primed variables. *)
LEMMA PartedPrimed ==
  ASSUME NEW p, NEW d
  PROVE  /\ Parted(merge.base, merge.target, merge.source, p, d)'
              <=> Parted(merge'.base, merge'.target, merge'.source, p, d)
         /\ Parted(merge.base, merge.source, merge.target, p, d)'
              <=> Parted(merge'.base, merge'.source, merge'.target, p, d)
BY DEF Parted, Eq

LEMMA WayPrimed ==
  ASSUME NEW p, NEW d
  PROVE  /\ Way(merge.base, merge.target, merge.source, p, d, matchA, matchB,
                iter.o, iter.a, iter.b, iter.finished, Merged)'
              <=> Way(merge'.base, merge'.target, merge'.source, p, d, matchA', matchB',
                      iter'.o, iter'.a, iter'.b, iter'.finished, Merged')
         /\ Way(merge.base, merge.source, merge.target, p, d, matchB, matchA,
                iter.o, iter.b, iter.a, iter.finished, Merged)'
              <=> Way(merge'.base, merge'.source, merge'.target, p, d, matchB', matchA',
                      iter'.o, iter'.b, iter'.a, iter'.finished, Merged')
<1>1. /\ Fits(merge.base, p, d, matchA, matchB)' <=> Fits(merge'.base, p, d, matchA', matchB')
      /\ Fits(merge.base, p, d, matchB, matchA)' <=> Fits(merge'.base, p, d, matchB', matchA')
  BY DEF Fits
<1>2. /\ Where(p, d, iter.o, iter.a, iter.b)' <=> Where(p, d, iter'.o, iter'.a, iter'.b)
      /\ Where(p, d, iter.o, iter.b, iter.a)' <=> Where(p, d, iter'.o, iter'.b, iter'.a)
  BY DEF Where
<1>3. /\ SoFar(merge.target, merge.source, p, d, iter.o, iter.a, iter.b)'
           = SoFar(merge'.target, merge'.source, p, d, iter'.o, iter'.a, iter'.b)
      /\ SoFar(merge.source, merge.target, p, d, iter.o, iter.b, iter.a)'
           = SoFar(merge'.source, merge'.target, p, d, iter'.o, iter'.b, iter'.a)
  BY DEF SoFar, Part
<1>4. /\ Both(merge.target, merge.source, p, d)' = Both(merge'.target, merge'.source, p, d)
      /\ Both(merge.source, merge.target, p, d)' = Both(merge'.source, merge'.target, p, d)
  BY DEF Both, Part
<1>5. /\ Unmatched(merge.base, matchA)' <=> Unmatched(merge'.base, matchA')
      /\ Unmatched(merge.base, matchB)' <=> Unmatched(merge'.base, matchB')
  BY DEF Unmatched
<1>6. /\ AtEnd(merge.base, merge.target, merge.source, iter.o, iter.a, iter.b)'
           <=> AtEnd(merge'.base, merge'.target, merge'.source, iter'.o, iter'.a, iter'.b)
      /\ AtEnd(merge.base, merge.source, merge.target, iter.o, iter.b, iter.a)'
           <=> AtEnd(merge'.base, merge'.source, merge'.target, iter'.o, iter'.b, iter'.a)
  BY DEF AtEnd
<1> QED
  BY <1>1, <1>2, <1>3, <1>4, <1>5, <1>6 DEF Way

LEMMA AlongPrimed ==
  /\ OnWays(merge, matchA, matchB, iter, Merged)' <=> OnWays(merge', matchA', matchB', iter', Merged')
  /\ Separate(merge)' <=> Separate(merge')
<1>1. OnWays(merge, matchA, matchB, iter, Merged)' <=> OnWays(merge', matchA', matchB', iter', Merged')
  BY PartedPrimed, WayPrimed DEF OnWays
<1>2. Separate(merge)' <=> Separate(merge')
  BY PartedPrimed DEF Separate
<1> QED
  BY <1>1, <1>2

LEMMA AlongStays ==
  ASSUME Along, phase = "read", UNCHANGED <<merge, matchA, matchB, iter, hasConflict, chunks>>
  PROVE  Along'
<1>1. OnWays(merge, matchA, matchB, iter, Merged) /\ (Separate(merge) => ~hasConflict)
  BY DEF Along
<1>2. Merged' = Merged
  BY DEF Merged
<1>3. OnWays(merge', matchA', matchB', iter', Merged') /\ (Separate(merge') => ~hasConflict')
  BY <1>1, <1>2
<1> QED
  BY <1>3, AlongPrimed DEF Along

LEMMA AlongOpen ==
  ASSUME Inv, Open
  PROVE  Along'
<1>1. /\ phase = "open"
      /\ matchA' = Matchings[merge.base, merge.target]
      /\ matchB' = Matchings[merge.base, merge.source]
      /\ UNCHANGED <<merge, iter, hasConflict, chunks>>
  BY DEF Open
<1>2. /\ merge \in Merges /\ ~hasConflict /\ chunks = <<>>
      /\ iter = [o |-> 0, a |-> 0, b |-> 0, finished |-> FALSE]
  BY <1>1 DEF Inv, Typed, Starting
<1>3. matchA' = Matches(merge.base, merge.target) /\ matchB' = Matches(merge.base, merge.source)
  BY <1>1, <1>2, Matched2
<1>4. merge.base \in Seq(Lines) /\ merge.target \in Seq(Lines) /\ merge.source \in Seq(Lines)
  BY <1>2, MergeTexts
<1>5. Merged' = <<>>
  <2>1. Merged' = AllOf(chunks', "lines")
    BY Zenon DEF Merged, AllOf
  <2> QED
    BY <1>1, <1>2, <2>1, AllOfNone
<1> DEFINE fa == matchA'  fb == matchB'
<1>6. OnWays(merge, fa, fb, iter, <<>>)
  <2> SUFFICES ASSUME NEW p \in Nat, NEW d \in Nat
               PROVE  /\ Parted(merge.base, merge.target, merge.source, p, d) =>
                           Way(merge.base, merge.target, merge.source, p, d, fa, fb, 0, 0, 0, FALSE, <<>>)
                      /\ Parted(merge.base, merge.source, merge.target, p, d) =>
                           Way(merge.base, merge.source, merge.target, p, d, fb, fa, 0, 0, 0, FALSE, <<>>)
    BY <1>2 DEF OnWays
  <2> QED
    BY <1>3, <1>4, WayStarts
<1>7. OnWays(merge, matchA, matchB, iter, Merged)'
  <2>1. OnWays(merge', matchA', matchB', iter', Merged')
    BY <1>1, <1>5, <1>6
  <2> QED
    BY <2>1, AlongPrimed
<1>8. ~hasConflict'
  BY <1>1, <1>2
<1> QED
  BY <1>7, <1>8 DEF Along

LEMMA ResolvedAs ==
  ASSUME NEW o, NEW a, NEW b
  PROVE  /\ ComesOutAs(o, a, b, Resolved(o, a, b)) /\ ComesOutAs(o, b, a, Resolved(o, a, b))
         /\ o = a \/ o = b => ~Conflicts(o, a, b)
<1>1. CASE o = a \/ a = b
  BY <1>1 DEF Resolved, Conflicts, ComesOutAs
<1>2. CASE o # a /\ a # b /\ o = b
  BY <1>2 DEF Resolved, Conflicts, ComesOutAs
<1>3. CASE ~(o = a \/ a = b) /\ ~(o # a /\ a # b /\ o = b)
  BY <1>3 DEF Conflicts, ComesOutAs
<1> QED
  BY <1>1, <1>2, <1>3

(* The next chunk goes on in both ways. *)
LEMMA CutsTo ==
  ASSUME AllAhead(iter), NEW c, c = NextChunk
  PROVE  /\ CutTo(merge.base, merge.target, merge.source, matchA, matchB,
                  iter.o, iter.a, iter.b, c.end.o, c.end.a, c.end.b, c.end.finished)
         /\ CutTo(merge.base, merge.source, merge.target, matchB, matchA,
                  iter.o, iter.b, iter.a, c.end.o, c.end.b, c.end.a, c.end.finished)
         /\ Finishes(c)
<1>1. CASE \E i \in Nat : Matching(c, i)
  <2>1. PICK i \in Nat : Matching(c, i)
    BY <1>1
  <2>2. /\ RunsOn(merge.base, matchA, iter.o, iter.a, i) /\ RunsOn(merge.base, matchB, iter.o, iter.b, i)
        /\ c.end.o = iter.o + i /\ c.end.a = iter.a + i /\ c.end.b = iter.b + i
    BY <2>1 DEF Matching, RunOf
  <2> QED
    BY <2>2, ChunkCases DEF CutTo
<1>2. CASE UpToKept(c)
  <2> DEFINE k == FirstKept  N == Len(merge.base)
  <2>1. k \in Kept /\ (\A q \in Kept : k <= q) /\ c.end = To(k, matchA[k], matchB[k], FALSE)
    BY <1>2 DEF UpToKept
  <2>2. /\ k \in iter.o..N - 1 /\ matchA[k] # -1 /\ matchB[k] # -1
        /\ \A q \in iter.o..N - 1 : matchA[q] # -1 /\ matchB[q] # -1 => k <= q
    BY <2>1 DEF Kept
  <2>3. c.end.o = k /\ c.end.a = matchA[k] /\ c.end.b = matchB[k]
    BY <2>1 DEF To
  <2> HIDE DEF k
  <2> QED
    BY <2>2, <2>3, ChunkCases DEF CutTo
<1>3. CASE AllTheRest(c)
  <2>1. Kept = {} /\ c.end = ToEnd
    BY <1>3 DEF AllTheRest
  <2>2. \A q \in iter.o..Len(merge.base) - 1 : matchA[q] = -1 \/ matchB[q] = -1
    BY <2>1 DEF Kept
  <2>3. c.end.o = Len(merge.base) /\ c.end.a = Len(merge.target) /\ c.end.b = Len(merge.source) /\ c.end.finished
    BY <2>1 DEF ToEnd, To
  <2> QED
    BY <2>2, <2>3, ChunkCases DEF CutTo
<1> QED
  BY <1>1, <1>2, <1>3, ChunkCases

LEMMA OnWaysNext ==
  ASSUME merge \in Merges, AllAhead(iter), ~iter.finished, NEW M, OnWays(merge, matchA, matchB, iter, M),
         NEW c, c = NextChunk, NEW ls \in Seq(Lines),
         NEW o, o = Part(merge.base, iter.o, c.end.o),
         NEW a, a = Part(merge.target, iter.a, c.end.a),
         NEW b, b = Part(merge.source, iter.b, c.end.b),
         ComesOutAs(o, a, b, ls), ComesOutAs(o, b, a, ls)
  PROVE  OnWays(merge, matchA, matchB, c.end, M \o ls) /\ (Separate(merge) => o = a \/ o = b)
<1>0. iter.finished = FALSE
  BY DEF AllAhead, Iters
<1>1. merge.base \in Seq(Lines) /\ merge.target \in Seq(Lines) /\ merge.source \in Seq(Lines)
  BY MergeTexts
<1>2. /\ Ahead(merge.base, merge.target, matchA, iter.o, iter.a)
      /\ Ahead(merge.base, merge.source, matchB, iter.o, iter.b)
  BY DEF AllAhead
<1>3. /\ Reaches(merge.base, iter.o, c.end.o) /\ Reaches(merge.target, iter.a, c.end.a)
      /\ Reaches(merge.source, iter.b, c.end.b)
  <2>1. Onward(c)
    BY ChunkOnward
  <2>2. /\ c.end \in Iters /\ iter \in Iters
        /\ c.end.o <= Len(merge.base) /\ c.end.a <= Len(merge.target) /\ c.end.b <= Len(merge.source)
        /\ iter.o <= c.end.o /\ iter.a <= c.end.a /\ iter.b <= c.end.b
    BY <2>1 DEF Onward, AllAhead, Ahead
  <2> QED
    BY <2>2 DEF Iters, Reaches
<1>4. /\ CutTo(merge.base, merge.target, merge.source, matchA, matchB,
               iter.o, iter.a, iter.b, c.end.o, c.end.a, c.end.b, c.end.finished)
      /\ CutTo(merge.base, merge.source, merge.target, matchB, matchA,
               iter.o, iter.b, iter.a, c.end.o, c.end.b, c.end.a, c.end.finished)
  BY CutsTo
<1>5. /\ c.end.finished => AtEnd(merge.base, merge.target, merge.source, c.end.o, c.end.a, c.end.b)
      /\ c.end.finished => AtEnd(merge.base, merge.source, merge.target, c.end.o, c.end.b, c.end.a)
  BY CutsTo DEF Finishes, AtEnd
<1>6. /\ ComesOutAs(Part(merge.base, iter.o, c.end.o), Part(merge.target, iter.a, c.end.a),
                    Part(merge.source, iter.b, c.end.b), ls)
      /\ ComesOutAs(Part(merge.base, iter.o, c.end.o), Part(merge.source, iter.b, c.end.b),
                    Part(merge.target, iter.a, c.end.a), ls)
  OBVIOUS
<1>7. ASSUME NEW p \in Nat, NEW d \in Nat, Parted(merge.base, merge.target, merge.source, p, d)
      PROVE  /\ Way(merge.base, merge.target, merge.source, p, d, matchA, matchB,
                    c.end.o, c.end.a, c.end.b, c.end.finished, M \o ls)
             /\ o = a \/ o = b
  <2>1. Way(merge.base, merge.target, merge.source, p, d, matchA, matchB, iter.o, iter.a, iter.b, FALSE, M)
    BY <1>0, <1>7 DEF OnWays
  <2> DEFINE x == merge.base  y == merge.target  z == merge.source  fa == matchA  fb == matchB
             u == iter.o  v == iter.a  w == iter.b
             s == c.end.o  t == c.end.a  r == c.end.b  h == c.end.finished
  <2>2. /\ x \in Seq(Lines) /\ y \in Seq(Lines) /\ z \in Seq(Lines)
        /\ Going(x, y, z, p, d, fa, fb, u, v, w, M)
        /\ GoesTo(x, y, z, fa, fb, u, v, w, s, t, r, h)
        /\ ComesOutAs(Part(x, u, s), Part(y, v, t), Part(z, w, r), ls)
    BY <1>1, <1>2, <1>3, <1>4, <1>5, <1>6, <1>7, <2>1 DEF Going, GoesTo
  <2>3. o = Part(x, u, s) /\ a = Part(y, v, t) /\ b = Part(z, w, r)
    OBVIOUS
  <2> HIDE DEF x, y, z, fa, fb, u, v, w, s, t, r, h
  <2>4. /\ Way(x, y, z, p, d, fa, fb, s, t, r, h, M \o ls)
        /\ Part(x, u, s) = Part(y, v, t) \/ Part(x, u, s) = Part(z, w, r)
    BY <2>2, WayNext
  <2> QED
    BY <2>3, <2>4 DEF x, y, z, fa, fb, s, t, r, h
<1>8. ASSUME NEW p \in Nat, NEW d \in Nat, Parted(merge.base, merge.source, merge.target, p, d)
      PROVE  /\ Way(merge.base, merge.source, merge.target, p, d, matchB, matchA,
                    c.end.o, c.end.b, c.end.a, c.end.finished, M \o ls)
             /\ o = a \/ o = b
  <2>1. Way(merge.base, merge.source, merge.target, p, d, matchB, matchA, iter.o, iter.b, iter.a, FALSE, M)
    BY <1>0, <1>8 DEF OnWays
  <2> DEFINE x == merge.base  y == merge.source  z == merge.target  fa == matchB  fb == matchA
             u == iter.o  v == iter.b  w == iter.a
             s == c.end.o  t == c.end.b  r == c.end.a  h == c.end.finished
  <2>2. /\ x \in Seq(Lines) /\ y \in Seq(Lines) /\ z \in Seq(Lines)
        /\ Going(x, y, z, p, d, fa, fb, u, v, w, M)
        /\ GoesTo(x, y, z, fa, fb, u, v, w, s, t, r, h)
        /\ ComesOutAs(Part(x, u, s), Part(y, v, t), Part(z, w, r), ls)
    BY <1>1, <1>2, <1>3, <1>4, <1>5, <1>6, <1>8, <2>1 DEF Going, GoesTo
  <2>3. o = Part(x, u, s) /\ b = Part(y, v, t) /\ a = Part(z, w, r)
    OBVIOUS
  <2> HIDE DEF x, y, z, fa, fb, u, v, w, s, t, r, h
  <2>4. /\ Way(x, y, z, p, d, fa, fb, s, t, r, h, M \o ls)
        /\ Part(x, u, s) = Part(y, v, t) \/ Part(x, u, s) = Part(z, w, r)
    BY <2>2, WayNext
  <2> QED
    BY <2>3, <2>4 DEF x, y, z, fa, fb, s, t, r, h
<1> QED
  BY <1>7, <1>8 DEF OnWays, Separate

LEMMA AlongReadChunk ==
  ASSUME Inv, Along, ReadChunk
  PROVE  Along'
<1> DEFINE c == NextChunk
           o == Part(merge.base, iter.o, c.end.o)
           a == Part(merge.target, iter.a, c.end.a)
           b == Part(merge.source, iter.b, c.end.b)
           lines == IF c.clean THEN o ELSE Resolved(o, a, b)
           h == ChunkOf(c, o, a, b)
<1>1. /\ phase = "read" /\ ~iter.finished
      /\ iter' = c.end
      /\ chunks' = Append(chunks, h)
      /\ hasConflict' = (hasConflict \/ (~c.clean /\ Conflicts(o, a, b)))
      /\ UNCHANGED <<merge, matchA, matchB>>
  BY DEF ReadChunk, ChunkOf
<1>2. h.lines = lines
  BY DEF ChunkOf
<1>3. Typed /\ Cuts
  BY DEF Inv
<1>4. AllAhead(iter) /\ merge \in Merges /\ chunks \in Seq(Chunk) /\ iter.finished = FALSE
  BY <1>1, <1>3 DEF Cuts, Typed, Iters
<1>5. OnWays(merge, matchA, matchB, iter, Merged) /\ (Separate(merge) => ~hasConflict)
  BY <1>1 DEF Along
<1> HIDE DEF c
<1>c. c = NextChunk
  BY DEF c
<1>6. h \in Chunk
  <2>1. Pieces3(c, o, a, b)
    BY DEF Pieces3
  <2> HIDE DEF o, a, b
  <2> QED
    BY <1>c, <1>4, <2>1, ChunkTyped
<1> HIDE DEF h
<1>7. lines \in Seq(Lines) /\ h["lines"] = lines
  BY <1>2, <1>6 DEF Chunk
<1>8. FieldIn(chunks, "lines", Lines)
  <2>1. \A q \in DOMAIN chunks : chunks[q] \in Chunk
    BY <1>4, ElementOfSeq
  <2> QED
    BY <2>1 DEF FieldIn, Chunk
<1>9. Merged' = Merged \o lines
  <2> HIDE DEF lines
  <2>1. Merged' = AllOf(chunks', "lines")
    BY Zenon DEF Merged, AllOf
  <2>2. Grows(chunks, chunks', "lines", lines, Lines)
    BY <1>1, <1>4, <1>6, <1>7, <1>8, AllOfMore
  <2> QED
    BY <2>1, <2>2, MergedIs DEF Grows
<1>10. c.clean => o = a /\ o = b
  BY <1>c, <1>4, MergeTexts, CleanSame
<1>e. o = Part(merge.base, iter.o, c.end.o) /\ a = Part(merge.target, iter.a, c.end.a)
      /\ b = Part(merge.source, iter.b, c.end.b)
  OBVIOUS
<1> HIDE DEF o, a, b
<1>11. ComesOutAs(o, a, b, lines) /\ ComesOutAs(o, b, a, lines) /\ (o = a \/ o = b => ~Conflicts(o, a, b))
  BY <1>10, ResolvedAs DEF ComesOutAs
<1> HIDE DEF lines
<1>12. /\ OnWays(merge, matchA, matchB, c.end, Merged \o lines)
       /\ Separate(merge) => o = a \/ o = b
  <2> DEFINE M == Merged
  <2>1. OnWays(merge, matchA, matchB, iter, M) /\ ComesOutAs(o, a, b, lines) /\ ComesOutAs(o, b, a, lines)
    BY <1>5, <1>11
  <2>2. lines \in Seq(Lines) /\ ~iter.finished
    BY <1>1, <1>7
  <2> HIDE DEF M
  <2>3. OnWays(merge, matchA, matchB, c.end, M \o lines) /\ (Separate(merge) => o = a \/ o = b)
    BY <1>c, <1>e, <1>4, <2>1, <2>2, OnWaysNext
  <2> QED
    BY <2>3 DEF M
<1>13. OnWays(merge', matchA', matchB', iter', Merged') /\ (Separate(merge') => ~hasConflict')
  BY <1>1, <1>5, <1>9, <1>11, <1>12
<1> QED
  BY <1>13, AlongPrimed, SMTT(30) DEF Along

LEMMA AlongNext ==
  ASSUME Inv, Along, [Next]_vars
  PROVE  Along'
<1>1. CASE OpenBinary
  <2>1. phase = "open" /\ phase' = "done" /\ iter' = iter
    BY <1>1 DEF OpenBinary
  <2>2. ~iter.finished
    BY <2>1 DEF Inv, Starting
  <2> QED
    BY <2>1, <2>2 DEF Along
<1>2. CASE Open
  BY <1>2, AlongOpen
<1>3. CASE FinishLine \/ FillBuffer \/ NoMoreChunks
  <2>1. phase = "read" /\ UNCHANGED <<merge, matchA, matchB, iter, hasConflict, chunks>>
    BY <1>3 DEF FinishLine, FillBuffer, NoMoreChunks
  <2> QED
    BY <2>1, AlongStays
<1>4. CASE ReadChunk
  BY <1>4, AlongReadChunk
<1>5. CASE UNCHANGED vars
  <2>1. UNCHANGED <<merge, matchA, matchB, iter, hasConflict, chunks, phase>>
    BY <1>5 DEF vars
  <2>2. CASE phase = "open" \/ (phase = "done" /\ ~iter.finished)
    BY <2>1, <2>2 DEF Along
  <2>3. CASE OnWays(merge, matchA, matchB, iter, Merged) /\ (Separate(merge) => ~hasConflict)
    <3>1. Merged' = Merged
      BY <2>1 DEF Merged
    <3>2. OnWays(merge', matchA', matchB', iter', Merged') /\ (Separate(merge') => ~hasConflict')
      BY <2>1, <2>3, <3>1
    <3> QED
      BY <3>2, AlongPrimed DEF Along
  <2> QED
    BY <2>2, <2>3 DEF Along
<1> QED
  BY <1>1, <1>2, <1>3, <1>4, <1>5 DEF Next

-----------------------------------------------------------------------------
(* A line a text has once. *)
OnlyAt(text, l, n) ==
  /\ n \in 1..Len(text) /\ text[n] = l
  /\ \A q \in 1..Len(text) : text[q] = l => q = n

PlaceOf(text, l) == SelectInSeq(text, LAMBDA e : e = l)

LEMMA UniqueAt ==
  ASSUME NEW S, NEW text \in Seq(S), NEW l, Unique(text, l)
  PROVE  OnlyAt(text, l, PlaceOf(text, l))
<1> DEFINE N == Len(text)  I == {q \in 1..N : text[q] = l}
<1>1. N \in Nat /\ DOMAIN text = 1..N
  OBVIOUS
<1>2. Cardinality(I) = 1
  BY <1>1 DEF Unique
<1>3. IsFiniteSet(I)
  <2>1. 1 \in Int /\ N \in Int
    BY <1>1
  <2>2. IsFiniteSet(1..N)
    BY <2>1, FS_Interval
  <2>3. I \in SUBSET (1..N)
    OBVIOUS
  <2> QED
    BY <2>2, <2>3, FS_Subset
<1>4. \E n : I = {n}
  <2> HIDE DEF I
  <2> QED
    BY <1>2, <1>3, FS_Singleton
<1>5. PICK n : I = {n}
  BY <1>4
<1>6. PlaceOf(text, l) = IF I # {} THEN Min(I) ELSE 0
  BY DEF SelectInSeq, PlaceOf
<1>7. n \in 1..N /\ text[n] = l /\ \A q \in 1..N : text[q] = l => q = n
  BY <1>5
<1> HIDE DEF I
<1>8. Min(I) = n
  <2>1. n <= n
    BY <1>1, <1>7
  <2>2. Min(I) = CHOOSE q \in I : \A r \in I : q <= r
    BY DEF Min
  <2> QED
    BY <1>5, <2>1, <2>2
<1>9. PlaceOf(text, l) = n
  BY <1>5, <1>6, <1>8
<1> QED
  BY <1>7, <1>9 DEF OnlyAt

LEMMA PartedAt ==
  ASSUME NEW S, NEW o \in Seq(S), NEW x \in Seq(S), NEW y \in Seq(S), NEW l,
         NEW i, OnlyAt(o, l, i), NEW j, OnlyAt(x, l, j), NEW k, OnlyAt(y, l, k),
         Part(x, j, Len(x)) = Part(o, i, Len(o)), Part(y, 0, k - 1) = Part(o, 0, i - 1)
  PROVE  /\ Parted(o, x, y, i - 1, j - 1) /\ k = i
<1> DEFINE N == Len(o)  M == Len(x)  K == Len(y)  z == 0  p == i - 1  d == j - 1
<1>1. /\ N \in Nat /\ M \in Nat /\ K \in Nat /\ i \in 1..N /\ j \in 1..M /\ k \in 1..K
      /\ o[i] = l /\ x[j] = l /\ y[k] = l
      /\ \A q \in 1..N : o[q] = l => q = i
      /\ \A q \in 1..M : x[q] = l => q = j
      /\ \A q \in 1..K : y[q] = l => q = k
  BY DEF OnlyAt
<1>z. z = 0 /\ z \in Nat
  OBVIOUS
<1> HIDE DEF z
<1>2. /\ IsPart(S, x, j, M, Part(x, j, M)) /\ IsPart(S, o, i, N, Part(o, i, N))
      /\ IsPart(S, y, z, k - 1, Part(y, z, k - 1)) /\ IsPart(S, o, z, i - 1, Part(o, z, i - 1))
  <2>1. /\ j \in Nat /\ j <= M /\ i \in Nat /\ i <= N /\ k - 1 \in Nat /\ i - 1 \in Nat
        /\ z <= k - 1 /\ z <= i - 1 /\ k - 1 <= K /\ i - 1 <= N /\ N <= Len(o) /\ M <= Len(x)
    BY <1>1, <1>z
  <2>2. k - 1 <= Len(y) /\ i - 1 <= Len(o)
    BY <2>1
  <2> QED
    BY <1>1, <1>z, <2>1, <2>2, PartIs
<1>3. Part(x, j, M) = Part(o, i, N) /\ Part(y, z, k - 1) = Part(o, z, i - 1)
  BY <1>z
<1>4. M - j = N - i
  BY <1>2, <1>3 DEF IsPart
<1>5. k = i
  <2>1. (k - 1) - z = (i - 1) - z
    BY <1>2, <1>3 DEF IsPart
  <2> QED
    BY <1>1, <1>z, <2>1
<1>6. \A q \in 1..N - i : x[j + q] = o[i + q]
  <2> SUFFICES ASSUME NEW q \in 1..N - i PROVE x[j + q] = o[i + q]
    OBVIOUS
  <2>1. q \in 1..M - j
    BY <1>4
  <2> DEFINE r == Part(o, i, N)
  <2>2. r[q] = o[i + q]
    BY <1>2 DEF IsPart
  <2>3. Part(x, j, M)[q] = x[j + q]
    BY <1>2, <2>1 DEF IsPart
  <2> QED
    BY <1>3, <2>2, <2>3
<1>7. \A q \in 1..i - 1 : y[q] = o[q]
  <2> SUFFICES ASSUME NEW q \in 1..i - 1 PROVE y[q] = o[q]
    OBVIOUS
  <2>1. q \in 1..(i - 1) - z /\ q \in 1..(k - 1) - z /\ z + q = q
    BY <1>1, <1>z, <1>5
  <2> DEFINE r == Part(o, z, i - 1)
  <2>2. r[q] = o[z + q]
    BY <1>2, <2>1 DEF IsPart
  <2>3. Part(y, z, k - 1)[q] = y[z + q]
    BY <1>2, <2>1 DEF IsPart
  <2> QED
    BY <1>3, <2>1, <2>2, <2>3
<1> HIDE DEF N, M, K
<1>8. /\ p \in Nat /\ d \in Nat /\ p < N /\ d < M /\ p < K /\ M - d = N - p /\ p + 1 = i /\ d + 1 = j
  BY <1>1, <1>4, <1>5
<1>9. \A t \in 0..N - p - 1 : x[d + t + 1] = o[p + t + 1]
  <2> SUFFICES ASSUME NEW t \in 0..N - p - 1 PROVE x[d + t + 1] = o[p + t + 1]
    OBVIOUS
  <2>1. d + t + 1 = j + t /\ p + t + 1 = i + t /\ (t = 0 \/ t \in 1..N - i)
    BY <1>1
  <2>2. CASE t = 0
    <3>1. j + t = j /\ i + t = i
      BY <1>1, <2>2
    <3> QED
      BY <1>1, <2>1, <3>1
  <2>3. CASE t \in 1..N - i
    BY <1>6, <2>1, <2>3
  <2> QED
    BY <2>1, <2>2, <2>3
<1>10. \A t \in 0..p : y[t + 1] = o[t + 1]
  <2> SUFFICES ASSUME NEW t \in 0..p PROVE y[t + 1] = o[t + 1]
    OBVIOUS
  <2>1. t + 1 = i \/ t + 1 \in 1..i - 1
    BY <1>1
  <2> QED
    BY <1>1, <1>5, <1>7, <2>1
<1>11. ASSUME NEW u \in 0..N - 1, NEW v \in 0..M - 1, Eq(o, x, u, v) PROVE u = p <=> v = d
  <2>1. o[u + 1] = x[v + 1] /\ u + 1 \in 1..N /\ v + 1 \in 1..M
    BY <1>1, <1>11 DEF Eq
  <2>2. u + 1 = i <=> v + 1 = j
    BY <1>1, <2>1
  <2> QED
    BY <1>1, <2>2
<1>12. ASSUME NEW u \in 0..N - 1, NEW v \in 0..K - 1, Eq(o, y, u, v) PROVE u = p <=> v = p
  <2>1. o[u + 1] = y[v + 1] /\ u + 1 \in 1..N /\ v + 1 \in 1..K
    BY <1>1, <1>12 DEF Eq
  <2>2. u + 1 = i <=> v + 1 = k
    BY <1>1, <2>1
  <2> QED
    BY <1>1, <1>5, <2>2
<1>13. Parted(o, x, y, p, d)
  BY <1>8, <1>9, <1>10, <1>11, <1>12 DEF Parted, N, M, K
<1> QED
  BY <1>5, <1>13

(* What both changes come to. *)
Around(x, y, l, d, k) == Part(x, 0, d) \o <<l>> \o Part(y, k, Len(y))

JustBefore(p, k) == p \in Nat /\ p + 1 = k

LEMMA BothAt ==
  ASSUME NEW x \in Seq(Lines), NEW y \in Seq(Lines), NEW l \in Lines,
         NEW j, OnlyAt(x, l, j), NEW k, OnlyAt(y, l, k), NEW p, JustBefore(p, k), NEW d, JustBefore(d, j)
  PROVE  Both(x, y, p, d) = Around(x, y, l, d, k)
<1> DEFINE a == Part(x, 0, d)  b == <<l>>  c == Part(y, k, Len(y))  e == Part(y, p, k)  z == 0
<1>0. p \in Nat /\ p + 1 = k /\ d \in Nat /\ d + 1 = j
  BY DEF JustBefore
<1>1. j \in 1..Len(x) /\ k \in 1..Len(y) /\ y[k] = l /\ Len(x) \in Nat /\ Len(y) \in Nat
  BY DEF OnlyAt
<1>z. z = 0 /\ z \in Nat
  OBVIOUS
<1>2. Reaches(x, z, d) /\ Reaches(x, d, Len(x))
  <2> HIDE DEF z
  <2> QED
    BY <1>0, <1>1, <1>z DEF Reaches
<1>3. Reaches(y, p, k) /\ Reaches(y, k, Len(y))
  BY <1>0, <1>1 DEF Reaches
<1>4. a \in Seq(Lines)
  <2> HIDE DEF z
  <2>1. Part(x, z, d) \in Seq(Lines)
    BY <1>2, PartMeet
  <2> QED
    BY <2>1, <1>z
<1>5. e \o c = Part(y, p, Len(y)) /\ c \in Seq(Lines)
  BY <1>3, PartMeet
<1>6. e = b
  <2>1. IsPart(Lines, y, p, k, e)
    BY <1>3, PartIs DEF Reaches
  <2>2. k - p = 1 /\ p + 1 = k /\ 1 \in 1..1
    BY <1>0
  <2>3. e \in Seq(Lines) /\ Len(e) = 1 /\ e[1] = l
    <3>1. e \in Seq(Lines) /\ Len(e) = k - p /\ \A q \in 1..k - p : e[q] = y[p + q]
      BY <2>1 DEF IsPart
    <3> HIDE DEF e
    <3>2. 1 \in 1..k - p
      BY <2>2
    <3>3. e[1] = y[p + 1]
      BY <3>1, <3>2
    <3> QED
      BY <1>1, <2>2, <3>1, <3>3
  <2>4. b \in Seq(Lines) /\ Len(b) = 1 /\ b[1] = l
    OBVIOUS
  <2> HIDE DEF e, b
  <2>5. \A q \in 1..1 : q = 1
    OBVIOUS
  <2>6. \A q \in 1..Len(e) : e[q] = b[q]
    BY <2>3, <2>4, <2>5
  <2> QED
    BY <2>3, <2>4, <2>6, SeqEqual
<1>7. b \in Seq(Lines)
  OBVIOUS
<1>8. Both(x, y, p, d) = a \o (e \o c)
  BY <1>5 DEF Both
<1> HIDE DEF a, b, c, e
<1>9. Associates(a, b, c)
  <2>1. a \in Seq(Lines) /\ b \in Seq(Lines) /\ c \in Seq(Lines)
    BY <1>4, <1>5, <1>7
  <2> QED
    BY <2>1, Assoc, Zenon
<1>10. Both(x, y, p, d) = a \o b \o c
  BY <1>6, <1>8, <1>9 DEF Associates
<1> QED
  BY <1>10 DEF a, b, c, Around

LEMMA BeforeAfter ==
  ASSUME NEW text, NEW l
  PROVE  /\ Before(text, l) = Part(text, 0, PlaceOf(text, l) - 1)
         /\ After(text, l) = Part(text, PlaceOf(text, l), Len(text))
<1>1. 0 + 1 = 1
  OBVIOUS
<1> QED
  BY <1>1 DEF Before, After, Part, PlaceOf

LEMMA MergesBoth ==
  ASSUME NEW o \in Seq(Lines), NEW x \in Seq(Lines), NEW y \in Seq(Lines), NEW l \in Lines,
         Unique(o, l), Unique(x, l), Unique(y, l), After(x, l) = After(o, l), Before(y, l) = Before(o, l)
  PROVE  \E p, d \in Nat : Parted(o, x, y, p, d) /\ Both(x, y, p, d) = Before(x, l) \o <<l>> \o After(y, l)
<1> DEFINE i == PlaceOf(o, l)
           j == PlaceOf(x, l)
           k == PlaceOf(y, l)
<1>1. OnlyAt(o, l, i) /\ OnlyAt(x, l, j) /\ OnlyAt(y, l, k)
  BY UniqueAt
<1>2. /\ Before(o, l) = Part(o, 0, i - 1) /\ Before(x, l) = Part(x, 0, j - 1) /\ Before(y, l) = Part(y, 0, k - 1)
      /\ After(o, l) = Part(o, i, Len(o)) /\ After(x, l) = Part(x, j, Len(x)) /\ After(y, l) = Part(y, k, Len(y))
  BY BeforeAfter
<1> HIDE DEF i, j, k
<1>3. Part(x, j, Len(x)) = Part(o, i, Len(o)) /\ Part(y, 0, k - 1) = Part(o, 0, i - 1)
  BY <1>2
<1> DEFINE p == i - 1  d == j - 1
<1>4. Parted(o, x, y, p, d) /\ k = i
  BY <1>1, <1>3, PartedAt
<1>5. p \in Nat /\ d \in Nat
  BY <1>4 DEF Parted
<1>6. JustBefore(p, k) /\ JustBefore(d, j)
  BY <1>1, <1>4, <1>5 DEF OnlyAt, JustBefore
<1>7. Before(x, l) = Part(x, 0, d)
  BY <1>2
<1> HIDE DEF p, d
<1>8. Both(x, y, p, d) = Around(x, y, l, d, k)
  BY <1>1, <1>5, <1>6, BothAt
<1>9. Both(x, y, p, d) = Before(x, l) \o <<l>> \o After(y, l)
  BY <1>2, <1>7, <1>8 DEF Around
<1> QED
  BY <1>4, <1>5, <1>9

(* Changes that a line apart merge without a conflict. *)
THEOREM SeparateChangesDoMerge == Spec => []SeparateChangesMerge
<1>1. Init => Along
  BY DEF Init, Along
<1>2. Inv /\ Along /\ [Next]_vars => Along'
  BY AlongNext
<1>3. Inv /\ Along => SeparateChangesMerge
  <2> SUFFICES ASSUME Inv, Along, iter.finished, NEW l \in Lines,
                      Unique(merge.base, l), Unique(merge.target, l), Unique(merge.source, l)
               PROVE  /\ (After(merge.target, l) = After(merge.base, l) /\ Before(merge.source, l) = Before(merge.base, l)) =>
                           ~hasConflict /\ Merged = Before(merge.target, l) \o <<l>> \o After(merge.source, l)
                      /\ (Before(merge.target, l) = Before(merge.base, l) /\ After(merge.source, l) = After(merge.base, l)) =>
                           ~hasConflict /\ Merged = Before(merge.source, l) \o <<l>> \o After(merge.target, l)
    BY DEF SeparateChangesMerge
  <2>1. OnWays(merge, matchA, matchB, iter, Merged) /\ (Separate(merge) => ~hasConflict)
    BY DEF Along, Inv, Starting
  <2>2. merge.base \in Seq(Lines) /\ merge.target \in Seq(Lines) /\ merge.source \in Seq(Lines)
    BY MergeTexts DEF Inv, Typed
  <2>3. iter.finished = TRUE /\ Len(merge.base) \in Nat
    BY <2>2 DEF Inv, Typed, Iters
  <2>4. ASSUME After(merge.target, l) = After(merge.base, l), Before(merge.source, l) = Before(merge.base, l)
        PROVE  ~hasConflict /\ Merged = Before(merge.target, l) \o <<l>> \o After(merge.source, l)
    <3>1. PICK p \in Nat, d \in Nat :
             /\ Parted(merge.base, merge.target, merge.source, p, d)
             /\ Both(merge.target, merge.source, p, d) = Before(merge.target, l) \o <<l>> \o After(merge.source, l)
      BY <2>2, <2>4, MergesBoth
    <3>2. Way(merge.base, merge.target, merge.source, p, d, matchA, matchB, iter.o, iter.a, iter.b, TRUE, Merged)
      BY <2>1, <2>3, <3>1 DEF OnWays
    <3>3. Merged = Both(merge.target, merge.source, p, d)
      BY <2>3, <3>1, <3>2, WayEnds DEF Came
    <3>4. Separate(merge)
      BY <3>1 DEF Separate
    <3> QED
      BY <2>1, <3>1, <3>3, <3>4
  <2>5. ASSUME Before(merge.target, l) = Before(merge.base, l), After(merge.source, l) = After(merge.base, l)
        PROVE  ~hasConflict /\ Merged = Before(merge.source, l) \o <<l>> \o After(merge.target, l)
    <3>1. PICK p \in Nat, d \in Nat :
             /\ Parted(merge.base, merge.source, merge.target, p, d)
             /\ Both(merge.source, merge.target, p, d) = Before(merge.source, l) \o <<l>> \o After(merge.target, l)
      BY <2>2, <2>5, MergesBoth
    <3>2. Way(merge.base, merge.source, merge.target, p, d, matchB, matchA, iter.o, iter.b, iter.a, TRUE, Merged)
      BY <2>1, <2>3, <3>1 DEF OnWays
    <3>3. Merged = Both(merge.source, merge.target, p, d)
      BY <2>3, <3>1, <3>2, WayEnds DEF Came
    <3>4. Separate(merge)
      BY <3>1 DEF Separate
    <3> QED
      BY <2>1, <3>1, <3>3, <3>4
  <2> QED
    BY <2>4, <2>5
<1> QED
  BY <1>1, <1>2, <1>3, Invariant, PTL DEF Spec
=============================================================================
