---------------------------- MODULE MyersProofs ----------------------------
(***************************************************************************)
(* Proofs about Myers for every two texts: the search for a middle snake   *)
(* finds a point on a shortest path of edits, so that the ranges the       *)
(* pieces are split into are as small as can be; the edits read off them   *)
(* lead from the old text to the new one and are as few as possible; and   *)
(* the matches pair equal lines, in order, as many as can be, so that a    *)
(* block of lines both texts begin or end with is matched as it is.        *)
(***************************************************************************)
EXTENDS Myers, SequenceTheorems, FiniteSetTheorems, WellFoundedInduction, TLAPS

-----------------------------------------------------------------------------
(* Numbers, and functions defined step by step. *)

(* Every set of numbers that is not empty has a least member. *)
LEMMA LeastNumber ==
  ASSUME NEW T \in SUBSET Nat, T # {}
  PROVE  \E x \in T : \A y \in T : x <= y
<1> DEFINE Less == OpToRel(<, Nat)
<1>1. IsWellFoundedOn(Less, Nat)
  BY NatLessThanWellFounded
<1>2. \A x, y \in Nat : <<x, y>> \in Less <=> x < y
  BY DEF OpToRel
<1> HIDE DEF Less
<1>3. PICK x \in T : \A y \in T : ~(<<y, x>> \in Less)
  BY <1>1, WFMin, Zenon
<1>4. \A y \in T : ~(y < x)
  BY <1>2, <1>3
<1> QED
  BY <1>4

(* A set of numbers that holds zero and what follows each member is all of *)
(* them.                                                                   *)
LEMMA Climb ==
  ASSUME NEW T \in SUBSET Nat, 0 \in T, \A n \in T : n + 1 \in T
  PROVE  T = Nat
<1> SUFFICES ASSUME Nat \ T # {} PROVE FALSE
  OBVIOUS
<1>1. PICK n \in Nat \ T : \A k \in Nat \ T : n <= k
  BY LeastNumber
<1>2. n # 0 /\ n - 1 \in Nat
  BY <1>1
<1>3. n - 1 \in T
  BY <1>1, <1>2
<1>4. (n - 1) + 1 \in T
  BY <1>3
<1> QED
  BY <1>1, <1>4

(* A member of a set that is least by some measure. *)
LEMMA LeastBy ==
  ASSUME NEW T, T # {}, NEW size, \A t \in T : size[t] \in Nat
  PROVE  \E t \in T : \A u \in T : size[t] <= size[u]
<1> DEFINE Sizes == {size[t] : t \in T}
<1>1. Sizes \in SUBSET Nat /\ Sizes # {}
  OBVIOUS
<1>2. PICK k \in Sizes : \A l \in Sizes : k <= l
  <2> HIDE DEF Sizes
  <2> QED
    BY <1>1, LeastNumber
<1>3. PICK t \in T : size[t] = k
  BY <1>2
<1>4. \A u \in T : size[t] <= size[u]
  BY <1>2, <1>3
<1> QED
  BY <1>3, <1>4

(* What is left when numbers are laid out in rows of z, z even: two of the *)
(* same place are of the same parity, and are the same when less than z    *)
(* apart.                                                                  *)
LEMMA Remainders ==
  ASSUME NEW z \in Nat, z > 0, z % 2 = 0, NEW d \in Int, NEW e \in Int
  PROVE  /\ d % z \in 0..z - 1
         /\ d % z = e % z => d % 2 = e % 2
         /\ d % z = e % z /\ d - e < z /\ e - d < z => d = e
<1> DEFINE q == d \div z  r == e \div z
<1>1. /\ d % z \in 0..z - 1 /\ q \in Int /\ d = z * q + (d % z)
      /\ e % z \in 0..z - 1 /\ r \in Int /\ e = z * r + (e % z)
  OBVIOUS
<1> DEFINE t == q - r  half == z \div 2
<1>2. t \in Int /\ half \in Nat /\ z = 2 * half
  BY <1>1
<1>3. ASSUME d % z = e % z PROVE d - e = z * t /\ d - e = 2 * (half * t) /\ half * t \in Int
  <2> HIDE DEF q, r
  <2>1. d - e = z * q - z * r
    BY <1>1, <1>3
  <2>2. z * q - z * r = z * t
    BY <1>1
  <2>3. z * t = 2 * (half * t) /\ half * t \in Int
    BY <1>2
  <2> QED
    BY <2>1, <2>2, <2>3
<1> HIDE DEF q, r, t, half
<1>4. ASSUME d % z = e % z PROVE d % 2 = e % 2
  BY <1>3, <1>4
<1>5. ASSUME d % z = e % z, d - e < z, e - d < z PROVE d = e
  <2>1. z * t < z /\ -(z * t) < z
    BY <1>2, <1>3, <1>5
  <2>2. t >= 1 => z * t >= z
    BY <1>2
  <2>3. t <= -1 => z * t <= -z
    BY <1>2
  <2>4. t = 0
    BY <1>2, <2>1, <2>2, <2>3
  <2> QED
    BY <1>3, <1>5, <2>4
<1> QED
  BY <1>1, <1>4, <1>5

(* A function that steps through S until it stops, and is then known. *)
Stepped(f, S, Stops, step, value) ==
  f = [s \in S |-> IF s \in Stops THEN value[s] ELSE f[step[s]]]

LEMMA StepFunction ==
  ASSUME NEW S, NEW Stops \in SUBSET S, NEW step, \A s \in S \ Stops : step[s] \in S, NEW value
  PROVE  \E f : Stepped(f, S, Stops, step, value)
<1> DEFINE
    ClosedBy(T) == \A v \in T : v \notin Stops => step[v] \in T
    Onward(u) == {v \in S : \A T \in SUBSET S : u \in T /\ ClosedBy(T) => v \in T}
    Ends(u) == {v \in Onward(u) : v \in Stops}
    end == [u \in S |-> value[CHOOSE v : v \in Ends(u)]]
<1>1. ASSUME NEW u \in S
      PROVE  u \in Onward(u) /\ ClosedBy(Onward(u)) /\ Onward(u) \in SUBSET S
  <2>1. u \in Onward(u) /\ Onward(u) \in SUBSET S
    OBVIOUS
  <2>2. ASSUME NEW v \in Onward(u), v \notin Stops PROVE step[v] \in Onward(u)
    <3>1. step[v] \in S
      BY <2>2
    <3>2. ASSUME NEW T \in SUBSET S, u \in T, ClosedBy(T) PROVE step[v] \in T
      BY <2>2, <3>2
    <3> QED
      BY <3>1, <3>2
  <2> QED
    BY <2>1, <2>2
<1>2. ASSUME NEW u \in Stops
      PROVE  end[u] = value[u]
  <2>1. ClosedBy({u}) /\ {u} \in SUBSET S
    BY <1>2
  <2>2. Onward(u) \subseteq {u}
    BY <2>1
  <2>3. u \in Onward(u)
    BY <1>1
  <2> HIDE DEF Onward
  <2>4. Ends(u) = {u}
    BY <1>2, <2>2, <2>3
  <2> HIDE DEF Ends
  <2>5. (CHOOSE v : v \in Ends(u)) = u
    BY <2>4
  <2> QED
    BY <2>5
<1>3. ASSUME NEW u \in S, u \notin Stops
      PROVE  end[u] = end[step[u]]
  <2> DEFINE s == step[u]
  <2>1. s \in S
    BY <1>3
  <2>2. Onward(s) \subseteq Onward(u)
    BY <1>3
  <2>3. Onward(u) \subseteq {u} \cup Onward(s)
    <3> DEFINE T == {u} \cup Onward(s)
    <3>1. T \in SUBSET S
      OBVIOUS
    <3>2. ClosedBy(T)
      BY <1>1, <2>1
    <3> HIDE DEF ClosedBy, s
    <3> QED
      BY <3>1, <3>2
  <2> HIDE DEF Onward, s
  <2>4. Ends(u) = Ends(s)
    BY <1>3, <2>2, <2>3
  <2> HIDE DEF Ends
  <2>5. end[u] = value[CHOOSE v : v \in Ends(u)]
    OBVIOUS
  <2>6. end[s] = value[CHOOSE v : v \in Ends(s)]
    BY <2>1
  <2>7. end[u] = end[s]
    BY <2>4, <2>5, <2>6
  <2> QED
    BY <2>7 DEF s
<1>4. \A u \in S : end[u] = IF u \in Stops THEN value[u] ELSE end[step[u]]
  <2> HIDE DEF end
  <2> QED
    BY <1>2, <1>3
<1>5. end = [u \in S |-> end[u]]
  OBVIOUS
<1> HIDE DEF end
<1>6. end = [s \in S |-> IF s \in Stops THEN value[s] ELSE end[step[s]]]
  BY <1>4, <1>5
<1> QED
  BY <1>6 DEF Stepped

-----------------------------------------------------------------------------
(* Paths.  A path from <<0, 0>> goes right or down for the cost of one, or *)
(* to both for nothing where E allows it: Leads(E, x, y, h) when one leads *)
(* to <<x, y>> for h.                                                      *)

Points == Nat \X Nat \X Nat

In(E, x, y) == <<x, y>> \in E
At(T, x, y, h) == <<x, y, h>> \in T

PathSet(E, T) ==
  /\ At(T, 0, 0, 0)
  /\ \A x, y, h \in Nat :
       At(T, x, y, h) =>
         /\ At(T, x + 1, y, h + 1)
         /\ At(T, x, y + 1, h + 1)
         /\ In(E, x, y) => At(T, x + 1, y + 1, h)

Leads(E, x, y, h) == \A T \in SUBSET Points : PathSet(E, T) => At(T, x, y, h)

LEMMA PathSteps ==
  ASSUME NEW E
  PROVE  /\ Leads(E, 0, 0, 0)
         /\ \A x, y, h \in Nat :
              Leads(E, x, y, h) =>
                /\ Leads(E, x + 1, y, h + 1)
                /\ Leads(E, x, y + 1, h + 1)
                /\ In(E, x, y) => Leads(E, x + 1, y + 1, h)
<1>1. Leads(E, 0, 0, 0)
  BY DEF Leads, PathSet
<1>2. ASSUME NEW x \in Nat, NEW y \in Nat, NEW h \in Nat, Leads(E, x, y, h)
      PROVE  /\ Leads(E, x + 1, y, h + 1)
             /\ Leads(E, x, y + 1, h + 1)
             /\ In(E, x, y) => Leads(E, x + 1, y + 1, h)
  <2>1. ASSUME NEW T \in SUBSET Points, PathSet(E, T)
        PROVE  /\ At(T, x + 1, y, h + 1)
               /\ At(T, x, y + 1, h + 1)
               /\ In(E, x, y) => At(T, x + 1, y + 1, h)
    <3>1. At(T, x, y, h)
      BY <1>2, <2>1 DEF Leads
    <3> QED
      BY <2>1, <3>1 DEF PathSet
  <2> QED
    BY <2>1 DEF Leads
<1> QED
  BY <1>1, <1>2

(* What holds at the start and along every step holds wherever a path     *)
(* leads.                                                                  *)
LEMMA PathInduction ==
  ASSUME NEW E, NEW T \in SUBSET Points, PathSet(E, T),
         NEW x, NEW y, NEW h, Leads(E, x, y, h)
  PROVE  At(T, x, y, h)
BY DEF Leads

(* How a path may have got where it is. *)
LEMMA PathInverse ==
  ASSUME NEW E, NEW x \in Nat, NEW y \in Nat, NEW h \in Nat, Leads(E, x, y, h)
  PROVE  \/ x = 0 /\ y = 0 /\ h = 0
         \/ x > 0 /\ h > 0 /\ Leads(E, x - 1, y, h - 1)
         \/ y > 0 /\ h > 0 /\ Leads(E, x, y - 1, h - 1)
         \/ x > 0 /\ y > 0 /\ In(E, x - 1, y - 1) /\ Leads(E, x - 1, y - 1, h)
<1> DEFINE Comes(u, v, g) ==
             \/ u = 0 /\ v = 0 /\ g = 0
             \/ u > 0 /\ g > 0 /\ Leads(E, u - 1, v, g - 1)
             \/ v > 0 /\ g > 0 /\ Leads(E, u, v - 1, g - 1)
             \/ u > 0 /\ v > 0 /\ In(E, u - 1, v - 1) /\ Leads(E, u - 1, v - 1, g)
           T == {p \in Points : Leads(E, p[1], p[2], p[3]) /\ Comes(p[1], p[2], p[3])}
<1>1. \A u, v, g \in Nat : At(T, u, v, g) <=> Leads(E, u, v, g) /\ Comes(u, v, g)
  <2> HIDE DEF Comes
  <2> QED
    BY DEF At, Points
<1>2. T \in SUBSET Points
  OBVIOUS
<1> HIDE DEF T
<1>3. At(T, 0, 0, 0)
  BY <1>1, PathSteps
<1>4. ASSUME NEW u \in Nat, NEW v \in Nat, NEW g \in Nat, At(T, u, v, g)
      PROVE  /\ At(T, u + 1, v, g + 1)
             /\ At(T, u, v + 1, g + 1)
             /\ In(E, u, v) => At(T, u + 1, v + 1, g)
  <2>1. Leads(E, u, v, g)
    BY <1>1, <1>4
  <2>2. /\ Leads(E, u + 1, v, g + 1)
        /\ Leads(E, u, v + 1, g + 1)
        /\ In(E, u, v) => Leads(E, u + 1, v + 1, g)
    BY <2>1, PathSteps
  <2>3. u + 1 > 0 /\ v + 1 > 0 /\ g + 1 > 0 /\ (u + 1) - 1 = u /\ (v + 1) - 1 = v /\ (g + 1) - 1 = g
    OBVIOUS
  <2>4. Comes(u + 1, v, g + 1) /\ Comes(u, v + 1, g + 1) /\ (In(E, u, v) => Comes(u + 1, v + 1, g))
    BY <2>1, <2>3, Zenon
  <2> HIDE DEF Comes
  <2> QED
    BY <1>1, <2>2, <2>4
<1>5. PathSet(E, T)
  BY <1>3, <1>4 DEF PathSet
<1>6. At(T, x, y, h)
  BY <1>2, <1>5, PathInduction
<1> QED
  BY <1>1, <1>6

(* A path costs at least what the two coordinates differ by and at most    *)
(* their sum; one for nothing goes straight along the diagonal.            *)
LEMMA PathBounds ==
  ASSUME NEW E, NEW x \in Nat, NEW y \in Nat, NEW h \in Nat, Leads(E, x, y, h)
  PROVE  /\ x - y <= h /\ y - x <= h /\ h <= x + y
         /\ h % 2 = (x + y) % 2
         /\ h = 0 => x = y /\ \A t \in 0..x - 1 : In(E, t, t)
<1> DEFINE Good(u, v, g) ==
             /\ u - v <= g /\ v - u <= g /\ g <= u + v
             /\ g % 2 = (u + v) % 2
             /\ g = 0 => u = v /\ \A t \in 0..u - 1 : In(E, t, t)
           T == {p \in Points : Good(p[1], p[2], p[3])}
<1>1. \A u, v, g \in Nat : At(T, u, v, g) <=> Good(u, v, g)
  <2> HIDE DEF Good
  <2> QED
    BY DEF At, Points
<1>2. T \in SUBSET Points
  OBVIOUS
<1> HIDE DEF T
<1>3. At(T, 0, 0, 0)
  BY <1>1
<1>4. ASSUME NEW u \in Nat, NEW v \in Nat, NEW g \in Nat, At(T, u, v, g)
      PROVE  /\ At(T, u + 1, v, g + 1)
             /\ At(T, u, v + 1, g + 1)
             /\ In(E, u, v) => At(T, u + 1, v + 1, g)
  <2>1. Good(u, v, g)
    BY <1>1, <1>4
  <2>2. Good(u + 1, v, g + 1) /\ Good(u, v + 1, g + 1)
    BY <2>1
  <2>3. In(E, u, v) => Good(u + 1, v + 1, g)
    <3>1. ASSUME In(E, u, v), g = 0, NEW t \in 0..u PROVE In(E, t, t)
      BY <2>1, <3>1
    <3> QED
      BY <2>1, <3>1
  <2> HIDE DEF Good
  <2> QED
    BY <1>1, <2>2, <2>3
<1>5. PathSet(E, T)
  BY <1>3, <1>4 DEF PathSet
<1>6. At(T, x, y, h)
  BY <1>2, <1>5, PathInduction
<1> QED
  BY <1>1, <1>6

(* A path may go straight on from where it is. *)
LEMMA PathStraight ==
  ASSUME NEW E, NEW x \in Nat, NEW y \in Nat, NEW h \in Nat, Leads(E, x, y, h),
         NEW d \in Nat
  PROVE  Leads(E, x + d, y, h + d) /\ Leads(E, x, y + d, h + d)
<1> DEFINE T == {t \in Nat : Leads(E, x + t, y, h + t) /\ Leads(E, x, y + t, h + t)}
<1>1. 0 \in T
  BY x + 0 = x /\ y + 0 = y /\ h + 0 = h
<1>2. ASSUME NEW t \in T PROVE t + 1 \in T
  <2>1. Leads(E, (x + t) + 1, y, (h + t) + 1) /\ Leads(E, x, (y + t) + 1, (h + t) + 1)
    <3>1. x + t \in Nat /\ y + t \in Nat /\ h + t \in Nat
      OBVIOUS
    <3> QED
      BY <1>2, <3>1, PathSteps
  <2>2. /\ (x + t) + 1 = x + (t + 1) /\ (y + t) + 1 = y + (t + 1) /\ (h + t) + 1 = h + (t + 1)
    OBVIOUS
  <2> QED
    BY <2>1, <2>2
<1>3. T = Nat
  <2> HIDE DEF T
  <2>1. T \in SUBSET Nat
    BY DEF T
  <2> QED
    BY <1>1, <1>2, <2>1, Climb
<1> QED
  BY <1>3

LEMMA PathDiagonal ==
  ASSUME NEW E, NEW x \in Nat, NEW y \in Nat, NEW h \in Nat, Leads(E, x, y, h),
         NEW d \in Nat, \A t \in 0..d - 1 : In(E, x + t, y + t)
  PROVE  Leads(E, x + d, y + d, h)
<1> DEFINE T == {t \in Nat : t <= d => Leads(E, x + t, y + t, h)}
<1>1. 0 \in T
  BY x + 0 = x /\ y + 0 = y
<1>2. ASSUME NEW t \in T PROVE t + 1 \in T
  <2> SUFFICES ASSUME t + 1 <= d PROVE Leads(E, x + (t + 1), y + (t + 1), h)
    OBVIOUS
  <2>1. In(E, x + t, y + t) /\ Leads(E, x + t, y + t, h) /\ x + t \in Nat /\ y + t \in Nat
    BY <1>2
  <2>2. Leads(E, (x + t) + 1, (y + t) + 1, h)
    BY <2>1, PathSteps
  <2>3. (x + t) + 1 = x + (t + 1) /\ (y + t) + 1 = y + (t + 1)
    OBVIOUS
  <2> QED
    BY <2>2, <2>3
<1>3. T = Nat
  <2> HIDE DEF T
  <2>1. T \in SUBSET Nat
    BY DEF T
  <2> QED
    BY <1>1, <1>2, <2>1, Climb
<1> QED
  BY <1>3

(* What E holds beyond where a path ends does not matter to it. *)
LEMMA PathWithin ==
  ASSUME NEW E, NEW x \in Nat, NEW y \in Nat, NEW h \in Nat, Leads(E, x, y, h),
         NEW F, \A u, v \in Nat : u < x /\ v < y /\ In(E, u, v) => In(F, u, v)
  PROVE  Leads(F, x, y, h)
<1> DEFINE T == {p \in Points : p[1] <= x /\ p[2] <= y => Leads(F, p[1], p[2], p[3])}
<1>1. \A u, v, g \in Nat : At(T, u, v, g) <=> (u <= x /\ v <= y => Leads(F, u, v, g))
  BY DEF At, Points
<1>2. T \in SUBSET Points
  OBVIOUS
<1> HIDE DEF T
<1>3. PathSet(E, T)
  <2>1. At(T, 0, 0, 0)
    BY <1>1, PathSteps
  <2>2. ASSUME NEW u \in Nat, NEW v \in Nat, NEW g \in Nat, At(T, u, v, g)
        PROVE  /\ At(T, u + 1, v, g + 1)
               /\ At(T, u, v + 1, g + 1)
               /\ In(E, u, v) => At(T, u + 1, v + 1, g)
    <3>1. u <= x /\ v <= y =>
            /\ Leads(F, u + 1, v, g + 1)
            /\ Leads(F, u, v + 1, g + 1)
            /\ In(F, u, v) => Leads(F, u + 1, v + 1, g)
      BY <1>1, <2>2, PathSteps
    <3>2. In(E, u, v) /\ u + 1 <= x /\ v + 1 <= y => In(F, u, v)
      OBVIOUS
    <3> QED
      BY <1>1, <3>1, <3>2
  <2> QED
    BY <2>1, <2>2 DEF PathSet
<1>4. At(T, x, y, h)
  BY <1>2, <1>3, PathInduction
<1> QED
  BY <1>1, <1>4

(* One step back along the diagonal costs no more. *)
LEMMA PathBack ==
  ASSUME NEW E, NEW x \in Nat, NEW y \in Nat, NEW h \in Nat, Leads(E, x, y, h), x > 0, y > 0
  PROVE  \E g \in 0..h : Leads(E, x - 1, y - 1, g)
<1> DEFINE Good(u, v, c) ==
             Leads(E, u, v, c) /\ (u > 0 /\ v > 0 => \E g \in 0..c : Leads(E, u - 1, v - 1, g))
           T == {p \in Points : Good(p[1], p[2], p[3])}
<1>1. \A u, v, c \in Nat : At(T, u, v, c) <=> Good(u, v, c)
  <2> HIDE DEF Good
  <2> QED
    BY DEF At, Points
<1>2. T \in SUBSET Points
  OBVIOUS
<1> HIDE DEF T
<1>3. At(T, 0, 0, 0)
  BY <1>1, PathSteps
<1>4. ASSUME NEW u \in Nat, NEW v \in Nat, NEW c \in Nat, At(T, u, v, c)
      PROVE  /\ At(T, u + 1, v, c + 1)
             /\ At(T, u, v + 1, c + 1)
             /\ In(E, u, v) => At(T, u + 1, v + 1, c)
  <2>1. Good(u, v, c)
    BY <1>1, <1>4
  <2>2. /\ Leads(E, u + 1, v, c + 1) /\ Leads(E, u, v + 1, c + 1)
        /\ In(E, u, v) => Leads(E, u + 1, v + 1, c)
    BY <2>1, PathSteps
  <2>3. (u + 1) - 1 = u /\ (v + 1) - 1 = v
    OBVIOUS
  <2>4. u - v <= c /\ v - u <= c
    BY <2>1, PathBounds
  <2>5. ASSUME v > 0 PROVE \E g \in 0..c + 1 : Leads(E, u, v - 1, g)
    <3>1. CASE u > 0
      <4>1. PICK g \in 0..c : Leads(E, u - 1, v - 1, g)
        BY <2>1, <2>5, <3>1
      <4>2. Leads(E, (u - 1) + 1, v - 1, g + 1)
        <5>1. u - 1 \in Nat /\ v - 1 \in Nat /\ g \in Nat
          BY <2>5, <3>1
        <5> QED
          BY <4>1, <5>1, PathSteps
      <4>3. (u - 1) + 1 = u /\ g + 1 \in 0..c + 1
        OBVIOUS
      <4> QED
        BY <4>2, <4>3
    <3>2. CASE u = 0
      <4>1. Leads(E, 0, 0 + (v - 1), 0 + (v - 1))
        <5>1. v - 1 \in Nat /\ 0 \in Nat /\ Leads(E, 0, 0, 0)
          BY <2>5, PathSteps
        <5> QED
          BY <5>1, PathStraight
      <4>2. 0 + (v - 1) = v - 1 /\ v - 1 \in 0..c + 1
        BY <2>4, <2>5, <3>2
      <4> QED
        BY <3>2, <4>1, <4>2
    <3> QED
      BY <3>1, <3>2
  <2>6. ASSUME u > 0 PROVE \E g \in 0..c + 1 : Leads(E, u - 1, v, g)
    <3>1. CASE v > 0
      <4>1. PICK g \in 0..c : Leads(E, u - 1, v - 1, g)
        BY <2>1, <2>6, <3>1
      <4>2. Leads(E, u - 1, (v - 1) + 1, g + 1)
        <5>1. u - 1 \in Nat /\ v - 1 \in Nat /\ g \in Nat
          BY <2>6, <3>1
        <5> QED
          BY <4>1, <5>1, PathSteps
      <4>3. (v - 1) + 1 = v /\ g + 1 \in 0..c + 1
        OBVIOUS
      <4> QED
        BY <4>2, <4>3
    <3>2. CASE v = 0
      <4>1. Leads(E, 0 + (u - 1), 0, 0 + (u - 1))
        <5>1. u - 1 \in Nat /\ 0 \in Nat /\ Leads(E, 0, 0, 0)
          BY <2>6, PathSteps
        <5> QED
          BY <5>1, PathStraight
      <4>2. 0 + (u - 1) = u - 1 /\ u - 1 \in 0..c + 1
        BY <2>4, <2>6, <3>2
      <4> QED
        BY <3>2, <4>1, <4>2
    <3> QED
      BY <3>1, <3>2
  <2>7. Good(u + 1, v, c + 1)
    BY <2>2, <2>3, <2>5
  <2>8. Good(u, v + 1, c + 1)
    BY <2>2, <2>3, <2>6
  <2>9. In(E, u, v) => Good(u + 1, v + 1, c)
    <3>1. c \in 0..c /\ Leads(E, u, v, c)
      BY <2>1
    <3> QED
      BY <2>2, <2>3, <3>1
  <2> HIDE DEF Good
  <2> QED
    BY <1>1, <2>7, <2>8, <2>9
<1>5. PathSet(E, T)
  BY <1>3, <1>4 DEF PathSet
<1>6. At(T, x, y, h)
  BY <1>2, <1>5, PathInduction
<1> QED
  BY <1>1, <1>6

LEMMA PathBackTo ==
  ASSUME NEW E, NEW x \in Nat, NEW y \in Nat, NEW h \in Nat, Leads(E, x, y, h),
         NEW d \in Nat, d <= x, d <= y
  PROVE  \E g \in 0..h : Leads(E, x - d, y - d, g)
<1> DEFINE T == {t \in Nat : t <= d => \E g \in 0..h : Leads(E, x - t, y - t, g)}
<1>1. 0 \in T
  BY x - 0 = x /\ y - 0 = y /\ h \in 0..h
<1>2. ASSUME NEW t \in T PROVE t + 1 \in T
  <2> SUFFICES ASSUME t + 1 <= d PROVE \E g \in 0..h : Leads(E, x - (t + 1), y - (t + 1), g)
    OBVIOUS
  <2>1. PICK g \in 0..h : Leads(E, x - t, y - t, g)
    BY <1>2
  <2>2. x - t \in Nat /\ y - t \in Nat /\ x - t > 0 /\ y - t > 0 /\ g \in Nat
    OBVIOUS
  <2>3. PICK f \in 0..g : Leads(E, (x - t) - 1, (y - t) - 1, f)
    BY <2>1, <2>2, PathBack
  <2>4. (x - t) - 1 = x - (t + 1) /\ (y - t) - 1 = y - (t + 1) /\ f \in 0..h
    OBVIOUS
  <2> QED
    BY <2>3, <2>4
<1>3. T = Nat
  <2> HIDE DEF T
  <2>1. T \in SUBSET Nat
    BY DEF T
  <2> QED
    BY <1>1, <1>2, <2>1, Climb
<1>4. d \in T
  BY <1>3
<1> QED
  BY <1>4

(* E allows nothing outside n and m. *)
Bounded(E, n, m) == \A x, y \in Nat : In(E, x, y) => x < n /\ y < m

(* Out there every step of a path is paid for. *)
LEMMA PathOutside ==
  ASSUME NEW E, NEW n \in Nat, NEW m \in Nat, Bounded(E, n, m),
         NEW x \in Nat, NEW y \in Nat, NEW h \in Nat, Leads(E, x, y, h)
  PROVE  /\ x > n => h > 0 /\ Leads(E, x - 1, y, h - 1)
         /\ y > m => h > 0 /\ Leads(E, x, y - 1, h - 1)
<1> DEFINE Good(u, v, c) ==
             /\ Leads(E, u, v, c)
             /\ u > n => c > 0 /\ Leads(E, u - 1, v, c - 1)
             /\ v > m => c > 0 /\ Leads(E, u, v - 1, c - 1)
           T == {p \in Points : Good(p[1], p[2], p[3])}
<1>1. \A u, v, c \in Nat : At(T, u, v, c) <=> Good(u, v, c)
  <2> HIDE DEF Good
  <2> QED
    BY DEF At, Points
<1>2. T \in SUBSET Points
  OBVIOUS
<1> HIDE DEF T
<1>3. At(T, 0, 0, 0)
  BY <1>1, PathSteps
<1>4. ASSUME NEW u \in Nat, NEW v \in Nat, NEW c \in Nat, At(T, u, v, c)
      PROVE  /\ At(T, u + 1, v, c + 1)
             /\ At(T, u, v + 1, c + 1)
             /\ In(E, u, v) => At(T, u + 1, v + 1, c)
  <2>1. Good(u, v, c)
    BY <1>1, <1>4
  <2>2. /\ Leads(E, u + 1, v, c + 1) /\ Leads(E, u, v + 1, c + 1)
        /\ In(E, u, v) => Leads(E, u + 1, v + 1, c) /\ u < n /\ v < m
    BY <2>1, PathSteps DEF Bounded
  <2>3. (u + 1) - 1 = u /\ (v + 1) - 1 = v /\ (c + 1) - 1 = c
    OBVIOUS
  <2>4. ASSUME u > n PROVE Leads(E, u - 1, v + 1, c)
    <3>1. Leads(E, u - 1, v + 1, (c - 1) + 1)
      <4>1. u - 1 \in Nat /\ c - 1 \in Nat /\ Leads(E, u - 1, v, c - 1)
        BY <2>1, <2>4
      <4> QED
        BY <4>1, PathSteps
    <3> QED
      BY <2>1, <2>4, <3>1, (c - 1) + 1 = c
  <2>5. ASSUME v > m PROVE Leads(E, u + 1, v - 1, c)
    <3>1. Leads(E, u + 1, v - 1, (c - 1) + 1)
      <4>1. v - 1 \in Nat /\ c - 1 \in Nat /\ Leads(E, u, v - 1, c - 1)
        BY <2>1, <2>5
      <4> QED
        BY <4>1, PathSteps
    <3> QED
      BY <2>1, <2>5, <3>1, (c - 1) + 1 = c
  <2>6. Good(u + 1, v, c + 1)
    BY <2>1, <2>2, <2>3, <2>5
  <2>7. Good(u, v + 1, c + 1)
    BY <2>1, <2>2, <2>3, <2>4
  <2>8. In(E, u, v) => Good(u + 1, v + 1, c)
    BY <2>2
  <2> HIDE DEF Good
  <2> QED
    BY <1>1, <2>6, <2>7, <2>8
<1>5. PathSet(E, T)
  BY <1>3, <1>4 DEF PathSet
<1>6. At(T, x, y, h)
  BY <1>2, <1>5, PathInduction
<1> QED
  BY <1>1, <1>6

LEMMA PathOutsideTo ==
  ASSUME NEW E, NEW n \in Nat, NEW m \in Nat, Bounded(E, n, m),
         NEW x \in Nat, NEW y \in Nat, NEW h \in Nat, Leads(E, x, y, h)
  PROVE  /\ x >= n => x - n <= h /\ Leads(E, n, y, h - (x - n))
         /\ y >= m => y - m <= h /\ Leads(E, x, m, h - (y - m))
<1> DEFINE T == {t \in Nat : /\ x - t >= n => t <= h /\ Leads(E, x - t, y, h - t)
                             /\ y - t >= m => t <= h /\ Leads(E, x, y - t, h - t)}
<1>1. 0 \in T
  BY x - 0 = x /\ y - 0 = y /\ h - 0 = h
<1>2. ASSUME NEW t \in T PROVE t + 1 \in T
  <2>1. ASSUME x - (t + 1) >= n PROVE t + 1 <= h /\ Leads(E, x - (t + 1), y, h - (t + 1))
    <3>1. t <= h /\ Leads(E, x - t, y, h - t) /\ x - t > n /\ x - t \in Nat /\ h - t \in Nat
      BY <1>2, <2>1
    <3>2. h - t > 0 /\ Leads(E, (x - t) - 1, y, (h - t) - 1)
      BY <3>1, PathOutside
    <3>3. (x - t) - 1 = x - (t + 1) /\ (h - t) - 1 = h - (t + 1)
      OBVIOUS
    <3> QED
      BY <3>2, <3>3
  <2>2. ASSUME y - (t + 1) >= m PROVE t + 1 <= h /\ Leads(E, x, y - (t + 1), h - (t + 1))
    <3>1. t <= h /\ Leads(E, x, y - t, h - t) /\ y - t > m /\ y - t \in Nat /\ h - t \in Nat
      BY <1>2, <2>2
    <3>2. h - t > 0 /\ Leads(E, x, (y - t) - 1, (h - t) - 1)
      BY <3>1, PathOutside
    <3>3. (y - t) - 1 = y - (t + 1) /\ (h - t) - 1 = h - (t + 1)
      OBVIOUS
    <3> QED
      BY <3>2, <3>3
  <2> QED
    BY <2>1, <2>2
<1>3. T = Nat
  <2> HIDE DEF T
  <2>1. T \in SUBSET Nat
    BY DEF T
  <2> QED
    BY <1>1, <1>2, <2>1, Climb
<1>4. ASSUME x >= n PROVE x - n <= h /\ Leads(E, n, y, h - (x - n))
  <2>1. x - n \in Nat /\ x - (x - n) = n
    BY <1>4
  <2>2. x - n \in T
    BY <1>3, <2>1
  <2> QED
    BY <2>1, <2>2
<1>5. ASSUME y >= m PROVE y - m <= h /\ Leads(E, x, m, h - (y - m))
  <2>1. y - m \in Nat /\ y - (y - m) = m
    BY <1>5
  <2>2. y - m \in T
    BY <1>3, <2>1
  <2> QED
    BY <2>1, <2>2
<1> QED
  BY <1>4, <1>5

-----------------------------------------------------------------------------
(* F allows from <<n, m>> backwards what E allows forwards. *)
Mirrors(E, F, n, m) ==
  \A x \in 0..n - 1, y \in 0..m - 1 : In(F, x, y) <=> In(E, (n - 1) - x, (m - 1) - y)

LEMMA PathJoin ==
  ASSUME NEW E, NEW F, NEW n \in Nat, NEW m \in Nat, Mirrors(E, F, n, m),
         NEW x \in 0..n, NEW y \in 0..m, NEW h \in Nat, NEW g \in Nat,
         Leads(E, x, y, h), Leads(F, n - x, m - y, g)
  PROVE  Leads(E, n, m, h + g)
<1> DEFINE Good(u, v, c) ==
             u <= n /\ v <= m => \A d \in Nat : Leads(E, n - u, m - v, d) => Leads(E, n, m, d + c)
           T == {p \in Points : Good(p[1], p[2], p[3])}
<1>1. \A u, v, c \in Nat : At(T, u, v, c) <=> Good(u, v, c)
  <2> HIDE DEF Good
  <2> QED
    BY DEF At, Points
<1>2. T \in SUBSET Points
  OBVIOUS
<1> HIDE DEF T
<1>3. At(T, 0, 0, 0)
  <2>1. n - 0 = n /\ m - 0 = m /\ \A d \in Nat : d + 0 = d
    OBVIOUS
  <2>2. Good(0, 0, 0)
    BY <2>1, Zenon
  <2> HIDE DEF Good
  <2> QED
    BY <1>1, <2>2
<1>4. ASSUME NEW u \in Nat, NEW v \in Nat, NEW c \in Nat, At(T, u, v, c)
      PROVE  /\ At(T, u + 1, v, c + 1)
             /\ At(T, u, v + 1, c + 1)
             /\ In(F, u, v) => At(T, u + 1, v + 1, c)
  <2>1. Good(u, v, c)
    BY <1>1, <1>4
  <2>2. ASSUME u + 1 <= n, v <= m, NEW d \in Nat, Leads(E, n - (u + 1), m - v, d)
        PROVE  Leads(E, n, m, d + (c + 1))
    <3>1. n - (u + 1) \in Nat /\ m - v \in Nat
      BY <2>2
    <3>2. Leads(E, (n - (u + 1)) + 1, m - v, d + 1)
      BY <2>2, <3>1, PathSteps
    <3>3. (n - (u + 1)) + 1 = n - u /\ (d + 1) + c = d + (c + 1) /\ d + 1 \in Nat /\ u <= n
      BY <2>2
    <3>4. Leads(E, n, m, (d + 1) + c)
      BY <2>1, <2>2, <3>2, <3>3
    <3> QED
      BY <3>3, <3>4
  <2>3. ASSUME u <= n, v + 1 <= m, NEW d \in Nat, Leads(E, n - u, m - (v + 1), d)
        PROVE  Leads(E, n, m, d + (c + 1))
    <3>1. n - u \in Nat /\ m - (v + 1) \in Nat
      BY <2>3
    <3>2. Leads(E, n - u, (m - (v + 1)) + 1, d + 1)
      BY <2>3, <3>1, PathSteps
    <3>3. (m - (v + 1)) + 1 = m - v /\ (d + 1) + c = d + (c + 1) /\ d + 1 \in Nat /\ v <= m
      BY <2>3
    <3>4. Leads(E, n, m, (d + 1) + c)
      BY <2>1, <2>3, <3>2, <3>3
    <3> QED
      BY <3>3, <3>4
  <2>4. ASSUME In(F, u, v), u + 1 <= n, v + 1 <= m, NEW d \in Nat, Leads(E, n - (u + 1), m - (v + 1), d)
        PROVE  Leads(E, n, m, d + c)
    <3>1. n - (u + 1) \in Nat /\ m - (v + 1) \in Nat /\ (n - 1) - u = n - (u + 1) /\ (m - 1) - v = m - (v + 1)
      BY <2>4
    <3>2. In(E, n - (u + 1), m - (v + 1))
      <4>1. u \in 0..n - 1 /\ v \in 0..m - 1
        BY <2>4
      <4>2. In(E, (n - 1) - u, (m - 1) - v)
        BY <2>4, <4>1 DEF Mirrors
      <4> QED
        BY <3>1, <4>2
    <3>3. Leads(E, (n - (u + 1)) + 1, (m - (v + 1)) + 1, d)
      BY <2>4, <3>1, <3>2, PathSteps
    <3>4. (n - (u + 1)) + 1 = n - u /\ (m - (v + 1)) + 1 = m - v /\ u <= n /\ v <= m
      BY <2>4
    <3> QED
      BY <2>1, <3>3, <3>4
  <2>5. Good(u + 1, v, c + 1)
    BY <2>2
  <2>6. Good(u, v + 1, c + 1)
    BY <2>3
  <2>7. In(F, u, v) => Good(u + 1, v + 1, c)
    BY <2>4
  <2> HIDE DEF Good
  <2> QED
    BY <1>1, <2>5, <2>6, <2>7
<1>5. PathSet(F, T)
  BY <1>3, <1>4 DEF PathSet
<1>6. n - x \in Nat /\ m - y \in Nat /\ n - (n - x) = x /\ m - (m - y) = y /\ n - x <= n /\ m - y <= m
  OBVIOUS
<1>7. At(T, n - x, m - y, g)
  BY <1>2, <1>5, PathInduction
<1>8. Good(n - x, m - y, g)
  BY <1>1, <1>6, <1>7
<1> QED
  BY <1>6, <1>8

(* A path to <<n, m>> is, wherever it has cost h, a path there and one     *)
(* back from <<n, m>> to there.                                            *)
LEMMA PathCut ==
  ASSUME NEW E, NEW F, NEW n \in Nat, NEW m \in Nat, Mirrors(E, F, n, m),
         NEW cost \in Nat, Leads(E, n, m, cost), NEW h \in 0..cost
  PROVE  \E x \in 0..n, y \in 0..m : Leads(E, x, y, h) /\ Leads(F, n - x, m - y, cost - h)
<1> DEFINE Cut(d) == \E x \in 0..n, y \in 0..m : Leads(E, x, y, h) /\ Leads(F, n - x, m - y, d)
           Good(u, v, c) ==
             /\ Leads(E, u, v, c)
             /\ u <= n /\ v <= m /\ c >= h =>
                  \A g \in Nat : Leads(F, n - u, m - v, g) => Cut(g + (c - h))
           T == {p \in Points : Good(p[1], p[2], p[3])}
<1> HIDE DEF Cut
<1>1. \A u, v, c \in Nat : At(T, u, v, c) <=> Good(u, v, c)
  <2> HIDE DEF Good
  <2> QED
    BY DEF At, Points
<1>2. T \in SUBSET Points
  OBVIOUS
<1> HIDE DEF T
<1>3. ASSUME NEW u \in 0..n, NEW v \in 0..m, Leads(E, u, v, h), NEW g \in Nat, Leads(F, n - u, m - v, g)
      PROVE  Cut(g + (h - h))
  <2>1. g + (h - h) = g
    OBVIOUS
  <2>2. Cut(g)
    BY <1>3 DEF Cut
  <2> QED
    BY <2>1, <2>2
<1>4. At(T, 0, 0, 0)
  <2>1. Leads(E, 0, 0, 0)
    BY PathSteps
  <2>2. ASSUME 0 >= h, NEW g \in Nat, Leads(F, n - 0, m - 0, g) PROVE Cut(g + (0 - h))
    <3>1. h = 0 /\ 0 \in 0..n /\ 0 \in 0..m
      BY <2>2
    <3> QED
      BY <1>3, <2>1, <2>2, <3>1
  <2>3. Good(0, 0, 0)
    BY <2>1, <2>2
  <2> HIDE DEF Good
  <2> QED
    BY <1>1, <2>3
<1>5. ASSUME NEW u \in Nat, NEW v \in Nat, NEW c \in Nat, At(T, u, v, c)
      PROVE  /\ At(T, u + 1, v, c + 1)
             /\ At(T, u, v + 1, c + 1)
             /\ In(E, u, v) => At(T, u + 1, v + 1, c)
  <2>1. Good(u, v, c)
    BY <1>1, <1>5
  <2>2. /\ Leads(E, u + 1, v, c + 1) /\ Leads(E, u, v + 1, c + 1)
        /\ In(E, u, v) => Leads(E, u + 1, v + 1, c)
    BY <2>1, PathSteps
  <2>3. ASSUME u + 1 <= n, v <= m, c + 1 >= h, NEW g \in Nat, Leads(F, n - (u + 1), m - v, g)
        PROVE  Cut(g + ((c + 1) - h))
    <3>1. CASE h = c + 1
      <4>1. u + 1 \in 0..n /\ v \in 0..m
        BY <2>3
      <4> QED
        BY <1>3, <2>2, <2>3, <3>1, <4>1
    <3>2. CASE h # c + 1
      <4>1. n - (u + 1) \in Nat /\ m - v \in Nat
        BY <2>3
      <4>2. Leads(F, (n - (u + 1)) + 1, m - v, g + 1)
        BY <2>3, <4>1, PathSteps
      <4>3. /\ (n - (u + 1)) + 1 = n - u /\ (g + 1) + (c - h) = g + ((c + 1) - h)
            /\ g + 1 \in Nat /\ u <= n /\ c >= h
        BY <2>3, <3>2
      <4>4. Cut((g + 1) + (c - h))
        BY <2>1, <2>3, <4>2, <4>3
      <4> QED
        BY <4>3, <4>4
    <3> QED
      BY <3>1, <3>2
  <2>4. ASSUME u <= n, v + 1 <= m, c + 1 >= h, NEW g \in Nat, Leads(F, n - u, m - (v + 1), g)
        PROVE  Cut(g + ((c + 1) - h))
    <3>1. CASE h = c + 1
      <4>1. u \in 0..n /\ v + 1 \in 0..m
        BY <2>4
      <4> QED
        BY <1>3, <2>2, <2>4, <3>1, <4>1
    <3>2. CASE h # c + 1
      <4>1. n - u \in Nat /\ m - (v + 1) \in Nat
        BY <2>4
      <4>2. Leads(F, n - u, (m - (v + 1)) + 1, g + 1)
        BY <2>4, <4>1, PathSteps
      <4>3. /\ (m - (v + 1)) + 1 = m - v /\ (g + 1) + (c - h) = g + ((c + 1) - h)
            /\ g + 1 \in Nat /\ v <= m /\ c >= h
        BY <2>4, <3>2
      <4>4. Cut((g + 1) + (c - h))
        BY <2>1, <2>4, <4>2, <4>3
      <4> QED
        BY <4>3, <4>4
    <3> QED
      BY <3>1, <3>2
  <2>5. ASSUME In(E, u, v), u + 1 <= n, v + 1 <= m, c >= h, NEW g \in Nat,
               Leads(F, n - (u + 1), m - (v + 1), g)
        PROVE  Cut(g + (c - h))
    <3>1. /\ n - (u + 1) \in 0..n - 1 /\ m - (v + 1) \in 0..m - 1
          /\ (n - 1) - (n - (u + 1)) = u /\ (m - 1) - (m - (v + 1)) = v
      BY <2>5
    <3>2. In(F, n - (u + 1), m - (v + 1))
      BY <2>5, <3>1 DEF Mirrors
    <3>3. n - (u + 1) \in Nat /\ m - (v + 1) \in Nat
      BY <3>1
    <3>4. Leads(F, (n - (u + 1)) + 1, (m - (v + 1)) + 1, g)
      BY <2>5, <3>2, <3>3, PathSteps
    <3>5. (n - (u + 1)) + 1 = n - u /\ (m - (v + 1)) + 1 = m - v /\ u <= n /\ v <= m
      BY <2>5
    <3> QED
      BY <2>1, <2>5, <3>4, <3>5
  <2>6. Good(u + 1, v, c + 1)
    BY <2>2, <2>3
  <2>7. Good(u, v + 1, c + 1)
    BY <2>2, <2>4
  <2>8. In(E, u, v) => Good(u + 1, v + 1, c)
    BY <2>2, <2>5
  <2> HIDE DEF Good
  <2> QED
    BY <1>1, <2>6, <2>7, <2>8
<1>6. PathSet(E, T)
  BY <1>4, <1>5 DEF PathSet
<1>7. At(T, n, m, cost)
  BY <1>2, <1>6, PathInduction
<1>8. Good(n, m, cost)
  BY <1>1, <1>7
<1>9. Leads(F, n - n, m - m, 0)
  <2>1. n - n = 0 /\ m - m = 0
    OBVIOUS
  <2> QED
    BY <2>1, PathSteps
<1>10. Cut(0 + (cost - h))
  BY <1>8, <1>9
<1>11. 0 + (cost - h) = cost - h
  OBVIOUS
<1>12. Cut(cost - h)
  BY <1>10, <1>11
<1> QED
  BY <1>12 DEF Cut

LEMMA MirrorsBack ==
  ASSUME NEW E, NEW F, NEW n \in Nat, NEW m \in Nat, Mirrors(E, F, n, m)
  PROVE  Mirrors(F, E, n, m)
<1> SUFFICES ASSUME NEW x \in 0..n - 1, NEW y \in 0..m - 1
             PROVE  In(E, x, y) <=> In(F, (n - 1) - x, (m - 1) - y)
  BY DEF Mirrors
<1>1. /\ (n - 1) - x \in 0..n - 1 /\ (m - 1) - y \in 0..m - 1
      /\ (n - 1) - ((n - 1) - x) = x /\ (m - 1) - ((m - 1) - y) = y
  OBVIOUS
<1>2. In(F, (n - 1) - x, (m - 1) - y) <=> In(E, (n - 1) - ((n - 1) - x), (m - 1) - ((m - 1) - y))
  BY <1>1 DEF Mirrors
<1> QED
  BY <1>1, <1>2

(* All of the way costs the same from either end. *)
LEMMA PathMirror ==
  ASSUME NEW E, NEW F, NEW n \in Nat, NEW m \in Nat, Mirrors(E, F, n, m),
         NEW c \in Nat, Leads(F, n, m, c)
  PROVE  Leads(E, n, m, c)
<1>1. n - 0 = n /\ m - 0 = m /\ 0 + c = c /\ 0 \in 0..n /\ 0 \in 0..m
  OBVIOUS
<1>2. Leads(E, 0, 0, 0)
  BY PathSteps
<1>3. Leads(E, n, m, 0 + c)
  BY <1>1, <1>2, PathJoin
<1> QED
  BY <1>1, <1>3

(* Two paths from the two ends that end on the same diagonal, one at or    *)
(* beyond the other, when no way costs less than the two: both end within  *)
(* the piece, and one may be cut off where the other ends.                 *)
LEMMA PathsMeet ==
  ASSUME NEW E, NEW F, NEW n \in Nat, NEW m \in Nat, Mirrors(E, F, n, m),
         Bounded(E, n, m), Bounded(F, n, m),
         NEW x \in Nat, NEW y \in Nat, NEW h \in Nat, Leads(E, x, y, h),
         NEW u \in Nat, NEW v \in Nat, NEW g \in Nat, Leads(F, u, v, g),
         u - v = (n - m) - (x - y), x + u >= n,
         \A c \in Nat : Leads(E, n, m, c) => c >= h + g
  PROVE  /\ x <= n /\ y <= m
         /\ Leads(F, n - x, m - y, g)
         /\ Leads(E, n, m, h + g)
<1>1. u - v <= g /\ v - u <= g
  BY PathBounds
<1>2. ASSUME x > n PROVE FALSE
  <2>1. x - n <= h /\ Leads(E, n, y, h - (x - n)) /\ h - (x - n) \in Nat
    <3>1. x >= n
      BY <1>2
    <3>2. x - n <= h /\ Leads(E, n, y, h - (x - n))
      BY <3>1, PathOutsideTo
    <3> QED
      BY <3>1, <3>2
  <2>2. CASE y >= m
    <3>1. y - m <= h - (x - n) /\ Leads(E, n, m, (h - (x - n)) - (y - m))
      BY <2>1, <2>2, PathOutsideTo
    <3>2. (h - (x - n)) - (y - m) \in Nat /\ (h - (x - n)) - (y - m) < h + g
      BY <1>2, <2>2, <3>1
    <3> QED
      BY <3>1, <3>2
  <2>3. CASE y < m
    <3>1. Leads(E, n, y + (m - y), (h - (x - n)) + (m - y))
      <4>1. m - y \in Nat
        BY <2>3
      <4> QED
        BY <2>1, <4>1, PathStraight
    <3>2. y + (m - y) = m /\ (h - (x - n)) + (m - y) \in Nat /\ (h - (x - n)) + (m - y) < h + g
      BY <1>1, <1>2, <2>1, <2>3
    <3> QED
      BY <3>1, <3>2
  <2> QED
    BY <2>2, <2>3
<1>3. ASSUME x <= n, y > m PROVE FALSE
  <2>1. y - m <= h /\ Leads(E, x, m, h - (y - m)) /\ h - (y - m) \in Nat /\ n - x \in Nat
    <3>1. y >= m
      BY <1>3
    <3>2. y - m <= h /\ Leads(E, x, m, h - (y - m))
      BY <3>1, PathOutsideTo
    <3> QED
      BY <1>3, <3>1, <3>2
  <2>2. Leads(E, x + (n - x), m, (h - (y - m)) + (n - x))
    BY <2>1, PathStraight
  <2>3. x + (n - x) = n /\ (h - (y - m)) + (n - x) \in Nat /\ (h - (y - m)) + (n - x) < h + g
    BY <1>1, <1>3, <2>1
  <2> QED
    BY <2>2, <2>3
<1>4. x <= n /\ y <= m
  BY <1>2, <1>3
<1> DEFINE t == u - (n - x)
<1>5. /\ t \in Nat /\ t <= u /\ t <= v /\ u - t = n - x /\ v - t = m - y
      /\ x \in 0..n /\ y \in 0..m
  BY <1>4
<1> HIDE DEF t
<1>6. PICK f \in 0..g : Leads(F, u - t, v - t, f)
  BY <1>5, PathBackTo
<1>7. Leads(F, n - x, m - y, f)
  BY <1>5, <1>6
<1>8. Leads(E, n, m, h + f)
  <2>1. f \in Nat
    OBVIOUS
  <2> QED
    BY <1>5, <1>7, <2>1, PathJoin
<1>9. h + f >= h + g /\ f = g
  BY <1>8
<1> QED
  BY <1>4, <1>7, <1>8, <1>9

LEMMA PathSlope ==
  ASSUME NEW E, NEW x \in Nat, NEW y \in Nat, NEW h \in Nat, Leads(E, x, y, h)
  PROVE  x - y <= h /\ y - x <= h /\ h <= x + y
BY PathBounds

LEMMA PathParity ==
  ASSUME NEW E, NEW x \in Nat, NEW y \in Nat, NEW h \in Nat, Leads(E, x, y, h)
  PROVE  h % 2 = (x + y) % 2
<1>1. /\ x - y <= h /\ y - x <= h /\ h <= x + y
      /\ h % 2 = (x + y) % 2
      /\ h = 0 => x = y /\ \A t \in 0..x - 1 : In(E, t, t)
  BY PathBounds
<1> QED
  BY <1>1

-----------------------------------------------------------------------------
(* x is the furthest point on the diagonal k that a path reaches for h. *)
Furthest(E, h, k, x) ==
  /\ x \in Nat /\ x - k \in Nat /\ Leads(E, x, x - k, h)
  /\ \A w \in Nat : w - k \in Nat /\ Leads(E, w, w - k, h) => w <= x

(* A point beyond which the diagonal is not allowed, when whatever is      *)
(* further was come to along the diagonal.                                 *)
LEMMA FurthestEnd ==
  ASSUME NEW E, NEW h \in Nat, NEW k \in Int, NEW u \in Nat, u - k \in Nat, Leads(E, u, u - k, h),
         \A w \in Nat : w > u /\ w - k \in Nat /\ Leads(E, w, w - k, h) =>
           In(E, w - 1, (w - k) - 1) /\ Leads(E, w - 1, (w - k) - 1, h),
         NEW x \in Nat, u <= x, \A t \in u..x - 1 : In(E, t, t - k), ~In(E, x, x - k)
  PROVE  Furthest(E, h, k, x)
<1>1. x - k \in Nat
  OBVIOUS
<1>2. Leads(E, x, x - k, h)
  <2> DEFINE d == x - u
  <2>1. d \in Nat /\ u + d = x /\ (u - k) + d = x - k
    OBVIOUS
  <2>2. ASSUME NEW t \in 0..d - 1 PROVE In(E, u + t, (u - k) + t)
    <3>1. u + t \in u..x - 1 /\ (u - k) + t = (u + t) - k
      OBVIOUS
    <3> QED
      BY <3>1
  <2> HIDE DEF d
  <2>3. Leads(E, u + d, (u - k) + d, h)
    BY <2>1, <2>2, PathDiagonal
  <2> QED
    BY <2>1, <2>3
<1>3. ASSUME NEW w \in Nat, w - k \in Nat, Leads(E, w, w - k, h), w > x PROVE FALSE
  <2> DEFINE T == {v \in Nat : v > x /\ v - k \in Nat /\ Leads(E, v, v - k, h)}
  <2>1. PICK v \in T : \A s \in T : v <= s
    <3>1. T \in SUBSET Nat /\ T # {}
      BY <1>3
    <3> HIDE DEF T
    <3> QED
      BY <3>1, LeastNumber
  <2>2. In(E, v - 1, (v - k) - 1) /\ Leads(E, v - 1, (v - k) - 1, h)
    BY <2>1
  <2>3. (v - k) - 1 = (v - 1) - k /\ v - 1 \in Nat /\ (v - 1) - k \in Nat
    BY <1>1
  <2>4. v - 1 # x
    BY <2>2, <2>3
  <2>5. v - 1 \in T
    BY <2>2, <2>3, <2>4
  <2> QED
    BY <2>1, <2>5
<1> QED
  BY <1>1, <1>2, <1>3 DEF Furthest

(* From the furthest points of a round to one of the next: the path on the *)
(* diagonal k starts below or right of the further of its neighbours.      *)
LEMMA FurthestNext ==
  ASSUME NEW E, NEW h \in Nat, h > 0, NEW k \in -h..h,
         NEW below \in Nat, k # -h => Furthest(E, h - 1, k - 1, below),
         NEW above \in Nat, k # h => Furthest(E, h - 1, k + 1, above),
         NEW u, u = IF k = -h \/ (k # h /\ below < above) THEN above ELSE below + 1
  PROVE  /\ u \in Nat /\ u - k \in Nat /\ Leads(E, u, u - k, h)
         /\ \/ u - k > 0 /\ Leads(E, u, (u - k) - 1, h - 1)
            \/ u > 0 /\ Leads(E, u - 1, u - k, h - 1)
         /\ \A w \in Nat : w > u /\ w - k \in Nat /\ Leads(E, w, w - k, h) =>
              In(E, w - 1, (w - k) - 1) /\ Leads(E, w - 1, (w - k) - 1, h)
<1>0. h - 1 \in Nat /\ (h - 1) + 1 = h
  OBVIOUS
<1>1. /\ u \in Nat /\ u - k \in Nat /\ Leads(E, u, u - k, h)
      /\ \/ u - k > 0 /\ Leads(E, u, (u - k) - 1, h - 1)
         \/ u > 0 /\ Leads(E, u - 1, u - k, h - 1)
  <2>1. CASE k = -h \/ (k # h /\ below < above)
    <3>1. u = above /\ Furthest(E, h - 1, k + 1, above)
      BY <2>1
    <3>2. above - (k + 1) \in Nat /\ Leads(E, above, above - (k + 1), h - 1)
      BY <3>1 DEF Furthest
    <3>3. Leads(E, above, (above - (k + 1)) + 1, (h - 1) + 1)
      BY <1>0, <3>2, PathSteps
    <3>4. /\ (above - (k + 1)) + 1 = above - k /\ above - k \in Nat /\ above - k > 0
          /\ (above - k) - 1 = above - (k + 1)
      BY <3>2
    <3> QED
      BY <1>0, <3>1, <3>2, <3>3, <3>4
  <2>2. CASE ~(k = -h \/ (k # h /\ below < above))
    <3>1. u = below + 1 /\ Furthest(E, h - 1, k - 1, below)
      BY <2>2
    <3>2. below - (k - 1) \in Nat /\ Leads(E, below, below - (k - 1), h - 1)
      BY <3>1 DEF Furthest
    <3>3. Leads(E, below + 1, below - (k - 1), (h - 1) + 1)
      BY <1>0, <3>2, PathSteps
    <3>4. below - (k - 1) = (below + 1) - k /\ below + 1 > 0 /\ (below + 1) - 1 = below
      OBVIOUS
    <3> QED
      BY <1>0, <3>1, <3>2, <3>3, <3>4
  <2> QED
    BY <2>1, <2>2
<1>2. ASSUME NEW w \in Nat, w > u, w - k \in Nat, Leads(E, w, w - k, h)
      PROVE  In(E, w - 1, (w - k) - 1) /\ Leads(E, w - 1, (w - k) - 1, h)
  <2>1. ASSUME w > 0, Leads(E, w - 1, w - k, h - 1) PROVE FALSE
    <3>1. w - 1 \in Nat /\ w - k \in Nat /\ w - k = (w - 1) - (k - 1)
      BY <1>2, <2>1
    <3>2. k # -h
      <4>1. (w - k) - (w - 1) <= h - 1
        BY <1>0, <2>1, <3>1, PathSlope
      <4> QED
        BY <4>1
    <3>3. w - 1 <= below
      BY <2>1, <3>1, <3>2 DEF Furthest
    <3> QED
      BY <1>1, <1>2, <3>2, <3>3
  <2>2. ASSUME w - k > 0, Leads(E, w, (w - k) - 1, h - 1) PROVE FALSE
    <3>1. (w - k) - 1 = w - (k + 1) /\ w - (k + 1) \in Nat /\ (w - k) - 1 \in Nat
      BY <1>2, <2>2
    <3>2. k # h
      <4>1. w - ((w - k) - 1) <= h - 1
        BY <1>0, <2>2, <3>1, PathSlope
      <4> QED
        BY <4>1
    <3>3. w <= above
      BY <2>2, <3>1, <3>2 DEF Furthest
    <3> QED
      BY <1>1, <1>2, <3>2, <3>3
  <2> QED
    BY <1>2, <2>1, <2>2, PathInverse
<1> QED
  BY <1>1, <1>2

(* The first round: along the diagonal from the start. *)
LEMMA FurthestFirst ==
  ASSUME NEW E
  PROVE  /\ Leads(E, 0, 0 - 0, 0)
         /\ \A w \in Nat : w > 0 /\ w - 0 \in Nat /\ Leads(E, w, w - 0, 0) =>
              In(E, w - 1, (w - 0) - 1) /\ Leads(E, w - 1, (w - 0) - 1, 0)
<1>1. Leads(E, 0, 0 - 0, 0)
  BY PathSteps, 0 - 0 = 0
<1>2. ASSUME NEW w \in Nat, w > 0, Leads(E, w, w - 0, 0)
      PROVE  In(E, w - 1, (w - 0) - 1) /\ Leads(E, w - 1, (w - 0) - 1, 0)
  <2>1. w - 0 = w
    OBVIOUS
  <2>2. Leads(E, w, w, 0)
    BY <1>2, <2>1
  <2> QED
    BY <1>2, <2>1, <2>2, PathInverse
<1> QED
  BY <1>1, <1>2

-----------------------------------------------------------------------------
(* The diagonals a round goes over. *)

(* What a piece is when it is searched: neither of its sides is empty. *)
IsPiece(p) == p.n \in Nat /\ p.m \in Nat /\ p.n > 0 /\ p.m > 0 /\ p.z = ZOf(p.n, p.m)

Active(p, h) == {k \in KMin(p, h)..KMax(p, h) : k % 2 = h % 2}

LEMMA ActiveBounds ==
  ASSUME NEW p, IsPiece(p), NEW h \in 0..HMax(p)
  PROVE  /\ h \in Nat /\ KMin(p, h) \in Active(p, h) /\ KMax(p, h) \in Active(p, h)
         /\ -h <= KMin(p, h) /\ KMax(p, h) <= h /\ KMax(p, h) - KMin(p, h) < p.z
<1> DEFINE n == p.n  m == p.m
<1>1. n \in Nat /\ m \in Nat /\ n > 0 /\ m > 0 /\ p.z = IF n < m THEN 2 * (n + 1) ELSE 2 * (m + 1)
  BY DEF IsPiece, ZOf, Smaller
<1>2. 2 * h <= n + m + 1 /\ h \in Nat
  BY <1>1 DEF HMax, Parity
<1>3. /\ KMin(p, h) = IF h > m THEN h - 2 * m ELSE -h
      /\ KMax(p, h) = IF h > n THEN 2 * n - h ELSE h
  BY <1>1, <1>2 DEF KMin, KMax, Larger
<1> HIDE DEF n, m
<1>4. KMin(p, h) <= KMax(p, h) /\ -h <= KMin(p, h) /\ KMax(p, h) <= h /\ KMax(p, h) - KMin(p, h) < p.z
  BY <1>1, <1>2, <1>3
<1>5. KMin(p, h) \in Int /\ KMax(p, h) \in Int /\ KMin(p, h) % 2 = h % 2 /\ KMax(p, h) % 2 = h % 2
  BY <1>1, <1>2, <1>3
<1> QED
  BY <1>2, <1>4, <1>5 DEF Active

LEMMA ActiveNeighbours ==
  ASSUME NEW p, IsPiece(p), NEW h \in 0..HMax(p), NEW k \in Active(p, h)
  PROVE  /\ k \in Int /\ k \in -h..h /\ k % 2 = h % 2
         /\ h > 0 /\ k # -h => k - 1 \in Active(p, h - 1)
         /\ h > 0 /\ k # h => k + 1 \in Active(p, h - 1)
<1> DEFINE n == p.n  m == p.m
<1>1. n \in Nat /\ m \in Nat /\ n > 0 /\ m > 0
  BY DEF IsPiece
<1>2. 2 * h <= n + m + 1 /\ h \in Nat
  BY <1>1 DEF HMax, Parity
<1>3. \A g \in Nat : /\ KMin(p, g) = IF g > m THEN g - 2 * m ELSE -g
                     /\ KMax(p, g) = IF g > n THEN 2 * n - g ELSE g
  BY <1>1 DEF KMin, KMax, Larger
<1> HIDE DEF n, m
<1>4. k \in Int /\ k \in KMin(p, h)..KMax(p, h) /\ k % 2 = h % 2
  BY <1>1, <1>2, <1>3 DEF Active
<1>5. k \in -h..h
  BY <1>1, <1>2, <1>3, <1>4
<1>6. ASSUME h > 0 PROVE /\ h - 1 \in Nat
                         /\ KMin(p, h - 1) = IF h - 1 > m THEN (h - 1) - 2 * m ELSE -(h - 1)
                         /\ KMax(p, h - 1) = IF h - 1 > n THEN 2 * n - (h - 1) ELSE h - 1
  BY <1>2, <1>3, <1>6
<1>7. ASSUME h > 0, k # -h PROVE k - 1 \in Active(p, h - 1)
  <2>1. (k - 1) % 2 = (h - 1) % 2
    BY <1>2, <1>4
  <2>2. k # -h + 1
    BY <1>2, <1>4
  <2>3. k - 1 \in KMin(p, h - 1)..KMax(p, h - 1)
    BY <1>1, <1>2, <1>3, <1>4, <1>6, <1>7, <2>2
  <2> QED
    BY <2>1, <2>3 DEF Active
<1>8. ASSUME h > 0, k # h PROVE k + 1 \in Active(p, h - 1)
  <2>1. (k + 1) % 2 = (h - 1) % 2
    BY <1>2, <1>4
  <2>2. k # h - 1
    BY <1>2, <1>4
  <2>3. k + 1 \in KMin(p, h - 1)..KMax(p, h - 1)
    BY <1>1, <1>2, <1>3, <1>4, <1>6, <1>8, <2>2
  <2> QED
    BY <2>1, <2>3 DEF Active
<1> QED
  BY <1>4, <1>5, <1>7, <1>8

(* The diagonal that is looked at from the other end is one of that side's *)
(* last round.                                                             *)
LEMMA ActiveOpposite ==
  ASSUME NEW p, IsPiece(p), NEW h \in 0..HMax(p), NEW k \in Active(p, h)
  PROVE  LET kk == p.n - p.m - k
         IN  /\ Parity(p) = 1 /\ kk \in 1 - h..h - 1 => h > 0 /\ kk \in Active(p, h - 1)
             /\ Parity(p) = 0 /\ kk \in -h..h => kk \in Active(p, h)
<1> DEFINE n == p.n  m == p.m  kk == n - m - k
<1>1. n \in Nat /\ m \in Nat /\ n > 0 /\ m > 0
  BY DEF IsPiece
<1>2. h \in Nat /\ (Parity(p) = 1 => 2 * h <= n + m + 1) /\ (Parity(p) = 0 => 2 * h <= n + m)
  BY <1>1 DEF HMax, Parity
<1>3. \A g \in Nat : /\ KMin(p, g) = IF g > m THEN g - 2 * m ELSE -g
                     /\ KMax(p, g) = IF g > n THEN 2 * n - g ELSE g
  BY <1>1 DEF KMin, KMax, Larger
<1>4. Parity(p) = (n + m) % 2
  BY DEF Parity
<1> HIDE DEF n, m
<1>5. k \in Int /\ k \in KMin(p, h)..KMax(p, h) /\ k % 2 = h % 2
  BY <1>1, <1>2, <1>3 DEF Active
<1>6. ASSUME Parity(p) = 1, kk \in 1 - h..h - 1 PROVE h > 0 /\ kk \in Active(p, h - 1)
  <2>1. h > 0 /\ h - 1 \in Nat
    BY <1>1, <1>2, <1>5, <1>6
  <2>2. /\ KMin(p, h - 1) = IF h - 1 > m THEN (h - 1) - 2 * m ELSE -(h - 1)
        /\ KMax(p, h - 1) = IF h - 1 > n THEN 2 * n - (h - 1) ELSE h - 1
    BY <1>3, <2>1
  <2>3. kk % 2 = (h - 1) % 2
    BY <1>1, <1>2, <1>4, <1>5, <1>6
  <2>4. kk \in KMin(p, h - 1)..KMax(p, h - 1)
    BY <1>1, <1>2, <1>3, <1>5, <1>6, <2>2
  <2> QED
    BY <2>1, <2>3, <2>4 DEF Active
<1>7. ASSUME Parity(p) = 0, kk \in -h..h PROVE kk \in Active(p, h)
  <2>1. kk % 2 = h % 2
    BY <1>1, <1>2, <1>4, <1>5, <1>7
  <2>2. kk \in KMin(p, h)..KMax(p, h)
    BY <1>1, <1>2, <1>3, <1>5, <1>7
  <2> QED
    BY <2>1, <2>2 DEF Active
<1> QED
  BY <1>6, <1>7 DEF n, m

(* Whatever point of the piece costs h is on one of the diagonals. *)
LEMMA ActiveReached ==
  ASSUME NEW p, IsPiece(p), NEW E, NEW h \in Nat,
         NEW x \in 0..p.n, NEW y \in 0..p.m, Leads(E, x, y, h)
  PROVE  x - y \in Active(p, h)
<1> DEFINE n == p.n  m == p.m
<1>1. n \in Nat /\ m \in Nat /\ x \in Nat /\ y \in Nat /\ x <= n /\ y <= m
  BY DEF IsPiece
<1>2. /\ KMin(p, h) = IF h > m THEN h - 2 * m ELSE -h
      /\ KMax(p, h) = IF h > n THEN 2 * n - h ELSE h
  BY <1>1 DEF KMin, KMax, Larger
<1> HIDE DEF n, m
<1>3. x - y <= h /\ y - x <= h /\ h <= x + y
  BY <1>1, PathSlope
<1>4. h % 2 = (x + y) % 2
  BY <1>1, PathParity
<1>5. (x - y) % 2 = h % 2
  BY <1>1, <1>4
<1>6. x - y \in KMin(p, h)..KMax(p, h)
  BY <1>1, <1>2, <1>3
<1> QED
  BY <1>5, <1>6 DEF Active

-----------------------------------------------------------------------------
(* The points of a piece, counted from either end, where the lines are     *)
(* equal.                                                                  *)
SameAt(A, B, p, back, x, y) ==
  IF back THEN Eq(A, B, p.i + p.n - 1 - x, p.j + p.m - 1 - y) ELSE Eq(A, B, p.i + x, p.j + y)

Sames(A, B, p, back) ==
  {q \in Nat \X Nat : q[1] < p.n /\ q[2] < p.m /\ SameAt(A, B, p, back, q[1], q[2])}

LEMMA InSames ==
  ASSUME NEW A, NEW B, NEW p, NEW back, NEW x \in Nat, NEW y \in Nat
  PROVE  In(Sames(A, B, p, back), x, y) <=> x < p.n /\ y < p.m /\ SameAt(A, B, p, back, x, y)
BY DEF In, Sames

LEMMA SamesBounded ==
  ASSUME NEW A, NEW B, NEW p, NEW back
  PROVE  Bounded(Sames(A, B, p, back), p.n, p.m)
BY InSames DEF Bounded

LEMMA SamesMirrored ==
  ASSUME NEW A, NEW B, NEW p, p.i \in Nat, p.j \in Nat, p.n \in Nat, p.m \in Nat
  PROVE  Mirrors(Sames(A, B, p, FALSE), Sames(A, B, p, TRUE), p.n, p.m)
<1> SUFFICES ASSUME NEW x \in 0..p.n - 1, NEW y \in 0..p.m - 1
             PROVE  In(Sames(A, B, p, TRUE), x, y) <=> In(Sames(A, B, p, FALSE), (p.n - 1) - x, (p.m - 1) - y)
  BY DEF Mirrors
<1> DEFINE u == (p.n - 1) - x  v == (p.m - 1) - y
<1>1. /\ x \in Nat /\ y \in Nat /\ x < p.n /\ y < p.m
      /\ u \in Nat /\ v \in Nat /\ u < p.n /\ v < p.m
      /\ p.i + p.n - 1 - x = p.i + u /\ p.j + p.m - 1 - y = p.j + v
  OBVIOUS
<1> HIDE DEF u, v
<1>2. SameAt(A, B, p, TRUE, x, y) <=> SameAt(A, B, p, FALSE, u, v)
  BY <1>1 DEF SameAt
<1>3. In(Sames(A, B, p, TRUE), x, y) <=> In(Sames(A, B, p, FALSE), u, v)
  BY <1>1, <1>2, InSames
<1> QED
  BY <1>3 DEF u, v

(* The snake from <<u, v>> is the longest there is. *)
LEMMA SnakeFacts ==
  ASSUME NEW A, NEW B, NEW p, p.n \in Nat, p.m \in Nat, NEW back \in BOOLEAN,
         NEW u \in Nat, NEW v \in Int, NEW x, x = SnakeEnd(A, B, p, back, u, v)
  PROVE  /\ x \in Nat /\ u <= x
         /\ v \in Nat =>
              /\ \A t \in u..x - 1 : In(Sames(A, B, p, back), t, v + t - u)
              /\ ~In(Sames(A, B, p, back), x, v + x - u)
<1> DEFINE E == Sames(A, B, p, back)
           On(t) == t < p.n /\ v + t - u < p.m /\ SameAt(A, B, p, back, t, v + t - u)
           S == 0..p.n
           Stops == {t \in S : ~On(t)}
           step == [t \in S |-> t + 1]
           value == [t \in S |-> t]
<1>1. ASSUME v \in Nat, NEW t \in Nat, u <= t PROVE In(E, t, v + t - u) <=> On(t)
  <2>1. v + t - u \in Nat
    BY <1>1
  <2> QED
    BY <2>1, InSames
<1>2. CASE u > p.n
  <2>1. x = u
    BY <1>2 DEF SnakeEnd
  <2>2. ~On(u)
    BY <1>2
  <2> HIDE DEF On
  <2>3. v \in Nat => ~In(E, u, v + u - u)
    BY <1>1, <2>2
  <2>4. x \in Nat /\ u <= x /\ u..x - 1 = {}
    BY <2>1
  <2> QED
    BY <2>1, <2>3, <2>4
<1>3. CASE u <= p.n
  <2> DEFINE Runs(f) == f = [t \in S |-> IF On(t) THEN f[t + 1] ELSE t]
             g == CHOOSE f : Runs(f)
  <2>1. x = g[u]
    <3>1. x = (CHOOSE f : f = [t \in S |-> IF On(t) THEN f[t + 1] ELSE t])[u]
      BY <1>3 DEF SnakeEnd, SameAt
    <3> QED
      BY <3>1
  <2>2. \A t \in S : On(t) => t + 1 \in S
    OBVIOUS
  <2> HIDE DEF On, S
  <2>3. \E f : Runs(f)
    <3>1. /\ Stops \in SUBSET S /\ \A t \in S \ Stops : step[t] \in S
          /\ \A t \in S : step[t] = t + 1 /\ value[t] = t /\ (t \in Stops <=> ~On(t))
      BY <2>2
    <3> HIDE DEF Stops, step, value
    <3>2. PICK f : Stepped(f, S, Stops, step, value)
      BY <3>1, StepFunction
    <3>3. \A t \in S : f[t] = IF On(t) THEN f[t + 1] ELSE t
      BY <3>1, <3>2 DEF Stepped
    <3>4. f = [t \in S |-> f[t]]
      BY <3>2 DEF Stepped
    <3>5. Runs(f)
      BY <3>3, <3>4
    <3> QED
      BY <3>5
  <2>4. Runs(g)
    <3> HIDE DEF Runs
    <3> QED
      BY <2>3, Zenon
  <2> HIDE DEF g
  <2>5. \A t \in S : g[t] = IF On(t) THEN g[t + 1] ELSE t
    BY <2>4
  <2> DEFINE Ends == {t \in Nat : u <= t /\ t \in S /\ ~On(t)}
  <2>6. p.n \in Ends
    BY <1>3 DEF S, On
  <2>7. PICK e \in Ends : \A t \in Ends : e <= t
    <3>1. Ends \in SUBSET Nat /\ Ends # {}
      BY <2>6
    <3> HIDE DEF Ends
    <3> QED
      BY <3>1, LeastNumber
  <2>8. \A t \in u..e - 1 : On(t) /\ t \in S
    <3> SUFFICES ASSUME NEW t \in u..e - 1 PROVE On(t) /\ t \in S
      OBVIOUS
    <3>1. t \in Nat /\ u <= t /\ t < e
      BY <2>7
    <3>2. t \in S
      BY <2>7, <3>1 DEF S
    <3> QED
      BY <2>7, <3>1, <3>2
  <2> DEFINE T == {t \in Nat : t <= e - u => g[e - t] = e}
  <2>9. T = Nat
    <3>1. 0 \in T
      BY <2>5, <2>7
    <3>2. ASSUME NEW t \in T PROVE t + 1 \in T
      <4> SUFFICES ASSUME t + 1 <= e - u PROVE g[e - (t + 1)] = e
        OBVIOUS
      <4>1. e - (t + 1) \in u..e - 1 /\ (e - (t + 1)) + 1 = e - t
        BY <2>7
      <4>2. g[e - (t + 1)] = g[e - t]
        BY <2>5, <2>8, <4>1
      <4> QED
        BY <4>2
    <3>3. T \in SUBSET Nat
      OBVIOUS
    <3> HIDE DEF T
    <3> QED
      BY <3>1, <3>2, <3>3, Climb
  <2>10. g[u] = e
    <3>1. e - u \in Nat /\ e - (e - u) = u
      BY <2>7
    <3>2. e - u \in T
      BY <2>9, <3>1
    <3> QED
      BY <3>1, <3>2
  <2>11. x = e /\ e \in Nat /\ u <= e /\ ~On(e)
    BY <2>1, <2>7, <2>10
  <2>12. ASSUME v \in Nat PROVE /\ \A t \in u..e - 1 : In(E, t, v + t - u)
                                /\ ~In(E, e, v + e - u)
    <3>1. \A t \in u..e - 1 : t \in Nat /\ u <= t
      OBVIOUS
    <3> QED
      BY <1>1, <2>8, <2>11, <2>12, <3>1
  <2> HIDE DEF E, Ends
  <2>13. v \in Nat => /\ \A t \in u..x - 1 : In(E, t, v + t - u)
                     /\ ~In(E, x, v + x - u)
    BY <2>11, <2>12
  <2> QED
    BY <2>11, <2>13 DEF E
<1> QED
  BY <1>2, <1>3

-----------------------------------------------------------------------------
(* The array a search keeps. *)

Entry(p, b, back, k) == b[(IF back THEN p.z ELSE 0) + (k % p.z)]

LEMMA PieceEven ==
  ASSUME NEW p, IsPiece(p)
  PROVE  p.z \in Nat /\ p.z > 0 /\ p.z % 2 = 0
<1> DEFINE w == Smaller(p.n, p.m) + 1
<1>1. w \in Nat /\ w > 0 /\ p.z = 2 * w
  BY DEF IsPiece, ZOf, Smaller
<1> HIDE DEF w
<1> QED
  BY <1>1

LEMMA EntryFacts ==
  ASSUME NEW p, IsPiece(p), NEW size \in Nat, size >= 2 * p.z, NEW b \in [0..size - 1 -> Nat],
         NEW back \in BOOLEAN, NEW k \in Int
  PROVE  /\ (IF back THEN p.z ELSE 0) + (k % p.z) \in 0..size - 1
         /\ Entry(p, b, back, k) \in Nat
         /\ Entry(p, b, TRUE, k) = b[p.z + (k % p.z)] /\ Entry(p, b, FALSE, k) = b[k % p.z]
<1>1. p.z \in Nat /\ p.z > 0 /\ p.z % 2 = 0
  BY PieceEven
<1>2. k % p.z \in 0..p.z - 1
  BY <1>1, Remainders
<1>3. k % p.z \in Int /\ 0 + (k % p.z) = k % p.z
  BY <1>2
<1>4. (IF back THEN p.z ELSE 0) + (k % p.z) \in 0..size - 1
  <2> DEFINE r == k % p.z  z == p.z
  <2>1. r \in 0..z - 1 /\ z \in Nat /\ size >= 2 * z /\ size \in Nat
    BY <1>1, <1>2
  <2> HIDE DEF r, z
  <2>2. z + r \in 0..size - 1 /\ 0 + r \in 0..size - 1
    BY <2>1
  <2>3. (IF back THEN z ELSE 0) + r \in 0..size - 1
    BY <2>2, Zenon
  <2> QED
    BY <2>3 DEF r, z
<1>5. Entry(p, b, back, k) \in Nat
  BY <1>4 DEF Entry
<1>6. Entry(p, b, TRUE, k) = b[p.z + (k % p.z)] /\ Entry(p, b, FALSE, k) = b[k % p.z]
  BY <1>3 DEF Entry
<1> QED
  BY <1>4, <1>5, <1>6

LEMMA EntryHalves ==
  ASSUME NEW p, IsPiece(p), NEW b, NEW k \in Int
  PROVE  Entry(p, b, TRUE, k) = b[p.z + (k % p.z)] /\ Entry(p, b, FALSE, k) = b[k % p.z]
<1>1. k % p.z \in 0..p.z - 1 /\ p.z \in Nat
  BY PieceEven, Remainders
<1>2. k % p.z \in Int /\ 0 + (k % p.z) = k % p.z
  BY <1>1
<1> QED
  BY <1>2 DEF Entry

(* c is b with the entry of k set to e: that leaves alone the other half,  *)
(* and in this one the diagonals of the other parity and those less than z *)
(* away.                                                                   *)
Put(p, b, back, k, e) == [b EXCEPT ![(IF back THEN p.z ELSE 0) + (k % p.z)] = e]

EntrySet(p, size, b, c, back, k, e) ==
  /\ c \in [0..size - 1 -> Nat]
  /\ Entry(p, c, back, k) = e
  /\ \A d \in Int, side \in BOOLEAN : side # back => Entry(p, c, side, d) = Entry(p, b, side, d)
  /\ \A d \in Int : d % 2 # k % 2 => Entry(p, c, back, d) = Entry(p, b, back, d)
  /\ \A d \in Int : d # k /\ d - k < p.z /\ k - d < p.z =>
       Entry(p, c, back, d) = Entry(p, b, back, d)

LEMMA EntryKept ==
  ASSUME NEW p, IsPiece(p), NEW size \in Nat, size >= 2 * p.z, NEW b \in [0..size - 1 -> Nat],
         NEW back \in BOOLEAN, NEW k \in Int, NEW e \in Nat,
         NEW c, c = Put(p, b, back, k, e)
  PROVE  EntrySet(p, size, b, c, back, k, e)
<1> DEFINE at(side, d) == (IF side THEN p.z ELSE 0) + (d % p.z)
<1>1. p.z \in Nat /\ p.z > 0 /\ p.z % 2 = 0
  BY PieceEven
<1>2. \A d \in Int, side \in BOOLEAN : at(side, d) \in 0..size - 1
  BY EntryFacts
<1>3. \A d \in Int : d % p.z \in 0..p.z - 1
  BY <1>1, Remainders
<1> DEFINE r(d) == d % p.z
<1>20. \A d : at(TRUE, d) = p.z + r(d) /\ at(FALSE, d) = 0 + r(d)
  OBVIOUS
<1>21. \A d \in Int : r(d) \in 0..p.z - 1
  BY <1>3
<1>22. \A d, side : at(side, d) = IF side THEN p.z + r(d) ELSE 0 + r(d)
  OBVIOUS
<1> HIDE DEF r, at
<1>4. \A d \in Int, side \in BOOLEAN : side # back => at(side, d) # at(back, k)
  <2>1. \A d \in Int : at(TRUE, d) # at(FALSE, k) /\ at(FALSE, d) # at(TRUE, k)
    <3> SUFFICES ASSUME NEW d \in Int PROVE at(TRUE, d) # at(FALSE, k) /\ at(FALSE, d) # at(TRUE, k)
      OBVIOUS
    <3>1. r(d) \in 0..p.z - 1 /\ r(k) \in 0..p.z - 1 /\ p.z \in Nat
      BY <1>1, <1>21
    <3>2. /\ at(TRUE, d) = p.z + r(d) /\ at(FALSE, d) = 0 + r(d)
          /\ at(TRUE, k) = p.z + r(k) /\ at(FALSE, k) = 0 + r(k)
      BY <1>20, Zenon
    <3>3. p.z + r(d) # 0 + r(k) /\ 0 + r(d) # p.z + r(k)
      <4> DEFINE x == r(d)  y == r(k)  z == p.z
      <4>1. x \in 0..z - 1 /\ y \in 0..z - 1 /\ z \in Nat
        BY <3>1
      <4> HIDE DEF x, y, z
      <4>2. x \in Int /\ y \in Int /\ x >= 0 /\ y >= 0 /\ x < z /\ y < z
        BY <4>1
      <4>3. z + x # 0 + y
        BY <4>1, <4>2
      <4>4. 0 + x # z + y
        BY <4>1, <4>2
      <4> QED
        BY <4>3, <4>4 DEF x, y, z
    <3> QED
      BY <3>2, <3>3, Zenon
  <2> SUFFICES ASSUME NEW d \in Int, NEW side \in BOOLEAN, side # back PROVE at(side, d) # at(back, k)
    OBVIOUS
  <2>2. CASE side = TRUE /\ back = FALSE
    BY <2>1, <2>2, Zenon
  <2>3. CASE side = FALSE /\ back = TRUE
    BY <2>1, <2>3, Zenon
  <2>4. (side = TRUE \/ side = FALSE) /\ (back = TRUE \/ back = FALSE)
    OBVIOUS
  <2>5. CASE side = TRUE /\ back = TRUE
    BY <2>5, Zenon
  <2>6. CASE side = FALSE /\ back = FALSE
    BY <2>6, Zenon
  <2> QED
    BY <2>2, <2>3, <2>4, <2>5, <2>6, Zenon
<1>5. ASSUME NEW d \in Int, at(back, d) = at(back, k) PROVE d % p.z = k % p.z
  <2>0. r(d) \in 0..p.z - 1 /\ r(k) \in 0..p.z - 1
    BY <1>21
  <2>1. r(d) \in Int /\ r(k) \in Int /\ p.z \in Int
    BY <1>1, <2>0
  <2>2. CASE back = TRUE
    <3>1. p.z + r(d) = p.z + r(k)
      BY <1>5, <1>20, <2>2, Zenon
    <3> QED
      BY <2>1, <3>1 DEF r
  <2>3. CASE back = FALSE
    <3>1. 0 + r(d) = 0 + r(k)
      BY <1>5, <1>20, <2>3, Zenon
    <3> QED
      BY <2>1, <3>1 DEF r
  <2> QED
    BY <2>2, <2>3, Zenon
<1>6. ASSUME NEW d \in Int, d % 2 # k % 2 PROVE at(back, d) # at(back, k)
  BY <1>1, <1>5, <1>6, Remainders
<1>7. ASSUME NEW d \in Int, d # k, d - k < p.z, k - d < p.z PROVE at(back, d) # at(back, k)
  BY <1>1, <1>5, <1>7, Remainders
<1>8. \A d, side : Entry(p, b, side, d) = b[at(side, d)] /\ Entry(p, c, side, d) = c[at(side, d)]
  BY <1>22 DEF Entry, at
<1>9. c = [b EXCEPT ![at(back, k)] = e]
  BY DEF at, Put
<1>10. at(back, k) \in 0..size - 1
  BY <1>2
<1>11. c \in [0..size - 1 -> Nat] /\ c[at(back, k)] = e
  BY <1>9, <1>10
<1>12. \A q \in 0..size - 1 : q # at(back, k) => c[q] = b[q]
  BY <1>9
<1>13. Entry(p, c, back, k) = e
  BY <1>8, <1>11
<1>14. \A d \in Int, side \in BOOLEAN : side # back => Entry(p, c, side, d) = Entry(p, b, side, d)
  <2> SUFFICES ASSUME NEW d \in Int, NEW side \in BOOLEAN, side # back
               PROVE Entry(p, c, side, d) = Entry(p, b, side, d)
    OBVIOUS
  <2>1. at(side, d) \in 0..size - 1 /\ at(side, d) # at(back, k)
    BY <1>2, <1>4, Zenon
  <2>2. c[at(side, d)] = b[at(side, d)]
    BY <1>12, <2>1, Zenon
  <2> QED
    BY <1>8, <2>2, Zenon
<1>15. \A d \in Int : at(back, d) # at(back, k) => Entry(p, c, back, d) = Entry(p, b, back, d)
  <2> SUFFICES ASSUME NEW d \in Int, at(back, d) # at(back, k)
               PROVE Entry(p, c, back, d) = Entry(p, b, back, d)
    OBVIOUS
  <2>1. at(back, d) \in 0..size - 1
    BY <1>2, Zenon
  <2>2. c[at(back, d)] = b[at(back, d)]
    BY <1>12, <2>1, Zenon
  <2> QED
    BY <1>8, <2>2, Zenon
<1> QED
  BY <1>6, <1>7, <1>11, <1>13, <1>14, <1>15 DEF EntrySet

-----------------------------------------------------------------------------
(* What a search knows. *)

Row(A, B, p, b, back, h) ==
  \A k \in Active(p, h) : Furthest(Sames(A, B, p, back), h, k, Entry(p, b, back, k))

RowTo(A, B, p, b, back, h, k) ==
  \A d \in Active(p, h) : d < k => Furthest(Sames(A, B, p, back), h, d, Entry(p, b, back, d))

(* The other end, and its last round that is done. *)
Other(s) == IF s.back THEN FALSE ELSE TRUE

Opposite(s) == IF s.back THEN s.h ELSE s.h - 1

(* Every way through the piece costs at least that much. *)
LeastCost(p, s) == IF Parity(p) = 0 THEN 2 * s.h ELSE IF s.back THEN 2 * s.h + 1 ELSE 2 * s.h - 1

(* No path of this round has met one from the other end. *)
Apart(p, s) ==
  (s.back <=> Parity(p) = 0) =>
    \A d \in Active(p, s.h) :
      d < s.k /\ p.n - p.m - d \in -Opposite(s)..Opposite(s) =>
        Entry(p, s.b, s.back, d) + Entry(p, s.b, Other(s), p.n - p.m - d) < p.n

SearchInv(A, B, p, size, s) ==
  /\ s \in Searches(size) /\ ~s.end /\ s.split = <<>>
  /\ s.h <= HMax(p) /\ s.k \in Active(p, s.h)
  /\ RowTo(A, B, p, s.b, s.back, s.h, s.k)
  /\ s.h > 0 => Row(A, B, p, s.b, s.back, s.h - 1)
  /\ s.back \/ s.h > 0 => Row(A, B, p, s.b, Other(s), Opposite(s))
  /\ s.h = 0 => Entry(p, s.b, TRUE, 1) = 0 /\ (~s.back => Entry(p, s.b, FALSE, 1) = 0)
  /\ \A c \in Nat : Leads(Sames(A, B, p, FALSE), p.n, p.m, c) => c >= LeastCost(p, s)
  /\ Apart(p, s)

Sized(p, size) == p.i \in Nat /\ p.j \in Nat /\ size \in Nat /\ size >= 2 * p.z

LEMMA SearchFacts ==
  ASSUME NEW p, IsPiece(p), NEW size, Sized(p, size), NEW s \in Searches(size), s.h <= HMax(p)
  PROVE  /\ s.h \in Nat /\ s.k \in Int /\ s.back \in BOOLEAN /\ s.b \in [0..size - 1 -> Nat]
         /\ size \in Nat /\ size >= 2 * p.z
         /\ HMax(p) \in Nat /\ s.h \in 0..HMax(p)
<1>1. s.h \in Nat /\ s.k \in Int /\ s.back \in BOOLEAN /\ s.b \in [0..size - 1 -> Nat]
  BY DEF Searches
<1>2. size \in Nat /\ size >= 2 * p.z
  BY DEF Sized
<1>3. HMax(p) \in Nat
  <2> DEFINE n == p.n  m == p.m
  <2>1. n \in Nat /\ m \in Nat /\ HMax(p) = (n + m + ((n + m) % 2)) \div 2
    BY DEF HMax, Parity, IsPiece
  <2> HIDE DEF n, m
  <2> QED
    BY <2>1
<1>4. s.h \in 0..HMax(p)
  BY <1>1, <1>3
<1> QED
  BY <1>1, <1>2, <1>3, <1>4

(* A probe finds the furthest point of its diagonal. *)
LEMMA ProbeReaches ==
  ASSUME NEW A, NEW B, NEW p, IsPiece(p), NEW size, Sized(p, size),
         NEW s, SearchInv(A, B, p, size, s),
         NEW u, u = StartOf(p, s), NEW x, x = SnakeEnd(A, B, p, s.back, u, u - s.k)
  PROVE  LET E == Sames(A, B, p, s.back)
         IN  /\ u \in Nat /\ u - s.k \in Nat /\ x \in Nat /\ u <= x
             /\ Leads(E, u, u - s.k, s.h)
             /\ s.h > 0 => \/ u - s.k > 0 /\ Leads(E, u, (u - s.k) - 1, s.h - 1)
                           \/ u > 0 /\ Leads(E, u - 1, u - s.k, s.h - 1)
             /\ s.h = 0 => u = 0
             /\ \A t \in u..x - 1 : In(E, t, t - s.k)
             /\ Furthest(E, s.h, s.k, x)
<1> DEFINE h == s.h  k == s.k  E == Sames(A, B, p, s.back)
           below == Entry(p, s.b, s.back, k - 1)
           above == Entry(p, s.b, s.back, k + 1)
<1>1. /\ h \in Nat /\ s.back \in BOOLEAN /\ s.b \in [0..size - 1 -> Nat] /\ size \in Nat /\ size >= 2 * p.z
      /\ h \in 0..HMax(p) /\ k \in Active(p, h)
  BY SearchFacts DEF SearchInv
<1>2. k \in Int /\ k \in -h..h
  BY <1>1, ActiveNeighbours
<1>3. below \in Nat /\ above \in Nat
  <2>1. k - 1 \in Int /\ k + 1 \in Int
    BY <1>2
  <2> HIDE DEF k
  <2> QED
    BY <1>1, <2>1, EntryFacts
<1>4. u = IF k = -h \/ (k # h /\ below < above) THEN above ELSE below + 1
  BY DEF StartOf, Entry
<1>5. /\ h > 0 /\ k # -h => Furthest(E, h - 1, k - 1, below)
      /\ h > 0 /\ k # h => Furthest(E, h - 1, k + 1, above)
  <2>1. h > 0 => Row(A, B, p, s.b, s.back, h - 1)
    BY DEF SearchInv
  <2>2. /\ h > 0 /\ k # -h => k - 1 \in Active(p, h - 1)
        /\ h > 0 /\ k # h => k + 1 \in Active(p, h - 1)
    BY <1>1, ActiveNeighbours
  <2> QED
    BY <2>1, <2>2 DEF Row
<1>6. h = 0 => k = 0 /\ above = 0
  <2>1. h = 0 => k + 1 = 1 /\ k = 0
    BY <1>2
  <2>2. h = 0 => Entry(p, s.b, s.back, 1) = 0
    BY <1>1 DEF SearchInv
  <2> QED
    BY <2>1, <2>2
<1> HIDE DEF h, k, E, below, above
<1>7. /\ u \in Nat /\ u - k \in Nat /\ Leads(E, u, u - k, h)
      /\ h > 0 => \/ u - k > 0 /\ Leads(E, u, (u - k) - 1, h - 1)
                  \/ u > 0 /\ Leads(E, u - 1, u - k, h - 1)
      /\ h = 0 => u = 0
      /\ \A w \in Nat : w > u /\ w - k \in Nat /\ Leads(E, w, w - k, h) =>
           In(E, w - 1, (w - k) - 1) /\ Leads(E, w - 1, (w - k) - 1, h)
  <2>1. CASE h > 0
    <3>1. /\ h \in Nat /\ k \in -h..h /\ below \in Nat /\ above \in Nat
          /\ k # -h => Furthest(E, h - 1, k - 1, below)
          /\ k # h => Furthest(E, h - 1, k + 1, above)
      BY <1>1, <1>2, <1>3, <1>5, <2>1
    <3>2. h # 0
      BY <2>1
    <3>3. /\ u \in Nat /\ u - k \in Nat /\ Leads(E, u, u - k, h)
          /\ \/ u - k > 0 /\ Leads(E, u, (u - k) - 1, h - 1)
             \/ u > 0 /\ Leads(E, u - 1, u - k, h - 1)
          /\ \A w \in Nat : w > u /\ w - k \in Nat /\ Leads(E, w, w - k, h) =>
               In(E, w - 1, (w - k) - 1) /\ Leads(E, w - 1, (w - k) - 1, h)
      BY <1>4, <2>1, <3>1, FurthestNext, Zenon
    <3> QED
      BY <3>2, <3>3
  <2>2. CASE h = 0
    <3>1. k = 0 /\ u = 0 /\ u - k \in Nat /\ u \in Nat
      <4>1. k = 0 /\ above = 0
        BY <1>6, <2>2
      <4>3. k = -h
        <5>1. h < 1
          BY <2>2
        <5> QED
          BY <1>1, <1>2, <5>1
      <4>2. u = above
        BY <1>4, <4>3
      <4> QED
        BY <4>1, <4>2
    <3> QED
      BY <2>2, <3>1, FurthestFirst
  <2> QED
    BY <1>1, <2>1, <2>2
<1>8. /\ x \in Nat /\ u <= x
      /\ \A t \in u..x - 1 : In(E, t, (u - k) + t - u)
      /\ ~In(E, x, (u - k) + x - u)
  <2>1. p.n \in Nat /\ p.m \in Nat /\ u - k \in Int /\ x = SnakeEnd(A, B, p, s.back, u, u - k)
    BY <1>2, <1>7 DEF IsPiece, k
  <2> DEFINE v == u - k
  <2>2. v \in Nat /\ v \in Int /\ x = SnakeEnd(A, B, p, s.back, u, v) /\ u \in Nat
    BY <1>7, <2>1
  <2> HIDE DEF v
  <2>3. /\ x \in Nat /\ u <= x
        /\ \A t \in u..x - 1 : In(E, t, v + t - u)
        /\ ~In(E, x, v + x - u)
    <3>1. E = Sames(A, B, p, s.back)
      BY DEF E
    <3>2. p.n \in Nat /\ p.m \in Nat /\ s.back \in BOOLEAN
      BY <1>1, <2>1
    <3>3. /\ x \in Nat /\ u <= x
          /\ v \in Nat =>
               /\ \A t \in u..x - 1 : In(Sames(A, B, p, s.back), t, v + t - u)
               /\ ~In(Sames(A, B, p, s.back), x, v + x - u)
      BY <2>2, <3>2, SnakeFacts
    <3> QED
      BY <2>2, <3>1, <3>3
  <2> QED
    BY <2>3 DEF v
<1>9. \A t \in Nat : (u - k) + t - u = t - k
  BY <1>2, <1>7
<1>10. (\A t \in u..x - 1 : In(E, t, t - k)) /\ ~In(E, x, x - k)
  <2>1. \A t \in u..x - 1 : t \in Nat
    BY <1>7
  <2> QED
    BY <1>8, <1>9, <2>1
<1>11. Furthest(E, h, k, x)
  BY <1>1, <1>2, <1>7, <1>8, <1>10, FurthestEnd
<1> QED
  BY <1>7, <1>8, <1>10, <1>11 DEF h, k, E

-----------------------------------------------------------------------------
(* When both ends have done their rounds and no two of their paths meet,   *)
(* no path through the piece costs what the two rounds do together.        *)
LEMMA RoundMissed ==
  ASSUME NEW p, IsPiece(p), NEW E, NEW F, Mirrors(E, F, p.n, p.m), NEW h \in Nat, NEW g \in Nat,
         NEW e, \A k \in Active(p, h) : Furthest(E, h, k, e[k]),
         NEW f, \A k \in Active(p, g) : Furthest(F, g, k, f[k]),
         \A k \in Active(p, h) : p.n - p.m - k \in -g..g => e[k] + f[p.n - p.m - k] < p.n
  PROVE  ~Leads(E, p.n, p.m, h + g)
<1> DEFINE n == p.n  m == p.m
<1> SUFFICES ASSUME Leads(E, n, m, h + g) PROVE FALSE
  OBVIOUS
<1>1. n \in Nat /\ m \in Nat
  BY DEF IsPiece
<1>2. h + g \in Nat /\ h \in 0..h + g /\ (h + g) - h = g
  OBVIOUS
<1>3. PICK x \in 0..n, y \in 0..m : Leads(E, x, y, h) /\ Leads(F, n - x, m - y, (h + g) - h)
  <2>1. Mirrors(E, F, n, m) /\ Leads(E, n, m, h + g)
    OBVIOUS
  <2> HIDE DEF n, m
  <2>2. \E x \in 0..n, y \in 0..m : Leads(E, x, y, h) /\ Leads(F, n - x, m - y, (h + g) - h)
    BY <1>1, <1>2, <2>1, PathCut
  <2> QED
    BY <2>2
<1>4. x \in 0..n /\ y \in 0..m /\ n - x \in 0..n /\ m - y \in 0..m /\ n - x \in Nat /\ m - y \in Nat
  BY <1>1
<1>5. Leads(E, x, y, h) /\ Leads(F, n - x, m - y, g)
  BY <1>2, <1>3
<1>6. x - y \in Active(p, h)
  BY <1>4, <1>5, ActiveReached
<1>7. (n - x) - (m - y) \in Active(p, g)
  BY <1>4, <1>5, ActiveReached
<1>8. (n - x) - (m - y) <= g /\ (m - y) - (n - x) <= g
  BY <1>4, <1>5, PathSlope
<1> HIDE DEF n, m
<1> DEFINE k == x - y  kk == n - m - k
<1>9. (n - x) - (m - y) = kk /\ kk \in -g..g /\ k \in Int /\ kk \in Int
  BY <1>1, <1>4, <1>8
<1>10. Furthest(E, h, k, e[k]) /\ Furthest(F, g, kk, f[kk])
  BY <1>6, <1>7, <1>9
<1>11. e[k] + f[kk] < n
  BY <1>6, <1>9 DEF n, m
<1>12. x - k = y /\ (n - x) - kk = m - y
  BY <1>1, <1>4
<1> HIDE DEF k, kk
<1>13. x <= e[k] /\ n - x <= f[kk] /\ e[k] \in Nat /\ f[kk] \in Nat
  BY <1>4, <1>5, <1>10, <1>12 DEF Furthest
<1> QED
  BY <1>1, <1>4, <1>11, <1>13

(* What a search knows when a path of its round is done. *)
Written(A, B, p, size, s) ==
  /\ s \in Searches(size) /\ ~s.end /\ s.split = <<>>
  /\ s.h <= HMax(p) /\ s.k \in Active(p, s.h)
  /\ \A d \in Active(p, s.h) : d <= s.k =>
       Furthest(Sames(A, B, p, s.back), s.h, d, Entry(p, s.b, s.back, d))
  /\ s.h > 0 => Row(A, B, p, s.b, s.back, s.h - 1)
  /\ s.back \/ s.h > 0 => Row(A, B, p, s.b, Other(s), Opposite(s))
  /\ s.h = 0 => Entry(p, s.b, TRUE, 1) = 0 /\ (~s.back => Entry(p, s.b, FALSE, 1) = 0)
  /\ \A c \in Nat : Leads(Sames(A, B, p, FALSE), p.n, p.m, c) => c >= LeastCost(p, s)
  /\ (s.back <=> Parity(p) = 0) =>
       \A d \in Active(p, s.h) :
         d <= s.k /\ p.n - p.m - d \in -Opposite(s)..Opposite(s) =>
           Entry(p, s.b, s.back, d) + Entry(p, s.b, Other(s), p.n - p.m - d) < p.n

LEMMA ActiveInts ==
  ASSUME NEW p, IsPiece(p), NEW h \in 0..HMax(p)
  PROVE  /\ h \in Nat /\ KMin(p, h) \in Int /\ KMax(p, h) \in Int
         /\ \A d \in Active(p, h) : d \in Int /\ d % 2 = h % 2 /\ KMin(p, h) <= d /\ d <= KMax(p, h)
<1>1. h \in Nat /\ KMin(p, h) \in Active(p, h) /\ KMax(p, h) \in Active(p, h)
  BY ActiveBounds
<1>2. \A d \in Active(p, h) : d \in Int /\ d % 2 = h % 2
  BY ActiveNeighbours
<1> QED
  BY <1>1, <1>2 DEF Active

LEMMA ProbeWrites ==
  ASSUME NEW A, NEW B, NEW p, IsPiece(p), NEW size, Sized(p, size),
         NEW s, SearchInv(A, B, p, size, s),
         NEW x, Furthest(Sames(A, B, p, s.back), s.h, s.k, x),
         NEW b, b = [s.b EXCEPT ![(IF s.back THEN p.z ELSE 0) + (s.k % p.z)] = x],
         ~Overlap(p, s, b, x)
  PROVE  Written(A, B, p, size, [s EXCEPT !.b = b])
<1> DEFINE h == s.h  k == s.k  back == s.back  t == [s EXCEPT !.b = b]
           E == Sames(A, B, p, s.back)
<1>1. /\ h \in Nat /\ back \in BOOLEAN /\ s.b \in [0..size - 1 -> Nat] /\ size \in Nat /\ size >= 2 * p.z
      /\ h \in 0..HMax(p) /\ k \in Active(p, h) /\ s \in Searches(size)
  BY SearchFacts DEF SearchInv
<1>2. k \in Int /\ k \in -h..h /\ k % 2 = h % 2
  BY <1>1, ActiveNeighbours
<1>21. HMax(p) \in Int
  BY SearchFacts DEF SearchInv
<1>22. h > 0 => h - 1 \in 0..HMax(p) /\ (h - 1) % 2 # k % 2
  <2> HIDE DEF h, k
  <2>1. h \in Int /\ h >= 0 /\ h <= HMax(p)
    BY <1>1, <1>21
  <2>2. h > 0 => h - 1 \in 0..HMax(p)
    BY <1>21, <2>1
  <2>3. (h - 1) % 2 # k % 2
    BY <1>2, <2>1
  <2> QED
    BY <2>2, <2>3
<1>3. x \in Nat
  BY DEF Furthest
<1>4. /\ b \in [0..size - 1 -> Nat]
      /\ Entry(p, b, back, k) = x
      /\ \A d \in Int, side \in BOOLEAN : side # back => Entry(p, b, side, d) = Entry(p, s.b, side, d)
      /\ \A d \in Int : d % 2 # k % 2 => Entry(p, b, back, d) = Entry(p, s.b, back, d)
      /\ \A d \in Int : d # k /\ d - k < p.z /\ k - d < p.z =>
           Entry(p, b, back, d) = Entry(p, s.b, back, d)
  <2> DEFINE old == s.b
  <2>1. b = Put(p, old, back, k, x)
    BY DEF Put
  <2>3. old \in [0..size - 1 -> Nat] /\ size \in Nat /\ size >= 2 * p.z /\ back \in BOOLEAN /\ k \in Int
    BY <1>1, <1>2
  <2> HIDE DEF back, k, old
  <2>2. EntrySet(p, size, old, b, back, k, x)
    BY <1>3, <2>1, <2>3, EntryKept
  <2> QED
    BY <2>2 DEF EntrySet, old
<1>5. /\ t \in Searches(size) /\ t.h = h /\ t.k = k /\ t.back = back /\ t.b = b
      /\ t.end = s.end /\ t.split = s.split
  BY <1>1, <1>4 DEF Searches
<1>6. ~t.end /\ t.split = <<>> /\ t.h <= HMax(p)
  BY <1>5 DEF SearchInv
<1>7. /\ KMax(p, h) - KMin(p, h) < p.z /\ p.z \in Nat
      /\ KMin(p, h) \in Int /\ KMax(p, h) \in Int
      /\ \A d \in Active(p, h) : d \in Int /\ d % 2 = h % 2 /\ KMin(p, h) <= d /\ d <= KMax(p, h)
  BY <1>1, ActiveBounds, ActiveInts, PieceEven
<1>8. \A d \in Active(p, h) : d # k => Entry(p, b, back, d) = Entry(p, s.b, back, d)
  <2> SUFFICES ASSUME NEW d \in Active(p, h), d # k PROVE Entry(p, b, back, d) = Entry(p, s.b, back, d)
    OBVIOUS
  <2>1. /\ d \in Int /\ KMin(p, h) <= d /\ d <= KMax(p, h)
        /\ KMin(p, h) <= k /\ k <= KMax(p, h)
    BY <1>1, <1>7
  <2>2. d - k < p.z /\ k - d < p.z
    BY <1>2, <1>7, <2>1
  <2> QED
    BY <1>4, <2>1, <2>2
<1>9. ASSUME NEW d \in Active(p, h), d <= k PROVE Furthest(E, h, d, Entry(p, b, back, d))
  <2>1. CASE d = k
    BY <1>4, <2>1
  <2>2. CASE d # k
    <3>1. d < k
      BY <1>2, <1>7, <1>9, <2>2
    <3>2. RowTo(A, B, p, s.b, s.back, s.h, s.k)
      BY DEF SearchInv
    <3>3. Furthest(E, h, d, Entry(p, s.b, back, d))
      BY <3>1, <3>2 DEF RowTo
    <3> QED
      BY <1>8, <2>2, <3>3
  <2> QED
    BY <2>1, <2>2
<1>10. h > 0 => Row(A, B, p, b, back, h - 1)
  <2> SUFFICES ASSUME h > 0 PROVE Row(A, B, p, b, back, h - 1)
    OBVIOUS
  <2>1. Row(A, B, p, s.b, back, h - 1)
    BY DEF SearchInv
  <2>2. \A d \in Active(p, h - 1) : d \in Int /\ d % 2 = (h - 1) % 2
    <3>1. h - 1 \in 0..HMax(p)
      BY <1>22
    <3> QED
      BY <3>1, ActiveInts
  <2>3. (h - 1) % 2 # k % 2
    BY <1>22
  <2>4. \A d \in Active(p, h - 1) : Entry(p, b, back, d) = Entry(p, s.b, back, d)
    BY <1>4, <2>2, <2>3
  <2> QED
    BY <2>1, <2>4 DEF Row
<1>11. Other(s) \in BOOLEAN /\ Other(s) # back
  BY <1>1 DEF Other
<1>12. Other(t) = Other(s) /\ Opposite(t) = Opposite(s)
  BY <1>5 DEF Other, Opposite
<1>13. \A d \in Int : Entry(p, b, Other(s), d) = Entry(p, s.b, Other(s), d)
  BY <1>4, <1>11
<1>14. (back \/ h > 0 => Opposite(s) \in 0..HMax(p)) /\ Opposite(s) \in Int
  <2>1. back = TRUE => Opposite(s) = h
    BY DEF Opposite
  <2>2. back = FALSE => Opposite(s) = h - 1
    BY DEF Opposite
  <2>3. CASE back = TRUE
    <3>1. Opposite(s) = h
      BY <2>1, <2>3
    <3>2. h \in Int /\ h \in 0..HMax(p)
      BY <1>1
    <3> QED
      BY <3>1, <3>2
  <2>4. CASE back = FALSE
    <3>1. Opposite(s) = h - 1 /\ h - 1 \in Int
      BY <1>1, <2>2, <2>4
    <3> QED
      BY <1>22, <2>4, <3>1
  <2> QED
    BY <1>1, <2>3, <2>4
<1>15. back \/ h > 0 => Row(A, B, p, b, Other(s), Opposite(s))
  <2> SUFFICES ASSUME back \/ h > 0 PROVE Row(A, B, p, b, Other(s), Opposite(s))
    OBVIOUS
  <2>1. Row(A, B, p, s.b, Other(s), Opposite(s))
    BY DEF SearchInv
  <2>2. \A d \in Active(p, Opposite(s)) : d \in Int
    BY <1>14, ActiveInts
  <2> QED
    BY <1>13, <2>1, <2>2 DEF Row
<1>16. h = 0 => Entry(p, b, TRUE, 1) = 0 /\ (~back => Entry(p, b, FALSE, 1) = 0)
  <2> SUFFICES ASSUME h = 0 PROVE Entry(p, b, TRUE, 1) = 0 /\ (~back => Entry(p, b, FALSE, 1) = 0)
    OBVIOUS
  <2>1. 1 % 2 # k % 2
    BY <1>2
  <2>2. \A side \in BOOLEAN : Entry(p, b, side, 1) = Entry(p, s.b, side, 1)
    BY <1>4, <2>1
  <2> QED
    BY <2>2 DEF SearchInv
<1>17. LeastCost(p, t) = LeastCost(p, s)
  BY <1>5 DEF LeastCost
<1>18. ASSUME back <=> Parity(p) = 0, NEW d \in Active(p, h), d <= k,
              p.n - p.m - d \in -Opposite(s)..Opposite(s)
       PROVE  Entry(p, b, back, d) + Entry(p, b, Other(s), p.n - p.m - d) < p.n
  <2> DEFINE kk == p.n - p.m - d
  <2>1. p.n \in Nat /\ p.m \in Nat /\ kk \in Int /\ d \in Int
    BY <1>7 DEF IsPiece
  <2>2. CASE d # k
    <3>1. d < k
      BY <1>2, <1>18, <2>1, <2>2
    <3>2. Entry(p, s.b, s.back, d) + Entry(p, s.b, Other(s), kk) < p.n
      BY <1>18, <3>1 DEF SearchInv, Apart
    <3> QED
      BY <1>8, <1>13, <2>1, <2>2, <3>2
  <2>3. CASE d = k
    <3>1. Entry(p, b, back, d) = x
      BY <1>4, <2>3
    <3>2. Entry(p, b, Other(s), kk) \in Nat
      BY <1>1, <1>4, <1>11, <2>1, EntryFacts
    <3>3. CASE back = TRUE
      <4>1. Parity(p) = 0 /\ Opposite(s) = s.h /\ Other(s) = FALSE
        BY <1>18, <3>3 DEF Opposite, Other
      <4>2. Entry(p, b, Other(s), kk) = b[kk % p.z]
        <5>1. Entry(p, b, FALSE, kk) = b[kk % p.z]
          BY <2>1, EntryHalves
        <5> QED
          BY <4>1, <5>1
      <4>3. ~(x + b[kk % p.z] >= p.n)
        BY <1>18, <2>3, <3>3, <4>1 DEF Overlap
      <4> HIDE DEF kk
      <4> QED
        BY <1>3, <2>1, <3>1, <3>2, <4>2, <4>3 DEF kk
    <3>4. CASE back = FALSE
      <4>1. Parity(p) = 1 /\ Opposite(s) = h - 1 /\ Other(s) = TRUE
        <5>1. Parity(p) # 0
          BY <1>18, <3>4
        <5> QED
          BY <2>1, <3>4, <5>1, SMTT(30) DEF Opposite, Other, Parity
      <4>2. Entry(p, b, Other(s), kk) = b[p.z + (kk % p.z)]
        <5>1. Entry(p, b, TRUE, kk) = b[p.z + (kk % p.z)]
          BY <2>1, EntryHalves
        <5> QED
          BY <4>1, <5>1
      <4>3. kk \in 1 - h..h - 1
        <5>1. kk \in -(h - 1)..h - 1
          BY <1>18, <4>1
        <5> QED
          BY <1>1, <2>1, <5>1
      <4>4. ~(x + b[p.z + (kk % p.z)] >= p.n)
        BY <2>3, <3>4, <4>1, <4>3 DEF Overlap
      <4> HIDE DEF kk
      <4> QED
        BY <1>3, <2>1, <3>1, <3>2, <4>2, <4>4 DEF kk
    <3> QED
      BY <1>1, <3>3, <3>4
  <2> QED
    BY <2>2, <2>3
<1>19. \A c \in Nat : Leads(Sames(A, B, p, FALSE), p.n, p.m, c) => c >= LeastCost(p, s)
  BY DEF SearchInv
<1> HIDE DEF h, k, back, t
<1>20. Written(A, B, p, size, t)
  BY <1>1, <1>5, <1>6, <1>9, <1>10, <1>12, <1>15, <1>16, <1>17, <1>18, <1>19 DEF Written, back
<1> QED
  BY <1>20 DEF t

(* What the way through a piece costs at least when this round is done. *)
CostAfter(p, s) ==
  IF Parity(p) = 0 THEN (IF s.back THEN 2 * s.h + 2 ELSE 2 * s.h) ELSE 2 * s.h + 1

LEMMA RoundDone ==
  ASSUME NEW A, NEW B, NEW p, IsPiece(p), NEW size, Sized(p, size),
         NEW s, Written(A, B, p, size, s), ~(s.k + 2 <= KMax(p, s.h))
  PROVE  /\ Row(A, B, p, s.b, s.back, s.h)
         /\ \A c \in Nat : Leads(Sames(A, B, p, FALSE), p.n, p.m, c) => c >= CostAfter(p, s)
<1> DEFINE h == s.h  k == s.k  n == p.n  m == p.m
           E == Sames(A, B, p, FALSE)  F == Sames(A, B, p, TRUE)
<1>1. /\ h \in Nat /\ s.back \in BOOLEAN /\ s.b \in [0..size - 1 -> Nat]
      /\ HMax(p) \in Nat /\ h \in 0..HMax(p) /\ k \in Active(p, h)
  BY SearchFacts DEF Written
<1>2. n \in Nat /\ m \in Nat /\ n > 0 /\ m > 0 /\ Mirrors(E, F, n, m) /\ Mirrors(F, E, n, m)
  <2>1. n \in Nat /\ m \in Nat /\ n > 0 /\ m > 0 /\ p.i \in Nat /\ p.j \in Nat
    BY DEF IsPiece, Sized
  <2>2. Mirrors(E, F, n, m)
    BY <2>1, SamesMirrored
  <2> HIDE DEF E, F, n, m
  <2> QED
    BY <2>1, <2>2, MirrorsBack
<1>3. \A d \in Active(p, h) : d <= k
  <2> SUFFICES ASSUME NEW d \in Active(p, h) PROVE d <= k
    OBVIOUS
  <2>1. d \in Int /\ d % 2 = h % 2 /\ d <= KMax(p, h) /\ KMax(p, h) \in Int
    BY <1>1, ActiveInts
  <2>2. k \in Int /\ k % 2 = h % 2
    BY <1>1, ActiveInts
  <2>3. ~(k + 2 <= KMax(p, h))
    OBVIOUS
  <2> HIDE DEF h, k
  <2>4. d < k + 2
    BY <2>1, <2>2, <2>3
  <2> QED
    BY <2>1, <2>2, <2>4
<1>4. Row(A, B, p, s.b, s.back, h)
  BY <1>3 DEF Row, Written
<1>5. \A c \in Nat : Leads(E, n, m, c) => c >= LeastCost(p, s)
  BY DEF Written
<1>6. \A c \in Nat : Leads(E, n, m, c) => c % 2 = (n + m) % 2
  <2> HIDE DEF E, n, m
  <2> QED
    BY <1>2, PathParity
<1>7. Parity(p) = (n + m) % 2 /\ (n + m) % 2 \in 0..1
  BY <1>2 DEF Parity
<1>8. (s.back <=> Parity(p) = 0) =>
        \A d \in Active(p, h) :
          p.n - p.m - d \in -Opposite(s)..Opposite(s) =>
            Entry(p, s.b, s.back, d) + Entry(p, s.b, Other(s), p.n - p.m - d) < p.n
  BY <1>3 DEF Written
<1> DEFINE e == [d \in Int |-> Entry(p, s.b, s.back, d)]
           f == [d \in Int |-> Entry(p, s.b, Other(s), d)]
<1>9. \A d \in Active(p, h) : d \in Int /\ p.n - p.m - d \in Int
  <2>1. \A d \in Active(p, h) : d \in Int
    BY <1>1, ActiveInts
  <2> QED
    BY <1>2, <2>1
<1>10. \A d \in Active(p, h) : Furthest(Sames(A, B, p, s.back), h, d, e[d])
  BY <1>4, <1>9 DEF Row
<1>11. (s.back <=> Parity(p) = 0) =>
         \A d \in Active(p, h) : p.n - p.m - d \in -Opposite(s)..Opposite(s) => e[d] + f[p.n - p.m - d] < p.n
  BY <1>8, <1>9
<1>12. CASE s.back = TRUE
  <2>1. Other(s) = FALSE /\ Opposite(s) = h
    BY <1>12 DEF Other, Opposite
  <2>2. CASE Parity(p) = 0
    <3>1. \A d \in Active(p, h) : Furthest(E, h, d, f[d])
      <4>1. Row(A, B, p, s.b, FALSE, h)
        BY <1>12, <2>1 DEF Written
      <4> QED
        BY <1>9, <2>1, <4>1 DEF Row
    <3>2. \A d \in Active(p, h) : Furthest(F, h, d, e[d])
      BY <1>10, <1>12
    <3>3. \A d \in Active(p, h) : p.n - p.m - d \in -h..h => e[d] + f[p.n - p.m - d] < p.n
      BY <1>11, <1>12, <2>1, <2>2
    <3>4. Mirrors(F, E, p.n, p.m)
      BY <1>2
    <3> HIDE DEF E, F, e, f, h
    <3>5. ~Leads(F, p.n, p.m, h + h)
      BY <1>1, <3>1, <3>2, <3>3, <3>4, RoundMissed
    <3>6. h + h \in Nat /\ p.n \in Nat /\ p.m \in Nat
      BY <1>1, <1>2
    <3>7. ~Leads(E, p.n, p.m, h + h)
      BY <3>4, <3>5, <3>6, PathMirror
    <3>8. LeastCost(p, s) = 2 * h /\ CostAfter(p, s) = 2 * h + 2
      BY <1>12, <2>2 DEF LeastCost, CostAfter, h
    <3>9. ASSUME NEW c \in Nat, Leads(E, n, m, c) PROVE c >= 2 * h + 2
      <4>1. c >= 2 * h /\ c % 2 = 0 /\ c # h + h
        BY <1>5, <1>6, <1>7, <2>2, <3>7, <3>8, <3>9
      <4> QED
        BY <1>1, <4>1
    <3> QED
      BY <1>4, <3>8, <3>9 DEF E, h
  <2>3. CASE Parity(p) # 0
    <3>1. LeastCost(p, s) = 2 * h + 1 /\ CostAfter(p, s) = 2 * h + 1
      BY <1>12, <2>3 DEF LeastCost, CostAfter
    <3> QED
      BY <1>4, <1>5, <3>1
  <2> QED
    BY <2>2, <2>3
<1>13. CASE s.back = FALSE
  <2>1. Other(s) = TRUE /\ Opposite(s) = h - 1
    BY <1>13 DEF Other, Opposite
  <2>2. CASE Parity(p) # 0
    <3>0. LeastCost(p, s) = 2 * h - 1 /\ CostAfter(p, s) = 2 * h + 1
      BY <1>13, <2>2 DEF LeastCost, CostAfter
    <3>1. CASE h > 0
      <4>1. Row(A, B, p, s.b, TRUE, h - 1)
        BY <2>1, <3>1 DEF Written
      <4>2. h - 1 \in 0..HMax(p)
        <5> HIDE DEF h
        <5>1. h \in Int /\ h <= HMax(p)
          BY <1>1
        <5> QED
          BY <1>1, <3>1, <5>1
      <4>3. \A d \in Active(p, h - 1) : d \in Int
        BY <4>2, ActiveInts
      <4>4. \A d \in Active(p, h - 1) : Furthest(F, h - 1, d, f[d])
        BY <2>1, <4>1, <4>3 DEF Row
      <4>5. \A d \in Active(p, h) : Furthest(E, h, d, e[d])
        BY <1>10, <1>13
      <4>6. \A d \in Active(p, h) : p.n - p.m - d \in -(h - 1)..h - 1 => e[d] + f[p.n - p.m - d] < p.n
        BY <1>11, <1>13, <2>1, <2>2
      <4>7. Mirrors(E, F, p.n, p.m) /\ h - 1 \in Nat
        <5>1. h - 1 \in Nat
          BY <1>1, <3>1
        <5> QED
          BY <1>2, <5>1
      <4> DEFINE g == h - 1
      <4>8. g \in Nat
        BY <4>7
      <4>9. ~Leads(E, p.n, p.m, h + g)
        <5> HIDE DEF E, F, e, f, h
        <5>1. /\ \A d \in Active(p, g) : Furthest(F, g, d, f[d])
              /\ \A d \in Active(p, h) : p.n - p.m - d \in -g..g => e[d] + f[p.n - p.m - d] < p.n
          BY <4>4, <4>6
        <5> HIDE DEF g
        <5> QED
          BY <1>1, <4>5, <4>7, <4>8, <5>1, RoundMissed
      <4> HIDE DEF E, F, e, f, h
      <4>10. ASSUME NEW c \in Nat, Leads(E, n, m, c) PROVE c >= 2 * h + 1
        <5>1. c >= 2 * h - 1 /\ c % 2 = 1 /\ c # h + (h - 1)
          BY <1>5, <1>6, <1>7, <2>2, <3>0, <4>9, <4>10
        <5> QED
          BY <1>1, <5>1, SMTT(30)
      <4> QED
        BY <1>4, <3>0, <4>10 DEF E, h
    <3>2. CASE ~(h > 0)
      <4> HIDE DEF E, h
      <4>1. ASSUME NEW c \in Nat, Leads(E, n, m, c) PROVE c >= 2 * h + 1
        <5>1. c % 2 = 1
          BY <1>6, <1>7, <2>2, <4>1
        <5>2. h < 1 /\ h \in Nat
          BY <1>1, <3>2
        <5>3. c > 0
          BY <5>1
        <5> QED
          BY <5>2, <5>3
      <4> QED
        BY <1>4, <3>0, <4>1 DEF E, h
    <3> QED
      BY <3>1, <3>2
  <2>3. CASE Parity(p) = 0
    <3>1. LeastCost(p, s) = 2 * h /\ CostAfter(p, s) = 2 * h
      BY <1>13, <2>3 DEF LeastCost, CostAfter
    <3> QED
      BY <1>4, <1>5, <3>1
  <2> QED
    BY <2>2, <2>3
<1> QED
  BY <1>1, <1>12, <1>13

(* A search only goes on to later rounds, and in a round to later          *)
(* diagonals.                                                              *)
Round(s) == 2 * s.h + (IF s.back THEN 1 ELSE 0)

Later(s, t) == Round(t) > Round(s) \/ (Round(t) = Round(s) /\ t.k > s.k)

LEMMA ProbeGoesOn ==
  ASSUME NEW A, NEW B, NEW p, IsPiece(p), NEW size, Sized(p, size),
         NEW s, Written(A, B, p, size, s), NEW t, t = NextProbe(p, s)
  PROVE  SearchInv(A, B, p, size, t) /\ Later(s, t)
<1> DEFINE h == s.h  k == s.k  n == p.n  m == p.m
           E == Sames(A, B, p, FALSE)  F == Sames(A, B, p, TRUE)
<1>1. /\ h \in Nat /\ s.back \in BOOLEAN /\ s.b \in [0..size - 1 -> Nat]
      /\ HMax(p) \in Nat /\ h \in 0..HMax(p) /\ h <= HMax(p) /\ k \in Active(p, h) /\ s \in Searches(size)
  BY SearchFacts DEF Written
<1>2. k \in Int /\ k % 2 = h % 2 /\ KMin(p, h) <= k /\ k <= KMax(p, h)
      /\ KMin(p, h) \in Int /\ KMax(p, h) \in Int
  BY <1>1, ActiveInts
<1>3. \A c \in Nat : Leads(E, n, m, c) => c >= LeastCost(p, s)
  BY DEF Written
<1>4. CASE s.k + 2 <= KMax(p, s.h)
  <2>1. t = [s EXCEPT !.k = @ + 2]
    BY <1>4 DEF NextProbe
  <2>2. /\ t.h = h /\ t.back = s.back /\ t.b = s.b /\ t.end = s.end /\ t.split = s.split
        /\ t.k = k + 2 /\ t \in Searches(size)
    <3>1. s.k + 2 \in Int
      BY <1>2
    <3>2. t = [s EXCEPT !.k = s.k + 2]
      BY <2>1
    <3> QED
      BY <1>1, <3>1, <3>2 DEF Searches
  <2>3. k + 2 \in Active(p, h)
    <3>1. k + 2 <= KMax(p, h)
      BY <1>4
    <3> HIDE DEF k, h
    <3>2. k + 2 \in KMin(p, h)..KMax(p, h) /\ (k + 2) % 2 = h % 2
      BY <1>2, <3>1
    <3> QED
      BY <3>2 DEF Active
  <2>4. \A d \in Active(p, h) : d < k + 2 => d <= k
    <3> SUFFICES ASSUME NEW d \in Active(p, h), d < k + 2 PROVE d <= k
      OBVIOUS
    <3>1. d \in Int /\ d % 2 = h % 2
      BY <1>1, ActiveInts
    <3> HIDE DEF k, h
    <3> QED
      BY <1>2, <3>1
  <2>5. Other(t) = Other(s) /\ Opposite(t) = Opposite(s) /\ LeastCost(p, t) = LeastCost(p, s)
    BY <2>2 DEF Other, Opposite, LeastCost
  <2>6. RowTo(A, B, p, t.b, t.back, t.h, t.k)
    BY <2>2, <2>4 DEF RowTo, Written
  <2>7. Apart(p, t)
    <3> SUFFICES ASSUME s.back <=> Parity(p) = 0, NEW d \in Active(p, h), d < k + 2,
                        p.n - p.m - d \in -Opposite(s)..Opposite(s)
                 PROVE  Entry(p, s.b, s.back, d) + Entry(p, s.b, Other(s), p.n - p.m - d) < p.n
      BY <2>2, <2>5, Zenon DEF Apart
    <3>1. d <= k
      BY <2>4
    <3> QED
      BY <3>1 DEF Written
  <2>8. Later(s, t)
    <3>1. Round(t) = Round(s)
      BY <2>2 DEF Round
    <3>2. t.k > s.k
      BY <1>2, <2>2
    <3> QED
      BY <3>1, <3>2 DEF Later
  <2>9. /\ ~t.end /\ t.split = <<>> /\ t.h <= HMax(p) /\ t.k \in Active(p, t.h)
        /\ t.h > 0 => Row(A, B, p, t.b, t.back, t.h - 1)
        /\ t.back \/ t.h > 0 => Row(A, B, p, t.b, Other(t), Opposite(t))
        /\ t.h = 0 => Entry(p, t.b, TRUE, 1) = 0 /\ (~t.back => Entry(p, t.b, FALSE, 1) = 0)
    BY <2>2, <2>3, <2>5 DEF Written
  <2> QED
    BY <1>3, <2>2, <2>5, <2>6, <2>7, <2>8, <2>9 DEF SearchInv
<1>5. CASE ~(s.k + 2 <= KMax(p, s.h))
  <2>1. /\ Row(A, B, p, s.b, s.back, h)
        /\ \A c \in Nat : Leads(E, n, m, c) => c >= CostAfter(p, s)
    BY <1>5, RoundDone
  <2>2. CASE s.back = FALSE
    <3>1. t = [s EXCEPT !.back = TRUE, !.k = KMin(p, s.h)]
      BY <1>5, <2>2 DEF NextProbe
    <3>2. /\ t.h = h /\ t.back = TRUE /\ t.b = s.b /\ t.end = s.end /\ t.split = s.split
          /\ t.k = KMin(p, h) /\ t \in Searches(size)
      BY <1>1, <1>2, <3>1 DEF Searches
    <3>3. Other(t) = FALSE /\ Opposite(t) = h /\ Other(s) = TRUE /\ Opposite(s) = h - 1
      BY <2>2, <3>2 DEF Other, Opposite
    <3>4. LeastCost(p, t) = CostAfter(p, s)
      BY <2>2, <3>2 DEF LeastCost, CostAfter
    <3>5. KMin(p, h) \in Active(p, h)
      BY <1>1, ActiveBounds
    <3>6. \A d \in Active(p, h) : ~(d < KMin(p, h))
      <4> SUFFICES ASSUME NEW d \in Active(p, h) PROVE ~(d < KMin(p, h))
        OBVIOUS
      <4>1. d \in Int /\ KMin(p, h) <= d
        BY <1>1, ActiveInts
      <4> HIDE DEF h
      <4> QED
        BY <1>2, <4>1
    <3>7. RowTo(A, B, p, t.b, t.back, t.h, t.k) /\ Apart(p, t)
      BY <3>2, <3>6 DEF RowTo, Apart
    <3>8. /\ t.h > 0 => Row(A, B, p, t.b, t.back, t.h - 1)
          /\ Row(A, B, p, t.b, Other(t), Opposite(t))
          /\ t.h = 0 => Entry(p, t.b, TRUE, 1) = 0
      BY <2>1, <2>2, <3>2, <3>3 DEF Written
    <3>9. Later(s, t)
      <4>1. Round(t) = 2 * h + 1 /\ Round(s) = 2 * h + 0
        BY <2>2, <3>2 DEF Round
      <4> QED
        BY <1>1, <4>1 DEF Later
    <3>10. ~t.end /\ t.split = <<>> /\ t.h <= HMax(p) /\ t.k \in Active(p, t.h)
      BY <3>2, <3>5 DEF Written
    <3> QED
      BY <2>1, <3>2, <3>4, <3>7, <3>8, <3>9, <3>10 DEF SearchInv
  <2>3. CASE s.back = TRUE
    <3>1. s.h < HMax(p)
      <4>1. n \in Nat /\ m \in Nat /\ HMax(p) = (n + m + Parity(p)) \div 2 /\ Parity(p) = (n + m) % 2
        BY DEF IsPiece, HMax, Parity
      <4> HIDE DEF E, n, m
      <4>2. Leads(E, n, m, n + m)
        <5>1. Leads(E, 0, 0, 0)
          BY PathSteps
        <5>2. Leads(E, 0 + n, 0, 0 + n)
          BY <4>1, <5>1, PathStraight
        <5>3. 0 + n = n /\ n \in Nat
          BY <4>1
        <5>4. Leads(E, n, 0, n)
          BY <5>2, <5>3
        <5>5. Leads(E, n, 0 + m, n + m)
          BY <4>1, <5>4, PathStraight
        <5>6. 0 + m = m
          BY <4>1
        <5> QED
          BY <5>5, <5>6
      <4>3. n + m \in Nat
        BY <4>1
      <4>4. n + m >= CostAfter(p, s)
        BY <2>1, <4>2, <4>3
      <4>5. CostAfter(p, s) = IF Parity(p) = 0 THEN 2 * h + 2 ELSE 2 * h + 1
        BY <2>3 DEF CostAfter
      <4>6. h < HMax(p)
        <5> HIDE DEF h
        <5>1. CASE Parity(p) = 0
          <6>1. n + m >= 2 * h + 2 /\ HMax(p) = (n + m) \div 2
            BY <4>1, <4>4, <4>5, <5>1
          <6> QED
            BY <1>1, <4>1, <6>1
        <5>2. CASE Parity(p) # 0
          <6>1. n + m >= 2 * h + 1 /\ HMax(p) = (n + m + 1) \div 2
            BY <4>1, <4>4, <4>5, <5>2
          <6> QED
            BY <1>1, <4>1, <6>1
        <5> QED
          BY <5>1, <5>2
      <4> QED
        BY <4>6
    <3>2. t = [s EXCEPT !.h = @ + 1, !.back = FALSE, !.k = KMin(p, s.h + 1)]
      BY <1>5, <2>3, <3>1 DEF NextProbe
    <3>3. h + 1 \in 0..HMax(p) /\ h + 1 \in Nat /\ h + 1 <= HMax(p)
      BY <1>1, <3>1
    <3>4. KMin(p, h + 1) \in Int /\ KMin(p, h + 1) \in Active(p, h + 1)
      BY <3>3, ActiveBounds, ActiveInts
    <3>5. /\ t.h = h + 1 /\ t.back = FALSE /\ t.b = s.b /\ t.end = s.end /\ t.split = s.split
          /\ t.k = KMin(p, h + 1) /\ t \in Searches(size)
      BY <1>1, <3>2, <3>3, <3>4 DEF Searches
    <3>6. Other(t) = TRUE /\ Opposite(t) = h /\ Other(s) = FALSE /\ Opposite(s) = h /\ t.h - 1 = h
      <4>1. t.h - 1 = h
        BY <1>1, <3>5
      <4> QED
        BY <2>3, <3>5, <4>1 DEF Other, Opposite
    <3>7. LeastCost(p, t) = CostAfter(p, s)
      <4>1. 2 * (h + 1) = 2 * h + 2 /\ 2 * (h + 1) - 1 = 2 * h + 1
        BY <1>1
      <4> QED
        BY <2>3, <3>5, <4>1 DEF LeastCost, CostAfter
    <3>8. \A d \in Active(p, h + 1) : ~(d < KMin(p, h + 1))
      <4> DEFINE g == h + 1
      <4> SUFFICES ASSUME NEW d \in Active(p, g) PROVE ~(d < KMin(p, g))
        OBVIOUS
      <4>1. g \in 0..HMax(p) /\ KMin(p, g) \in Int
        BY <3>3, <3>4
      <4> HIDE DEF g
      <4>2. d \in Int /\ KMin(p, g) <= d
        BY <4>1, ActiveInts
      <4> QED
        BY <4>1, <4>2
    <3>9. RowTo(A, B, p, t.b, t.back, t.h, t.k) /\ Apart(p, t)
      BY <3>5, <3>8 DEF RowTo, Apart
    <3>10. /\ Row(A, B, p, t.b, t.back, t.h - 1)
           /\ Row(A, B, p, t.b, Other(t), Opposite(t))
           /\ t.h # 0
      <4>1. Row(A, B, p, s.b, FALSE, h)
        BY <2>3, <3>6 DEF Written
      <4>2. Row(A, B, p, s.b, TRUE, h)
        BY <2>1, <2>3
      <4>3. t.h # 0
        BY <1>1, <3>5
      <4> QED
        BY <3>5, <3>6, <4>1, <4>2, <4>3
    <3>11. Later(s, t)
      <4>1. Round(t) = 2 * (h + 1) + 0 /\ Round(s) = 2 * h + 1
        BY <2>3, <3>5 DEF Round
      <4> QED
        BY <1>1, <4>1 DEF Later
    <3>12. ~t.end /\ t.split = <<>> /\ t.h <= HMax(p) /\ t.k \in Active(p, t.h)
      BY <3>3, <3>4, <3>5 DEF Written
    <3> QED
      BY <2>1, <3>5, <3>7, <3>9, <3>10, <3>11, <3>12 DEF SearchInv
  <2> QED
    BY <1>1, <2>2, <2>3
<1> QED
  BY <1>4, <1>5

-----------------------------------------------------------------------------
(* What a search finds. *)

Least(E, x, y, c) == Leads(E, x, y, c) /\ \A g \in Nat : Leads(E, x, y, g) => g >= c

(* A path through the piece that costs the least: to <<a, b>>, for h, t    *)
(* lines that are equal, and the last c and d lines, for g.                *)
SplitWith(A, B, p, r, a, b, t, c, d, h, g) ==
  /\ a + t + c = p.n /\ b + t + d = p.m
  /\ a + b < p.n + p.m /\ c + d < p.n + p.m
  /\ r = <<p.i + a + t, c, p.j + b + t, d, a, b>>
  /\ \A q \in 0..t - 1 : In(Sames(A, B, p, FALSE), a + q, b + q)
  /\ Leads(Sames(A, B, p, FALSE), a, b, h) /\ Leads(Sames(A, B, p, TRUE), c, d, g)
  /\ Least(Sames(A, B, p, FALSE), p.n, p.m, h + g)

IsSplit(A, B, p, r) ==
  \E a, b, t, c, d, h, g \in Nat : SplitWith(A, B, p, r, a, b, t, c, d, h, g)

(* All of the shorter side is equal to the start of the longer one. *)
NoSplit(A, B, p) ==
  p.n # p.m /\ \A q \in 0..Smaller(p.n, p.m) - 1 : In(Sames(A, B, p, FALSE), q, q)

LEMMA HalvesMeet ==
  ASSUME NEW p, IsPiece(p), NEW E, NEW F, Mirrors(E, F, p.n, p.m),
         Bounded(E, p.n, p.m), Bounded(F, p.n, p.m),
         NEW h \in Nat, NEW g \in Nat, NEW k \in Int, NEW x, NEW w,
         Furthest(E, h, k, x), Furthest(F, g, p.n - p.m - k, w), x + w >= p.n,
         \A c \in Nat : Leads(E, p.n, p.m, c) => c >= h + g
  PROVE  /\ x \in Nat /\ x - k \in Nat /\ x <= p.n /\ x - k <= p.m
         /\ Leads(E, x, x - k, h) /\ ~In(E, x, x - k)
         /\ Leads(F, p.n - x, p.m - (x - k), g)
         /\ Least(E, p.n, p.m, h + g)
<1> DEFINE n == p.n  m == p.m  y == x - k  v == w - (p.n - p.m - k)
<1>1. n \in Nat /\ m \in Nat
  BY DEF IsPiece
<1>2. x \in Nat /\ y \in Nat /\ Leads(E, x, y, h) /\ w \in Nat /\ v \in Nat /\ Leads(F, w, v, g)
  BY DEF Furthest
<1>3. w - v = (n - m) - (x - y)
  BY <1>1, <1>2
<1>4. /\ Mirrors(E, F, n, m) /\ Bounded(E, n, m) /\ Bounded(F, n, m) /\ x + w >= n
      /\ \A c \in Nat : Leads(E, n, m, c) => c >= h + g
  OBVIOUS
<1>5. ~In(E, x, y)
  <2> SUFFICES ASSUME In(E, x, y) PROVE FALSE
    OBVIOUS
  <2> HIDE DEF y
  <2>1. Leads(E, x + 1, y + 1, h)
    BY <1>2, PathSteps
  <2>2. x + 1 \in Nat /\ (x + 1) - k = y + 1 /\ y + 1 \in Nat
    BY <1>2 DEF y
  <2>3. x + 1 <= x
    BY <2>1, <2>2 DEF Furthest
  <2> QED
    BY <1>2, <2>3
<1> HIDE DEF n, m, y, v
<1>6. x <= n /\ y <= m /\ Leads(F, n - x, m - y, g) /\ Leads(E, n, m, h + g)
  BY <1>1, <1>2, <1>3, <1>4, PathsMeet
<1> QED
  BY <1>2, <1>4, <1>5, <1>6 DEF Least, n, m, y

(* When two paths meet, both rounds are done for a least cost. *)
LEMMA ProbeMeets ==
  ASSUME NEW A, NEW B, NEW p, IsPiece(p), NEW size, Sized(p, size),
         NEW s, SearchInv(A, B, p, size, s),
         NEW x, Furthest(Sames(A, B, p, s.back), s.h, s.k, x),
         NEW b, b = [s.b EXCEPT ![(IF s.back THEN p.z ELSE 0) + (s.k % p.z)] = x],
         Overlap(p, s, b, x)
  PROVE  LET E == Sames(A, B, p, FALSE)  F == Sames(A, B, p, TRUE)
             near == Sames(A, B, p, s.back)  far == Sames(A, B, p, Other(s))
         IN  /\ x \in Nat /\ x - s.k \in Nat /\ x <= p.n /\ x - s.k <= p.m
             /\ Opposite(s) \in Nat /\ (s.back \/ s.h > 0)
             /\ Leads(near, x, x - s.k, s.h) /\ ~In(near, x, x - s.k)
             /\ Leads(far, p.n - x, p.m - (x - s.k), Opposite(s))
             /\ Least(near, p.n, p.m, s.h + Opposite(s))
             /\ Least(E, p.n, p.m, s.h + Opposite(s))
<1> DEFINE h == s.h  k == s.k  E == Sames(A, B, p, FALSE)  F == Sames(A, B, p, TRUE)
           kk == p.n - p.m - k
<1>1. /\ h \in Nat /\ s.back \in BOOLEAN /\ s.b \in [0..size - 1 -> Nat] /\ size \in Nat /\ size >= 2 * p.z
      /\ HMax(p) \in Nat /\ h \in 0..HMax(p) /\ k \in Active(p, h)
  BY SearchFacts DEF SearchInv
<1>2. p.n \in Nat /\ p.m \in Nat /\ p.i \in Nat /\ p.j \in Nat /\ k \in Int /\ kk \in Int
  <2>1. p.n \in Nat /\ p.m \in Nat /\ p.i \in Nat /\ p.j \in Nat
    BY DEF IsPiece, Sized
  <2>2. k \in Int
    BY <1>1, ActiveInts
  <2> QED
    BY <2>1, <2>2
<1>3. Mirrors(E, F, p.n, p.m) /\ Mirrors(F, E, p.n, p.m) /\ Bounded(E, p.n, p.m) /\ Bounded(F, p.n, p.m)
  <2>1. Mirrors(E, F, p.n, p.m)
    BY <1>2, SamesMirrored
  <2>2. Bounded(E, p.n, p.m) /\ Bounded(F, p.n, p.m)
    BY SamesBounded
  <2> HIDE DEF E, F
  <2> QED
    BY <1>2, <2>1, <2>2, MirrorsBack
<1>4. x \in Nat
  BY DEF Furthest
<1>5. \A d \in Int, side \in BOOLEAN : side # s.back => Entry(p, b, side, d) = Entry(p, s.b, side, d)
  <2> DEFINE old == s.b  back == s.back
  <2>1. b = Put(p, old, back, k, x)
    BY DEF Put
  <2>2. old \in [0..size - 1 -> Nat] /\ size \in Nat /\ size >= 2 * p.z /\ back \in BOOLEAN /\ k \in Int
    BY <1>1, <1>2
  <2> HIDE DEF back, k, old
  <2>3. EntrySet(p, size, old, b, back, k, x)
    BY <1>4, <2>1, <2>2, EntryKept
  <2> QED
    BY <2>3 DEF EntrySet, old, back
<1>6. \A c \in Nat : Leads(E, p.n, p.m, c) => c >= LeastCost(p, s)
  BY DEF SearchInv
<1>7. CASE s.back = TRUE
  <2>1. Parity(p) = 0 /\ kk \in -h..h /\ x + b[kk % p.z] >= p.n
    BY <1>7 DEF Overlap
  <2>2. Other(s) = FALSE /\ Opposite(s) = h /\ LeastCost(p, s) = 2 * h
    BY <1>7, <2>1 DEF Other, Opposite, LeastCost
  <2>3. b[kk % p.z] = Entry(p, s.b, FALSE, kk)
    <3>1. Entry(p, b, FALSE, kk) = b[kk % p.z]
      BY <1>2, EntryHalves
    <3>2. FALSE \in BOOLEAN /\ FALSE # TRUE
      OBVIOUS
    <3>3. FALSE # s.back
      BY <1>7, <3>2
    <3> QED
      BY <1>2, <1>5, <3>1, <3>2, <3>3
  <2>4. kk \in Active(p, h)
    BY <1>1, <2>1, ActiveOpposite
  <2> DEFINE w == Entry(p, s.b, FALSE, kk)
  <2>5. Furthest(E, h, kk, w)
    <3>1. Row(A, B, p, s.b, FALSE, h)
      BY <1>7, <2>2 DEF SearchInv
    <3> QED
      BY <2>4, <3>1 DEF Row
  <2>6. Furthest(F, h, k, x) /\ x + w >= p.n
    BY <1>7, <2>1, <2>3
  <2>7. \A c \in Nat : Leads(F, p.n, p.m, c) => c >= h + h
    <3> SUFFICES ASSUME NEW c \in Nat, Leads(F, p.n, p.m, c) PROVE c >= h + h
      OBVIOUS
    <3>1. Leads(E, p.n, p.m, c)
      <4> HIDE DEF E, F
      <4> QED
        BY <1>2, <1>3, PathMirror
    <3>2. c >= 2 * h
      BY <1>6, <2>2, <3>1
    <3> QED
      BY <1>1, <3>2
  <2> HIDE DEF E, F, w, h, k
  <2>8. /\ x \in Nat /\ x - k \in Nat /\ x <= p.n /\ x - k <= p.m
        /\ Leads(F, x, x - k, h) /\ ~In(F, x, x - k)
        /\ Leads(E, p.n - x, p.m - (x - k), h)
        /\ Least(F, p.n, p.m, h + h)
    <3>1. Furthest(E, h, p.n - p.m - k, w)
      BY <2>5
    <3> QED
      BY <1>1, <1>2, <1>3, <2>6, <2>7, <3>1, HalvesMeet
  <2>9. Least(E, p.n, p.m, h + h)
    <3>1. h + h \in Nat /\ Leads(F, p.n, p.m, h + h)
      BY <1>1, <2>8 DEF Least
    <3>2. Leads(E, p.n, p.m, h + h)
      BY <1>2, <1>3, <3>1, PathMirror
    <3>3. ASSUME NEW c \in Nat, Leads(E, p.n, p.m, c) PROVE c >= h + h
      <4>1. c >= 2 * h
        BY <1>6, <2>2, <3>3
      <4> QED
        BY <1>1, <4>1
    <3> QED
      BY <3>2, <3>3 DEF Least
  <2> QED
    BY <1>1, <1>7, <2>2, <2>8, <2>9 DEF E, F, h, k
<1>8. CASE s.back = FALSE
  <2>1. Parity(p) = 1 /\ kk \in 1 - h..h - 1 /\ x + b[p.z + (kk % p.z)] >= p.n
    BY <1>8 DEF Overlap
  <2>2. Other(s) = TRUE /\ Opposite(s) = h - 1 /\ LeastCost(p, s) = 2 * h - 1
    BY <1>8, <2>1 DEF Other, Opposite, LeastCost
  <2>3. b[p.z + (kk % p.z)] = Entry(p, s.b, TRUE, kk)
    <3>1. Entry(p, b, TRUE, kk) = b[p.z + (kk % p.z)]
      BY <1>2, EntryHalves
    <3>2. TRUE \in BOOLEAN /\ FALSE # TRUE
      OBVIOUS
    <3>3. TRUE # s.back
      BY <1>8, <3>2
    <3> QED
      BY <1>2, <1>5, <3>1, <3>2, <3>3
  <2>4. h > 0 /\ kk \in Active(p, h - 1)
    BY <1>1, <2>1, ActiveOpposite
  <2> DEFINE w == Entry(p, s.b, TRUE, kk)  g == h - 1
  <2>5. Furthest(F, g, kk, w)
    <3>1. Row(A, B, p, s.b, TRUE, g)
      BY <2>2, <2>4 DEF SearchInv
    <3> QED
      BY <2>4, <3>1 DEF Row
  <2>6. Furthest(E, h, k, x) /\ x + w >= p.n
    BY <1>8, <2>1, <2>3
  <2>7. g \in Nat /\ h + g = 2 * h - 1
    BY <1>1, <2>4
  <2>8. \A c \in Nat : Leads(E, p.n, p.m, c) => c >= h + g
    BY <1>6, <2>2, <2>7
  <2>9. Opposite(s) = g
    BY <2>2
  <2> HIDE DEF E, F, w, h, k, g
  <2>10. /\ x \in Nat /\ x - k \in Nat /\ x <= p.n /\ x - k <= p.m
         /\ Leads(E, x, x - k, h) /\ ~In(E, x, x - k)
         /\ Leads(F, p.n - x, p.m - (x - k), g)
         /\ Least(E, p.n, p.m, h + g)
    <3>1. Furthest(F, g, p.n - p.m - k, w)
      BY <2>5
    <3> QED
      BY <1>1, <1>2, <1>3, <2>6, <2>7, <2>8, <3>1, HalvesMeet
  <2> QED
    BY <1>8, <2>2, <2>4, <2>7, <2>9, <2>10 DEF E, F, h, k
<1> QED
  BY <1>1, <1>7, <1>8

LEMMA SplitForward ==
  ASSUME NEW A, NEW B, NEW p, IsPiece(p), NEW size, Sized(p, size), NEW k \in Int,
         NEW x \in Nat, NEW u \in Nat, u <= x, x - k \in Nat, u - k \in Nat, x <= p.n, x - k <= p.m,
         NEW h \in Nat, h > 0, h > 1 \/ x # u,
         Leads(Sames(A, B, p, FALSE), u, u - k, h),
         \A t \in u..x - 1 : In(Sames(A, B, p, FALSE), t, t - k),
         Leads(Sames(A, B, p, TRUE), p.n - x, p.m - (x - k), h - 1),
         Least(Sames(A, B, p, FALSE), p.n, p.m, h + (h - 1))
  PROVE  IsSplit(A, B, p, SplitAt(p, FALSE, u, u - k, x, x - k))
<1> DEFINE E == Sames(A, B, p, FALSE)  F == Sames(A, B, p, TRUE)  n == p.n  m == p.m
           v == u - k  y == x - k  g == h - 1  t == x - u  c == n - x  d == m - y
<1>1. n \in Nat /\ m \in Nat /\ n > 0 /\ m > 0 /\ p.i \in Nat /\ p.j \in Nat
  BY DEF IsPiece, Sized
<1>2. /\ u \in Nat /\ v \in Nat /\ x \in Nat /\ y \in Nat /\ g \in Nat /\ h + g = 2 * h - 1
      /\ t \in Nat /\ c \in Nat /\ d \in Nat /\ x = u + t /\ y = v + t /\ v = u - k /\ y = x - k
      /\ n = x + c /\ m = y + d
  BY <1>1
<1>3. /\ Leads(E, u, v, h) /\ Leads(F, c, d, g) /\ Least(E, n, m, h + g)
  OBVIOUS
<1>4. \A q \in 0..t - 1 : In(E, u + q, v + q)
  <2> SUFFICES ASSUME NEW q \in 0..t - 1 PROVE In(E, u + q, v + q)
    OBVIOUS
  <2>1. u + q \in u..x - 1 /\ (u + q) - k = v + q
    OBVIOUS
  <2>2. \A w \in u..x - 1 : In(E, w, w - k)
    OBVIOUS
  <2> HIDE DEF E, v, t
  <2>3. In(E, u + q, (u + q) - k)
    BY <2>1, <2>2
  <2> QED
    BY <2>1, <2>3
<1>5. SplitAt(p, FALSE, u, v, x, y) = <<p.i + u + t, c, p.j + v + t, d, u, v>>
  <2>1. p.i + x = p.i + u + t /\ p.j + y = p.j + v + t
    BY <1>1, <1>2
  <2> QED
    BY <2>1 DEF SplitAt
<1>6. h > 1 \/ x # u
  OBVIOUS
<1> HIDE DEF E, F, n, m, v, y, g, t, c, d
<1>7. h <= u + v
  BY <1>2, <1>3, PathSlope
<1>8. u + t + c = n /\ v + t + d = m /\ c + d < n + m
  BY <1>1, <1>2, <1>7
<1>9. u + v < n + m
  <2> SUFFICES ASSUME ~(u + v < n + m) PROVE FALSE
    OBVIOUS
  <2>1. u = n /\ v = m /\ x = u
    BY <1>1, <1>2
  <2>2. h >= h + g
    BY <1>3, <2>1 DEF Least
  <2> QED
    BY <1>2, <1>6, <2>1, <2>2
<1>10. SplitWith(A, B, p, SplitAt(p, FALSE, u, v, x, y), u, v, t, c, d, h, g)
  BY <1>3, <1>4, <1>5, <1>8, <1>9 DEF SplitWith, E, F, n, m
<1>11. IsSplit(A, B, p, SplitAt(p, FALSE, u, v, x, y))
  BY <1>2, <1>10, Zenon DEF IsSplit
<1> QED
  BY <1>11 DEF v, y

LEMMA SplitBackward ==
  ASSUME NEW A, NEW B, NEW p, IsPiece(p), NEW size, Sized(p, size), NEW k \in Int,
         NEW x \in Nat, NEW u \in Nat, u <= x, x - k \in Nat, u - k \in Nat, x <= p.n, x - k <= p.m,
         NEW h \in Nat, h > 0 \/ x # u,
         Leads(Sames(A, B, p, TRUE), u, u - k, h),
         \A t \in u..x - 1 : In(Sames(A, B, p, TRUE), t, t - k),
         Leads(Sames(A, B, p, FALSE), p.n - x, p.m - (x - k), h),
         Least(Sames(A, B, p, FALSE), p.n, p.m, h + h)
  PROVE  IsSplit(A, B, p, SplitAt(p, TRUE, u, u - k, x, x - k))
<1> DEFINE E == Sames(A, B, p, FALSE)  F == Sames(A, B, p, TRUE)  n == p.n  m == p.m
           v == u - k  y == x - k  t == x - u  c == n - x  d == m - y
<1>1. n \in Nat /\ m \in Nat /\ n > 0 /\ m > 0 /\ p.i \in Nat /\ p.j \in Nat
  BY DEF IsPiece, Sized
<1>2. /\ u \in Nat /\ v \in Nat /\ x \in Nat /\ y \in Nat
      /\ t \in Nat /\ c \in Nat /\ d \in Nat /\ x = u + t /\ y = v + t /\ v = u - k /\ y = x - k
      /\ n = x + c /\ m = y + d
  BY <1>1
<1>3. /\ Leads(F, u, v, h) /\ Leads(E, c, d, h) /\ Least(E, n, m, h + h)
  OBVIOUS
<1>13. Mirrors(E, F, n, m)
  BY <1>1, SamesMirrored
<1>14. \A w \in u..x - 1 : In(F, w, w - k)
  OBVIOUS
<1>15. h > 0 \/ x # u
  OBVIOUS
<1>5. SplitAt(p, TRUE, u, v, x, y) = <<p.i + c + t, u, p.j + d + t, v, c, d>>
  <2>1. p.i + n - u = p.i + c + t /\ p.j + m - v = p.j + d + t
    <3> DEFINE i == p.i  j == p.j
    <3>1. i \in Nat /\ j \in Nat
      BY <1>1
    <3> HIDE DEF i, j, n, m, v, y, t, c, d
    <3>2. i + n - u = i + c + t /\ j + m - v = j + d + t
      BY <1>2, <3>1
    <3> QED
      BY <3>2 DEF i, j
  <2> QED
    BY <2>1 DEF SplitAt
<1> HIDE DEF E, F, n, m, v, y, t, c, d
<1>4. \A q \in 0..t - 1 : In(E, c + q, d + q)
  <2> SUFFICES ASSUME NEW q \in 0..t - 1 PROVE In(E, c + q, d + q)
    OBVIOUS
  <2> DEFINE w == x - 1 - q  z == y - 1 - q
  <2>1. /\ w \in u..x - 1 /\ w - k = z /\ w \in 0..n - 1 /\ z \in 0..m - 1
        /\ (n - 1) - w = c + q /\ (m - 1) - z = d + q
    BY <1>1, <1>2
  <2> HIDE DEF w, z
  <2>2. In(F, w, z)
    BY <1>14, <2>1
  <2>3. In(E, (n - 1) - w, (m - 1) - z)
    BY <1>13, <2>1, <2>2 DEF Mirrors
  <2> QED
    BY <2>1, <2>3
<1>7. h <= u + v
  BY <1>2, <1>3, PathSlope
<1>16. h <= c + d
  BY <1>2, <1>3, PathSlope
<1>8. c + t + u = n /\ d + t + v = m /\ c + d < n + m
  <2>1. c + t + u = n /\ d + t + v = m
    BY <1>1, <1>2
  <2>2. x = 0 /\ y = 0 => h = 0 /\ u = 0
    BY <1>2, <1>7
  <2>3. x + y > 0
    BY <1>2, <1>15, <2>2
  <2> QED
    BY <1>1, <1>2, <2>1, <2>3
<1>9. u + v < n + m
  <2> SUFFICES ASSUME ~(u + v < n + m) PROVE FALSE
    OBVIOUS
  <2>1. u = n /\ v = m /\ x = u /\ c + d = 0
    BY <1>1, <1>2
  <2>2. h = 0
    BY <1>2, <1>16, <2>1
  <2> QED
    BY <1>2, <1>15, <2>1, <2>2
<1>10. SplitWith(A, B, p, SplitAt(p, TRUE, u, v, x, y), c, d, t, u, v, h, h)
  BY <1>3, <1>4, <1>5, <1>8, <1>9 DEF SplitWith, E, F, n, m
<1>11. IsSplit(A, B, p, SplitAt(p, TRUE, u, v, x, y))
  BY <1>2, <1>10, Zenon DEF IsSplit
<1> QED
  BY <1>11 DEF v, y

-----------------------------------------------------------------------------
(* What a probe comes to. *)
ProbeResult(A, B, p, size, s, t) ==
  \/ SearchInv(A, B, p, size, t) /\ Later(s, t)
  \/ t.split # <<>> /\ IsSplit(A, B, p, t.split)
  \/ t.split = <<>> /\ t.end /\ NoSplit(A, B, p)

LEMMA SearchProbe ==
  ASSUME NEW A, NEW B, NEW p, IsPiece(p), NEW size, Sized(p, size),
         NEW s, SearchInv(A, B, p, size, s)
  PROVE  ProbeResult(A, B, p, size, s, Probe(A, B, p, s))
<1> DEFINE u == StartOf(p, s)  x == SnakeEnd(A, B, p, s.back, u, u - s.k)
           E == Sames(A, B, p, FALSE)  F == Sames(A, B, p, TRUE)
           near == Sames(A, B, p, s.back)
           b == [s.b EXCEPT ![(IF s.back THEN p.z ELSE 0) + (s.k % p.z)] = x]
           t == Probe(A, B, p, s)
<1>1. t = Advance(p, s, u, x)
  BY DEF Probe, ProbeFrom
<1>2. /\ s.h \in Nat /\ s.k \in Int /\ s.back \in BOOLEAN /\ s \in Searches(size)
      /\ s.split = <<>> /\ ~s.end
  BY SearchFacts DEF SearchInv
<1>3. /\ u \in Nat /\ u - s.k \in Nat /\ x \in Nat /\ u <= x
      /\ Leads(near, u, u - s.k, s.h)
      /\ s.h > 0 => \/ u - s.k > 0 /\ Leads(near, u, (u - s.k) - 1, s.h - 1)
                    \/ u > 0 /\ Leads(near, u - 1, u - s.k, s.h - 1)
      /\ s.h = 0 => u = 0
      /\ \A w \in u..x - 1 : In(near, w, w - s.k)
      /\ Furthest(near, s.h, s.k, x)
  <2> HIDE DEF u, x
  <2>1. u = StartOf(p, s) /\ x = SnakeEnd(A, B, p, s.back, u, u - s.k)
    BY DEF u, x
  <2> QED
    BY <2>1, ProbeReaches
<1> HIDE DEF u, x
<1>4. CASE ~Overlap(p, s, b, x)
  <2> DEFINE r == [s EXCEPT !.b = b]
  <2>1. t = NextProbe(p, r)
    BY <1>1, <1>4 DEF Advance
  <2>2. Written(A, B, p, size, r)
    BY <1>3, <1>4, ProbeWrites
  <2>3. r.h = s.h /\ r.k = s.k /\ r.back = s.back
    BY <1>2 DEF Searches
  <2> HIDE DEF r, t
  <2>4. SearchInv(A, B, p, size, t) /\ Later(r, t)
    BY <2>1, <2>2, ProbeGoesOn
  <2>5. Later(s, t)
    BY <2>3, <2>4 DEF Later, Round
  <2> QED
    BY <2>4, <2>5 DEF ProbeResult, t
<1>5. CASE Overlap(p, s, b, x)
  <2>1. /\ x \in Nat /\ x - s.k \in Nat /\ x <= p.n /\ x - s.k <= p.m
        /\ Opposite(s) \in Nat /\ (s.back \/ s.h > 0)
        /\ Leads(near, x, x - s.k, s.h) /\ ~In(near, x, x - s.k)
        /\ Leads(Sames(A, B, p, Other(s)), p.n - x, p.m - (x - s.k), Opposite(s))
        /\ Least(near, p.n, p.m, s.h + Opposite(s))
        /\ Least(E, p.n, p.m, s.h + Opposite(s))
    BY <1>3, <1>5, ProbeMeets
  <2>2. t = IF s.h > (IF s.back THEN 0 ELSE 1) \/ x # u
            THEN [s EXCEPT !.split = SplitAt(p, s.back, u, u - s.k, x, x - s.k)]
            ELSE [s EXCEPT !.end = TRUE]
    BY <1>1, <1>5 DEF Advance
  <2>3. CASE s.h > (IF s.back THEN 0 ELSE 1) \/ x # u
    <3> DEFINE r == SplitAt(p, s.back, u, u - s.k, x, x - s.k)
    <3>1. t.split = r
      BY <1>2, <2>2, <2>3 DEF Searches
    <3>2. r # <<>>
      BY DEF SplitAt
    <3>3. IsSplit(A, B, p, r)
      <4>1. CASE s.back = TRUE
        <5>1. Other(s) = FALSE /\ Opposite(s) = s.h /\ (s.h > 0 \/ x # u)
          BY <2>3, <4>1 DEF Other, Opposite
        <5>2. IsSplit(A, B, p, SplitAt(p, TRUE, u, u - s.k, x, x - s.k))
          BY <1>2, <1>3, <2>1, <4>1, <5>1, SplitBackward
        <5> QED
          BY <4>1, <5>2
      <4>2. CASE s.back = FALSE
        <5>1. Other(s) = TRUE /\ Opposite(s) = s.h - 1 /\ (s.h > 1 \/ x # u) /\ s.h > 0
          BY <2>1, <2>3, <4>2 DEF Other, Opposite
        <5>2. IsSplit(A, B, p, SplitAt(p, FALSE, u, u - s.k, x, x - s.k))
          BY <1>2, <1>3, <2>1, <4>2, <5>1, SplitForward
        <5> QED
          BY <4>2, <5>2
      <4> QED
        BY <1>2, <4>1, <4>2
    <3> QED
      BY <3>1, <3>2, <3>3 DEF ProbeResult
  <2>4. CASE ~(s.h > (IF s.back THEN 0 ELSE 1) \/ x # u)
    <3>1. t.split = <<>> /\ t.end
      BY <1>2, <2>2, <2>4 DEF Searches
    <3>2. NoSplit(A, B, p)
      <4> DEFINE h == s.h  k == s.k  n == p.n  m == p.m
      <4>1. n \in Nat /\ m \in Nat /\ n > 0 /\ m > 0 /\ h \in Nat /\ k \in Int /\ x \in Nat /\ x = u
        BY <1>2, <1>3, <2>4 DEF IsPiece
      <4>2. Mirrors(E, F, n, m)
        <5>1. p.i \in Nat /\ p.j \in Nat
          BY DEF Sized
        <5> QED
          BY <4>1, <5>1, SamesMirrored
      <4>3. CASE s.back = TRUE
        <5>1. h = 0 /\ Opposite(s) = h /\ near = F
          <6>1. ~(h > 0)
            BY <2>4, <4>3
          <6>2. Opposite(s) = h /\ near = F
            BY <4>3 DEF Opposite
          <6> HIDE DEF h, near, F
          <6>3. h = 0
            BY <4>1, <6>1
          <6> QED
            BY <6>2, <6>3
        <5>2. u = 0
          BY <1>3, <5>1
        <5>3. Least(F, n, m, 0)
          <6>1. h + h = 0
            BY <5>1
          <6> QED
            BY <2>1, <5>1, <6>1
        <5>4. Leads(F, n, m, 0)
          BY <5>3 DEF Least
        <5> HIDE DEF F, n, m
        <5>5. n = m
          BY <4>1, <5>4, PathBounds
        <5>6. Furthest(F, 0, k, x) /\ k \in -0..0
          <6>1. Leads(F, u, u - k, 0)
            BY <1>3, <5>1
          <6>0. u \in Nat /\ u - k \in Nat
            BY <1>3
          <6>2. u - k <= 0 /\ (u - k) - u <= 0 /\ u - (u - k) <= 0
            <7> DEFINE v == u - k
            <7>1. v \in Nat /\ Leads(F, u, v, 0)
              BY <6>0, <6>1
            <7> HIDE DEF v
            <7>2. v - u <= 0 /\ u - v <= 0
              BY <6>0, <7>1, PathSlope
            <7>3. v <= 0
              BY <5>2, <7>1, <7>2
            <7> QED
              BY <7>2, <7>3 DEF v
          <6>3. k \in -0..0
            BY <4>1, <5>2, <6>2
          <6> QED
            BY <1>3, <5>1, <6>3
        <5>7. k = 0
          BY <4>1, <5>6
        <5>8. n - k = m /\ n - k \in Nat
          BY <4>1, <5>5, <5>7
        <5>9. n <= x
          BY <4>1, <5>4, <5>6, <5>8 DEF Furthest
        <5> QED
          BY <4>1, <5>2, <5>9
      <4>4. CASE s.back = FALSE
        <5>1. h = 1 /\ Opposite(s) = 0 /\ Other(s) = TRUE /\ near = E
          <6>1. h > 0 /\ ~(h > 1)
            BY <2>1, <2>4, <4>4
          <6>2. Opposite(s) = h - 1 /\ Other(s) = TRUE /\ near = E
            BY <4>4 DEF Opposite, Other
          <6> HIDE DEF h, near, E
          <6>3. h = 1 /\ h - 1 = 0
            BY <4>1, <6>1
          <6> QED
            BY <6>2, <6>3
        <5> DEFINE y == x - k  c == n - x  d == m - y
        <5>2. y \in Nat /\ x <= n /\ y <= m /\ c \in Nat /\ d \in Nat /\ n = x + c /\ m = y + d /\ u - k = y
          BY <2>1, <4>1
        <5>3. Leads(F, c, d, 0) /\ ~In(E, x, y)
          BY <2>1, <5>1
        <5>4. \/ y > 0 /\ Leads(E, x, y - 1, 0)
              \/ x > 0 /\ Leads(E, x - 1, y, 0)
          <6>1. h > 0 /\ h - 1 = 0
            BY <5>1
          <6>2. \/ y > 0 /\ Leads(E, x, y - 1, h - 1)
                \/ x > 0 /\ Leads(E, x - 1, y, h - 1)
            BY <1>3, <4>1, <5>1, <6>1
          <6> QED
            BY <6>1, <6>2
        <5> HIDE DEF E, F, n, m, y, c, d
        <5>5. c = d /\ \A q \in 0..c - 1 : In(F, q, q)
          BY <5>2, <5>3, PathBounds
        <5>6. c = 0
          <6> SUFFICES ASSUME c # 0 PROVE FALSE
            OBVIOUS
          <6> DEFINE w == c - 1
          <6>1. w \in 0..c - 1 /\ w \in 0..n - 1 /\ w \in 0..m - 1 /\ (n - 1) - w = x /\ (m - 1) - w = y
            BY <4>1, <5>2, <5>5
          <6> HIDE DEF w
          <6>2. In(F, w, w)
            BY <5>5, <6>1
          <6>3. In(E, (n - 1) - w, (m - 1) - w)
            BY <4>2, <6>1, <6>2 DEF Mirrors
          <6> QED
            BY <5>3, <6>1, <6>3
        <5>7. x = n /\ y = m
          BY <4>1, <5>2, <5>5, <5>6
        <5>8. n # m /\ \A q \in 0..Smaller(n, m) - 1 : In(E, q, q)
          <6>1. CASE m > 0 /\ Leads(E, n, m - 1, 0)
            <7>1. m - 1 \in Nat
              BY <4>1
            <7>2. n = m - 1 /\ \A q \in 0..n - 1 : In(E, q, q)
              BY <4>1, <6>1, <7>1, PathBounds
            <7>3. Smaller(n, m) = n
              BY <4>1, <7>2 DEF Smaller
            <7> QED
              BY <4>1, <7>2, <7>3
          <6>2. CASE n > 0 /\ Leads(E, n - 1, m, 0)
            <7>1. n - 1 \in Nat
              BY <4>1
            <7>2. n - 1 = m /\ \A q \in 0..(n - 1) - 1 : In(E, q, q)
              BY <4>1, <6>2, <7>1, PathBounds
            <7>3. Smaller(n, m) = n - 1
              BY <4>1, <7>2 DEF Smaller
            <7> QED
              BY <4>1, <7>2, <7>3
          <6> QED
            BY <5>4, <5>7, <6>1, <6>2
        <5> QED
          BY <5>8 DEF NoSplit, E, n, m
      <4> QED
        BY <1>2, <4>3, <4>4
    <3> QED
      BY <3>1, <3>2 DEF ProbeResult
  <2> QED
    BY <2>3, <2>4
<1> QED
  BY <1>4, <1>5

LEMMA ProbeStays ==
  ASSUME NEW A, NEW B, NEW p, IsPiece(p), NEW size, Sized(p, size), NEW s \in Searches(size)
  PROVE  Probe(A, B, p, s) \in Searches(size)
<1> DEFINE u == StartOf(p, s)  x == SnakeEnd(A, B, p, s.back, u, u - s.k)
           b == [s.b EXCEPT ![(IF s.back THEN p.z ELSE 0) + (s.k % p.z)] = x]
<1>1. /\ s.h \in Nat /\ s.k \in Int /\ s.back \in BOOLEAN /\ s.b \in [0..size - 1 -> Nat]
      /\ s.split \in Seq(Int) /\ s.end \in BOOLEAN
      /\ size \in Nat /\ size >= 2 * p.z
      /\ p.n \in Nat /\ p.m \in Nat /\ p.i \in Nat /\ p.j \in Nat
  BY DEF Searches, Sized, IsPiece
<1>2. u \in Nat
  <2> DEFINE k == s.k  below == Entry(p, s.b, s.back, k - 1)  above == Entry(p, s.b, s.back, k + 1)
  <2>1. u = IF s.k = -s.h \/ (s.k # s.h /\ below < above) THEN above ELSE below + 1
    BY DEF StartOf, Entry
  <2>2. k - 1 \in Int /\ k + 1 \in Int
    BY <1>1, SMTT(30)
  <2>3. below \in Nat /\ above \in Nat
    <3> HIDE DEF k
    <3> QED
      BY <1>1, <2>2, EntryFacts
  <2> HIDE DEF u, below, above
  <2>4. below + 1 \in Nat
    BY <2>3
  <2> QED
    BY <2>1, <2>3, <2>4
<1>3. x \in Nat /\ u - s.k \in Int
  <2> HIDE DEF u
  <2> DEFINE v == u - s.k  back == s.back
  <2>1. v \in Int /\ back \in BOOLEAN
    BY <1>1, <1>2
  <2>2. x = SnakeEnd(A, B, p, back, u, v)
    OBVIOUS
  <2> HIDE DEF v, x, back
  <2>4. p.n \in Nat /\ p.m \in Nat
    BY <1>1
  <2>3. x \in Nat
    BY <1>2, <2>1, <2>2, <2>4, SnakeFacts
  <2> QED
    BY <2>1, <2>3 DEF v
<1>4. b \in [0..size - 1 -> Nat]
  BY <1>1, <1>3
<1>5. Probe(A, B, p, s) = Advance(p, s, u, x)
  BY DEF Probe, ProbeFrom
<1> HIDE DEF u, x
<1>6. ASSUME NEW r \in Searches(size) PROVE NextProbe(p, r) \in Searches(size)
  <2>1. /\ r.h \in Nat /\ r.k \in Int /\ r.back \in BOOLEAN /\ r.b \in [0..size - 1 -> Nat]
        /\ r.split \in Seq(Int) /\ r.end \in BOOLEAN
    BY DEF Searches
  <2>2. r.k + 2 \in Int /\ r.h + 1 \in Nat
    BY <2>1
  <2>3. \A h \in Nat : KMin(p, h) \in Int
    BY <1>1 DEF KMin, Larger
  <2>4. KMin(p, r.h) \in Int /\ KMin(p, r.h + 1) \in Int
    BY <2>1, <2>2, <2>3
  <2>5. [r EXCEPT !.k = @ + 2] \in Searches(size)
    BY <2>1, <2>2 DEF Searches
  <2>6. [r EXCEPT !.back = TRUE, !.k = KMin(p, r.h)] \in Searches(size)
    BY <2>1, <2>4 DEF Searches
  <2>7. [r EXCEPT !.h = @ + 1, !.back = FALSE, !.k = KMin(p, r.h + 1)] \in Searches(size)
    BY <2>1, <2>2, <2>4 DEF Searches
  <2>8. [r EXCEPT !.end = TRUE] \in Searches(size)
    BY <2>1 DEF Searches
  <2> QED
    BY <2>5, <2>6, <2>7, <2>8, Zenon DEF NextProbe
<1>7. SplitAt(p, s.back, u, u - s.k, x, x - s.k) \in Seq(Int)
  <2> DEFINE v == u - s.k  y == x - s.k  n == p.n  m == p.m  i == p.i  j == p.j
  <2>1. v \in Int /\ y \in Int /\ u \in Int /\ x \in Int /\ n \in Int /\ m \in Int /\ i \in Int /\ j \in Int
    <3>1. v \in Int /\ u \in Int /\ x \in Int
      BY <1>2, <1>3
    <3>2. y \in Int
      BY <1>1, <1>3
    <3>3. n \in Int /\ m \in Int /\ i \in Int /\ j \in Int
      BY <1>1
    <3> QED
      BY <3>1, <3>2, <3>3
  <2>2. SplitAt(p, s.back, u, v, x, y) =
          IF s.back THEN <<i + n - u, u, j + m - v, v, n - x, m - y>> ELSE <<i + x, n - x, j + y, m - y, u, v>>
    BY DEF SplitAt
  <2> HIDE DEF v, y, n, m, i, j
  <2>3. <<i + n - u, u, j + m - v, v, n - x, m - y>> \in Seq(Int)
    BY <2>1
  <2>4. <<i + x, n - x, j + y, m - y, u, v>> \in Seq(Int)
    BY <2>1
  <2>5. SplitAt(p, s.back, u, v, x, y) \in Seq(Int)
    BY <2>2, <2>3, <2>4, Zenon
  <2> QED
    BY <2>5 DEF v, y
<1> DEFINE r1 == [s EXCEPT !.b = b]
           r2 == [s EXCEPT !.split = SplitAt(p, s.back, u, u - s.k, x, x - s.k)]
           r3 == [s EXCEPT !.end = TRUE]
<1>8. r1 \in Searches(size)
  <2> HIDE DEF b
  <2> QED
    BY <1>1, <1>4 DEF Searches
<1>9. r2 \in Searches(size)
  BY <1>1, <1>7 DEF Searches
<1>10. r3 \in Searches(size)
  BY <1>1 DEF Searches
<1>11. NextProbe(p, r1) \in Searches(size)
  <2> HIDE DEF r1
  <2> QED
    BY <1>6, <1>8
<1>12. \/ Advance(p, s, u, x) = NextProbe(p, r1)
       \/ Advance(p, s, u, x) = r2
       \/ Advance(p, s, u, x) = r3
  BY Zenon DEF Advance
<1> QED
  BY <1>5, <1>9, <1>10, <1>11, <1>12, Zenon

(* Where a search starts. *)
StartSearch(size) ==
  [h |-> 0, k |-> 0, back |-> FALSE, b |-> [x \in 0..size - 1 |-> 0], split |-> <<>>, end |-> FALSE]

LEMMA SearchStarts ==
  ASSUME NEW A, NEW B, NEW p, IsPiece(p), NEW size, Sized(p, size)
  PROVE  SearchInv(A, B, p, size, StartSearch(size))
<1> DEFINE s == StartSearch(size)
<1>1. p.n \in Nat /\ p.m \in Nat /\ size \in Nat /\ size >= 2 * p.z
  BY DEF IsPiece, Sized
<1>2. /\ s.h = 0 /\ s.k = 0 /\ s.back = FALSE /\ s.b = [x \in 0..size - 1 |-> 0]
      /\ s.split = <<>> /\ s.end = FALSE
  BY DEF StartSearch
<1>3. s \in Searches(size)
  <2>1. 0 \in Nat /\ 0 \in Int /\ FALSE \in BOOLEAN /\ <<>> \in Seq(Int)
        /\ [x \in 0..size - 1 |-> 0] \in [0..size - 1 -> Nat]
    OBVIOUS
  <2> QED
    BY <2>1 DEF StartSearch, Searches
<1>4. \A c \in [0..size - 1 -> Nat] : (\A q \in 0..size - 1 : c[q] = 0) =>
        \A side \in BOOLEAN, k \in Int : Entry(p, c, side, k) = 0
  <2> SUFFICES ASSUME NEW c \in [0..size - 1 -> Nat], \A q \in 0..size - 1 : c[q] = 0,
                      NEW side \in BOOLEAN, NEW k \in Int
               PROVE  Entry(p, c, side, k) = 0
    OBVIOUS
  <2>1. (IF side THEN p.z ELSE 0) + (k % p.z) \in 0..size - 1
    BY <1>1, EntryFacts
  <2> QED
    BY <2>1 DEF Entry
<1>5. \A side \in BOOLEAN, k \in Int : Entry(p, s.b, side, k) = 0
  <2>1. s.b \in [0..size - 1 -> Nat] /\ \A q \in 0..size - 1 : s.b[q] = 0
    BY <1>2
  <2> HIDE DEF s
  <2> QED
    BY <1>4, <2>1
<1>6. HMax(p) \in Nat
  <2> DEFINE n == p.n  m == p.m
  <2>1. n \in Nat /\ m \in Nat /\ HMax(p) = (n + m + ((n + m) % 2)) \div 2
    BY <1>1 DEF HMax, Parity
  <2> HIDE DEF n, m
  <2> QED
    BY <2>1
<1>7. KMin(p, 0) = 0 /\ KMax(p, 0) = 0
  <2> DEFINE n == p.n  m == p.m
  <2>1. n \in Nat /\ m \in Nat /\ KMin(p, 0) = 2 * Larger(0, 0 - m) - 0 /\ KMax(p, 0) = 0 - 2 * Larger(0, 0 - n)
    BY <1>1 DEF KMin, KMax
  <2> HIDE DEF n, m
  <2>2. Larger(0, 0 - m) = 0 /\ Larger(0, 0 - n) = 0
    BY <2>1 DEF Larger
  <2> QED
    BY <2>1, <2>2
<1>8. Active(p, 0) = {0}
  BY <1>7 DEF Active
<1>9. RowTo(A, B, p, s.b, s.back, s.h, s.k)
  <2>1. \A d \in Active(p, 0) : ~(d < 0)
    BY <1>8
  <2> QED
    BY <1>2, <2>1 DEF RowTo
<1>10. Apart(p, s)
  <2>1. \A d \in Active(p, 0) : ~(d < 0)
    BY <1>8
  <2> QED
    BY <1>2, <2>1 DEF Apart
<1>11. \A c \in Nat : Leads(Sames(A, B, p, FALSE), p.n, p.m, c) => c >= LeastCost(p, s)
  <2>1. LeastCost(p, s) = IF Parity(p) = 0 THEN 2 * 0 ELSE 2 * 0 - 1
    BY <1>2 DEF LeastCost
  <2>2. \A c \in Nat : c >= 2 * 0 /\ c >= 2 * 0 - 1
    OBVIOUS
  <2> QED
    BY <2>1, <2>2
<1>12. s.h <= HMax(p) /\ s.k \in Active(p, s.h)
  BY <1>2, <1>6, <1>8
<1>13. TRUE \in BOOLEAN /\ FALSE \in BOOLEAN /\ 1 \in Int /\ ~(0 > 0)
  OBVIOUS
<1> HIDE DEF s
<1>14. SearchInv(A, B, p, size, s)
  BY <1>2, <1>3, <1>5, <1>9, <1>10, <1>11, <1>12, <1>13 DEF SearchInv
<1> QED
  BY <1>14 DEF s

-----------------------------------------------------------------------------
(* A search comes to an end, with a split or without. *)
Found(A, B, p, r) ==
  \/ r # <<>> /\ IsSplit(A, B, p, r)
  \/ r = <<>> /\ NoSplit(A, B, p)

LEMMA SearchFinds ==
  ASSUME NEW A, NEW B, NEW p, IsPiece(p), NEW size, Sized(p, size)
  PROVE  Found(A, B, p, Search(A, B, p, size))
<1> DEFINE S == Searches(size)
           Stop(s) == s.end \/ s.split # <<>>
           Next(s) == Probe(A, B, p, s)
           Runs(f) == f = [s \in S |-> IF Stop(s) THEN s.split ELSE f[Next(s)]]
           g == CHOOSE f : Runs(f)
           start == StartSearch(size)
           Stops == {s \in S : Stop(s)}
           step == [s \in S |-> Next(s)]
           value == [s \in S |-> s.split]
<1>1. Search(A, B, p, size) = g[start]
  <2>1. Search(A, B, p, size) =
          (CHOOSE f : f = [s \in Searches(size) |->
                             IF s.end \/ s.split # <<>> THEN s.split ELSE f[Probe(A, B, p, s)]])[start]
    BY Zenon DEF Search, StartSearch
  <2> QED
    BY <2>1
<1>2. \A s \in S : Next(s) \in S
  BY ProbeStays
<1>3. \A s \in S : SearchInv(A, B, p, size, s) => ~Stop(s) /\ ProbeResult(A, B, p, size, s, Next(s))
  <2> SUFFICES ASSUME NEW s \in S, SearchInv(A, B, p, size, s)
               PROVE  ~Stop(s) /\ ProbeResult(A, B, p, size, s, Next(s))
    OBVIOUS
  <2>1. ProbeResult(A, B, p, size, s, Probe(A, B, p, s))
    BY SearchProbe
  <2> QED
    BY <2>1 DEF SearchInv
<1>4. start \in S /\ SearchInv(A, B, p, size, start)
  <2>1. SearchInv(A, B, p, size, StartSearch(size))
    BY SearchStarts
  <2> QED
    BY <2>1 DEF SearchInv
<1>5. \A s \in S, t \in S : ProbeResult(A, B, p, size, s, t) =>
        \/ SearchInv(A, B, p, size, t) /\ Later(s, t)
        \/ Stop(t) /\ Found(A, B, p, t.split)
  BY DEF ProbeResult, Found
<1> HIDE DEF Stop, Next, S, start
<1>6. Runs(g)
  <2>1. \E f : Runs(f)
    <3>1. /\ Stops \in SUBSET S /\ \A t \in S \ Stops : step[t] \in S
          /\ \A t \in S : step[t] = Next(t) /\ value[t] = t.split /\ (t \in Stops <=> Stop(t))
      BY <1>2
    <3> HIDE DEF Stops, step, value
    <3>2. PICK f : Stepped(f, S, Stops, step, value)
      BY <3>1, StepFunction
    <3>3. \A t \in S : f[t] = IF Stop(t) THEN t.split ELSE f[Next(t)]
      BY <3>1, <3>2 DEF Stepped
    <3>4. f = [t \in S |-> f[t]]
      BY <3>2 DEF Stepped
    <3>5. Runs(f)
      BY <3>3, <3>4
    <3> QED
      BY <3>5
  <2> HIDE DEF Runs
  <2> QED
    BY <2>1, Zenon
<1> HIDE DEF g
<1>7. \A s \in S : g[s] = IF Stop(s) THEN s.split ELSE g[Next(s)]
  BY <1>6
<1> HIDE DEF Runs
<1> DEFINE Bad == {s \in S : SearchInv(A, B, p, size, s) /\ ~Found(A, B, p, g[s])}
<1>8. Bad = {}
  <2> SUFFICES ASSUME Bad # {} PROVE FALSE
    OBVIOUS
  <2> DEFINE H == HMax(p)
  <2>1. \A s \in Bad : /\ s \in S /\ SearchInv(A, B, p, size, s) /\ ~Found(A, B, p, g[s])
                       /\ s.h \in Nat /\ H \in Nat /\ s.h <= H /\ s.k \in Int /\ s.k <= H
                       /\ Round(s) \in Nat /\ Round(s) <= 2 * H + 1
    <3> SUFFICES ASSUME NEW s \in S, SearchInv(A, B, p, size, s)
                 PROVE  /\ s.h \in Nat /\ H \in Nat /\ s.h <= H /\ s.k \in Int /\ s.k <= H
                        /\ Round(s) \in Nat /\ Round(s) <= 2 * H + 1
      OBVIOUS
    <3>1. /\ s.h \in Nat /\ H \in Nat /\ s.h <= H /\ s.k \in Int /\ s.h \in 0..H /\ s.back \in BOOLEAN
          /\ s.k \in Active(p, s.h)
      BY SearchFacts DEF SearchInv
    <3>2. s.k <= s.h
      BY <3>1, ActiveNeighbours
    <3> DEFINE h == s.h
    <3>3. Round(s) = 2 * h + 1 \/ Round(s) = 2 * h + 0
      BY <3>1 DEF Round
    <3> HIDE DEF H
    <3>4. s.k <= H
      BY <3>1, <3>2
    <3>5. h \in Nat /\ h <= H
      BY <3>1
    <3> HIDE DEF h
    <3>6. Round(s) \in Nat /\ Round(s) <= 2 * H + 1
      BY <3>1, <3>3, <3>5
    <3> QED
      BY <3>1, <3>4, <3>6
  <2> HIDE DEF Bad, H
  <2> DEFINE left == [s \in Bad |-> (2 * H + 1) - Round(s)]
  <2>2. PICK s0 \in Bad : \A t \in Bad : left[s0] <= left[t]
    <3>1. \A s \in Bad : left[s] \in Nat
      BY <2>1
    <3> HIDE DEF left
    <3> QED
      BY <3>1, LeastBy
  <2>3. \A t \in Bad : Round(t) <= Round(s0)
    <3> SUFFICES ASSUME NEW t \in Bad PROVE Round(t) <= Round(s0)
      OBVIOUS
    <3>1. (2 * H + 1) - Round(s0) <= (2 * H + 1) - Round(t)
      BY <2>2
    <3>2. Round(t) \in Nat /\ Round(s0) \in Nat /\ H \in Nat
      BY <2>1
    <3> QED
      BY <3>1, <3>2
  <2> DEFINE Row0 == {s \in Bad : Round(s) = Round(s0)}
             rest == [s \in Row0 |-> H - s.k]
  <2>4. PICK s \in Row0 : \A t \in Row0 : rest[s] <= rest[t]
    <3>1. \A t \in Row0 : rest[t] \in Nat
      BY <2>1
    <3>2. Row0 # {}
      OBVIOUS
    <3> HIDE DEF rest, Row0
    <3> QED
      BY <3>1, <3>2, LeastBy
  <2>5. s \in Bad /\ Round(s) = Round(s0)
    BY <2>4
  <2> DEFINE t == Next(s)
  <2>6. t \in S /\ ~Stop(s) /\ ProbeResult(A, B, p, size, s, t)
    BY <1>2, <1>3, <2>1, <2>5
  <2>7. g[s] = g[t]
    BY <1>7, <2>1, <2>5, <2>6
  <2> HIDE DEF t
  <2>8. ~(SearchInv(A, B, p, size, t) /\ Later(s, t))
    <3> SUFFICES ASSUME SearchInv(A, B, p, size, t), Later(s, t) PROVE FALSE
      OBVIOUS
    <3>1. t \in Bad
      BY <2>1, <2>5, <2>6, <2>7 DEF Bad
    <3>2. Round(t) <= Round(s) /\ Round(t) \in Nat /\ Round(s) \in Nat
      BY <2>1, <2>3, <2>5, <3>1
    <3>3. Round(t) = Round(s) /\ t.k > s.k
      BY <3>2 DEF Later
    <3>4. H - s.k <= H - t.k
      BY <2>4, <2>5, <3>1, <3>3
    <3>5. t.k \in Int /\ s.k \in Int /\ H \in Nat
      BY <2>1, <2>5, <3>1
    <3> QED
      BY <3>3, <3>4, <3>5
  <2>9. Stop(t) /\ Found(A, B, p, t.split)
    BY <1>5, <2>1, <2>5, <2>6, <2>8
  <2>10. g[t] = t.split
    BY <1>7, <2>6, <2>9
  <2> QED
    BY <2>1, <2>5, <2>7, <2>9, <2>10
<1> QED
  BY <1>1, <1>4, <1>8

-----------------------------------------------------------------------------
(* The ranges a diff has sent out. *)

Ranges == Seq([delStart : Nat, delEnd : Nat, insStart : Nat, insEnd : Nat])

EndX(rs, q) == IF q = 0 THEN 0 ELSE rs[q].delEnd
EndY(rs, q) == IF q = 0 THEN 0 ELSE rs[q].insEnd

(* From <<x, y>> to <<u, v>> all lines are equal. *)
Gap(A, B, x, y, u, v) ==
  /\ x \in Nat /\ y \in Nat /\ u \in Nat /\ v \in Nat
  /\ x <= u /\ u - x = v - y
  /\ \A t \in 0..u - x - 1 : Eq(A, B, x + t, y + t)

(* The ranges are in order, what is between them is equal, and so is what  *)
(* follows up to <<x, y>>; K counts the equal lines before each.           *)
ReachedBy(A, B, rs, x, y, kept, K) ==
  /\ rs \in Ranges /\ K \in [0..Len(rs) -> Nat] /\ K[0] = 0
  /\ \A q \in 1..Len(rs) :
       /\ Gap(A, B, EndX(rs, q - 1), EndY(rs, q - 1), rs[q].delStart, rs[q].insStart)
       /\ rs[q].delStart <= rs[q].delEnd /\ rs[q].insStart <= rs[q].insEnd
       /\ K[q] = K[q - 1] + (rs[q].delStart - EndX(rs, q - 1))
  /\ Gap(A, B, EndX(rs, Len(rs)), EndY(rs, Len(rs)), x, y)
  /\ kept = K[Len(rs)] + (x - EndX(rs, Len(rs)))

Reached(A, B, rs, x, y, kept) == \E K : ReachedBy(A, B, rs, x, y, kept, K)

LEMMA ReachedStart ==
  ASSUME NEW A, NEW B
  PROVE  Reached(A, B, <<>>, 0, 0, 0)
<1> DEFINE K == [q \in 0..0 |-> 0]
<1>1. <<>> \in Ranges /\ Len(<<>>) = 0 /\ 1..0 = {}
  BY DEF Ranges
<1>2. K \in [0..Len(<<>>) -> Nat] /\ K[0] = 0 /\ 0 = K[0] + (0 - 0)
  BY <1>1
<1>3. Gap(A, B, 0, 0, 0, 0)
  BY DEF Gap
<1>4. EndX(<<>>, 0) = 0 /\ EndY(<<>>, 0) = 0
  BY DEF EndX, EndY
<1> HIDE DEF K
<1>5. \A q \in 1..Len(<<>>) : FALSE
  BY <1>1
<1>6. ReachedBy(A, B, <<>>, 0, 0, 0, K)
  BY <1>1, <1>2, <1>3, <1>4, <1>5 DEF ReachedBy
<1> QED
  BY <1>6 DEF Reached

LEMMA GapLonger ==
  ASSUME NEW A, NEW B, NEW x, NEW y, NEW u, NEW v, Gap(A, B, x, y, u, v),
         NEW c \in Nat, \A t \in 0..c - 1 : Eq(A, B, u + t, v + t)
  PROVE  Gap(A, B, x, y, u + c, v + c)
<1>1. /\ x \in Nat /\ y \in Nat /\ u \in Nat /\ v \in Nat /\ x <= u /\ u - x = v - y
      /\ \A t \in 0..u - x - 1 : Eq(A, B, x + t, y + t)
  BY DEF Gap
<1>2. ASSUME NEW t \in 0..(u + c) - x - 1 PROVE Eq(A, B, x + t, y + t)
  <2>1. CASE t \in 0..u - x - 1
    BY <1>1, <2>1
  <2>2. CASE t \notin 0..u - x - 1
    <3> DEFINE r == t - (u - x)
    <3>1. r \in 0..c - 1 /\ u + r = x + t /\ v + r = y + t
      BY <1>1, <2>2
    <3> HIDE DEF r
    <3> QED
      BY <3>1
  <2> QED
    BY <2>1, <2>2
<1>3. u + c \in Nat /\ v + c \in Nat /\ x <= u + c /\ (u + c) - x = (v + c) - y
  BY <1>1
<1> QED
  BY <1>1, <1>2, <1>3 DEF Gap

LEMMA ReachedEqual ==
  ASSUME NEW A, NEW B, NEW rs, NEW x, NEW y, NEW kept, Reached(A, B, rs, x, y, kept),
         NEW c \in Nat, \A t \in 0..c - 1 : Eq(A, B, x + t, y + t)
  PROVE  Reached(A, B, rs, x + c, y + c, kept + c)
<1>1. PICK K : ReachedBy(A, B, rs, x, y, kept, K)
  BY DEF Reached
<1> DEFINE L == Len(rs)  X == EndX(rs, L)  Y == EndY(rs, L)
<1>2. Gap(A, B, X, Y, x, y) /\ kept = K[L] + (x - X) /\ K \in [0..L -> Nat] /\ rs \in Ranges
  BY <1>1 DEF ReachedBy
<1>3. X \in Nat /\ x \in Nat
  BY <1>2 DEF Gap
<1>4. L \in Nat
  BY <1>2 DEF Ranges
<1>5. K[L] \in Nat
  BY <1>2, <1>4
<1> HIDE DEF L, X, Y
<1>6. Gap(A, B, X, Y, x + c, y + c)
  BY <1>2, GapLonger
<1>7. kept + c = K[L] + ((x + c) - X)
  BY <1>2, <1>3, <1>5
<1>8. ReachedBy(A, B, rs, x + c, y + c, kept + c, K)
  BY <1>1, <1>6, <1>7 DEF ReachedBy, L, X, Y
<1> QED
  BY <1>8 DEF Reached

(* A piece with an empty side is one more range. *)
LEMMA ReachedEmit ==
  ASSUME NEW A, NEW B, NEW d, NEW kept, Reached(A, B, d.ranges, d.i, d.j, kept),
         d.n \in Nat, d.m \in Nat, d.n = 0 \/ d.m = 0
  PROVE  Emit(d) \in Ranges /\ Reached(A, B, Emit(d), d.i + d.n, d.j + d.m, kept)
<1> DEFINE rs == d.ranges  i == d.i  j == d.j  n == d.n  m == d.m
           L == Len(rs)  X == EndX(rs, L)  Y == EndY(rs, L)
<1>1. PICK K : ReachedBy(A, B, rs, i, j, kept, K)
  BY DEF Reached
<1>2. /\ rs \in Ranges /\ K \in [0..L -> Nat] /\ K[0] = 0
      /\ \A q \in 1..L :
           /\ Gap(A, B, EndX(rs, q - 1), EndY(rs, q - 1), rs[q].delStart, rs[q].insStart)
           /\ rs[q].delStart <= rs[q].delEnd /\ rs[q].insStart <= rs[q].insEnd
           /\ K[q] = K[q - 1] + (rs[q].delStart - EndX(rs, q - 1))
      /\ Gap(A, B, X, Y, i, j) /\ kept = K[L] + (i - X)
  BY <1>1 DEF ReachedBy
<1>3. /\ X \in Nat /\ Y \in Nat /\ i \in Nat /\ j \in Nat /\ X <= i /\ i - X = j - Y
      /\ n \in Nat /\ m \in Nat /\ L \in Nat
  BY <1>2 DEF Gap, Ranges
<1>4. K[L] \in Nat
  BY <1>2, <1>3
<1>5. \A u, v \in Nat : Gap(A, B, u, v, u, v)
  <2> SUFFICES ASSUME NEW u \in Nat, NEW v \in Nat PROVE Gap(A, B, u, v, u, v)
    OBVIOUS
  <2>1. u - u = v - v /\ 0..u - u - 1 = {}
    OBVIOUS
  <2> QED
    BY <2>1 DEF Gap
<1> DEFINE touches == L > 0 /\ (rs[L].delEnd = i \/ rs[L].insEnd = j)
<1>6. CASE n + m = 0
  <2>1. n = 0 /\ m = 0 /\ Emit(d) = rs /\ i + n = i /\ j + m = j
    BY <1>3, <1>6 DEF Emit
  <2> QED
    BY <1>1, <1>2, <2>1 DEF Reached
<1>7. CASE n + m # 0 /\ touches
  <2> DEFINE new == [rs EXCEPT ![L].delEnd = i + n, ![L].insEnd = j + m]
  <2>1. Emit(d) = new
    BY <1>7 DEF Emit
  <2>2. L > 0 /\ L \in 1..L /\ X = rs[L].delEnd /\ Y = rs[L].insEnd
    BY <1>3, <1>7 DEF EndX, EndY
  <2>3. X = i /\ Y = j
    BY <1>3, <1>7, <2>2, SMTT(30)
  <2>4. rs \in Seq([delStart : Nat, delEnd : Nat, insStart : Nat, insEnd : Nat])
    BY <1>2 DEF Ranges
  <2>5. rs[L] \in [delStart : Nat, delEnd : Nat, insStart : Nat, insEnd : Nat]
    <3>1. L \in 1..Len(rs)
      BY <2>2
    <3> HIDE DEF rs, L
    <3> QED
      BY <2>4, <3>1, ElementOfSeq
  <2>6. /\ new \in Seq([delStart : Nat, delEnd : Nat, insStart : Nat, insEnd : Nat]) /\ Len(new) = L
        /\ new[L].delStart = rs[L].delStart /\ new[L].insStart = rs[L].insStart
        /\ new[L].delEnd = i + n /\ new[L].insEnd = j + m
        /\ \A q \in 1..L : q # L => new[q] = rs[q]
    <3> DEFINE e == [[rs[L] EXCEPT !.delEnd = i + n] EXCEPT !.insEnd = j + m]
    <3>1. new = [rs EXCEPT ![L] = e]
      BY <2>2, <2>4
    <3>2. i + n \in Nat /\ j + m \in Nat
      BY <1>3, SMTT(30)
    <3>3. /\ e \in [delStart : Nat, delEnd : Nat, insStart : Nat, insEnd : Nat]
          /\ e.delStart = rs[L].delStart /\ e.insStart = rs[L].insStart
          /\ e.delEnd = i + n /\ e.insEnd = j + m
      BY <2>5, <3>2
    <3> HIDE DEF new, e, L, i, j, n, m, rs
    <3>4. new \in Seq([delStart : Nat, delEnd : Nat, insStart : Nat, insEnd : Nat]) /\ Len(new) = Len(rs)
      BY <2>2, <2>4, <3>1, <3>3 DEF L
    <3>5. new[L] = e /\ \A q \in 1..L : q # L => new[q] = rs[q]
      BY <2>2, <2>4, <3>1 DEF L
    <3> QED
      BY <3>3, <3>4, <3>5 DEF L
  <2> HIDE DEF new
  <2>7. \A q \in 0..L - 1 : EndX(new, q) = EndX(rs, q) /\ EndY(new, q) = EndY(rs, q)
    <3> SUFFICES ASSUME NEW q \in 0..L - 1 PROVE EndX(new, q) = EndX(rs, q) /\ EndY(new, q) = EndY(rs, q)
      OBVIOUS
    <3>1. q # 0 => q \in 1..L /\ q # L
      BY <1>3, SMTT(30)
    <3> QED
      BY <2>6, <3>1 DEF EndX, EndY
  <2>8. ASSUME NEW q \in 1..L
        PROVE  /\ Gap(A, B, EndX(new, q - 1), EndY(new, q - 1), new[q].delStart, new[q].insStart)
               /\ new[q].delStart <= new[q].delEnd /\ new[q].insStart <= new[q].insEnd
               /\ K[q] = K[q - 1] + (new[q].delStart - EndX(new, q - 1))
    <3>1. q - 1 \in 0..L - 1
      BY <1>3
    <3>2. new[q].delStart = rs[q].delStart /\ new[q].insStart = rs[q].insStart
      BY <2>6
    <3>3. new[q].delStart <= new[q].delEnd /\ new[q].insStart <= new[q].insEnd
      <4>1. CASE q = L
        <5>1. rs[L].delStart <= i /\ rs[L].insStart <= j
          BY <1>2, <2>2, <2>3
        <5>2. rs[L].delStart \in Nat /\ rs[L].insStart \in Nat
          BY <2>5
        <5>3. rs[L].delStart <= i + n /\ rs[L].insStart <= j + m
          <6> DEFINE e == rs[L].delStart  f == rs[L].insStart
          <6>1. e \in Nat /\ f \in Nat /\ e <= i /\ f <= j
            BY <5>1, <5>2
          <6> HIDE DEF e, f, i, j, n, m
          <6>2. e <= i + n /\ f <= j + m
            BY <1>3, <6>1
          <6> QED
            BY <6>2 DEF e, f
        <5> QED
          BY <2>6, <4>1, <5>3
      <4>2. CASE q # L
        BY <1>2, <2>6, <4>2
      <4> QED
        BY <4>1, <4>2
    <3> QED
      BY <1>2, <2>7, <3>1, <3>2, <3>3
  <2>9. EndX(new, L) = i + n /\ EndY(new, L) = j + m
    BY <2>2, <2>6, SMTT(30) DEF EndX, EndY
  <2>10. Gap(A, B, i + n, j + m, i + n, j + m)
    BY <1>3, <1>5, SMTT(30)
  <2>11. kept = K[L] + ((i + n) - (i + n))
    BY <1>2, <1>3, <1>4, <2>3
  <2>12. ReachedBy(A, B, new, i + n, j + m, kept, K)
    BY <1>2, <2>6, <2>8, <2>9, <2>10, <2>11 DEF ReachedBy, Ranges
  <2> QED
    BY <2>1, <2>6, <2>12 DEF Reached, Ranges
<1>8. CASE n + m # 0 /\ ~touches
  <2> DEFINE new == Append(rs, RangeOf(d))
             J == [q \in 0..L + 1 |-> IF q <= L THEN K[q] ELSE kept]
  <2>1. Emit(d) = new
    BY <1>8 DEF Emit
  <2>2. RangeOf(d) = [delStart |-> i, delEnd |-> i + n, insStart |-> j, insEnd |-> j + m]
    BY DEF RangeOf
  <2>3. i + n \in Nat /\ j + m \in Nat
    BY <1>3
  <2>4. RangeOf(d) \in [delStart : Nat, delEnd : Nat, insStart : Nat, insEnd : Nat]
    BY <1>3, <2>2, <2>3
  <2>5. /\ new \in Ranges /\ Len(new) = L + 1 /\ new[L + 1] = RangeOf(d)
        /\ \A q \in 1..L : new[q] = rs[q]
    <3>1. rs \in Seq([delStart : Nat, delEnd : Nat, insStart : Nat, insEnd : Nat])
      BY <1>2 DEF Ranges
    <3> HIDE DEF rs
    <3> QED
      BY <2>4, <3>1, AppendProperties DEF Ranges
  <2> HIDE DEF new
  <2>6. \A q \in 0..L : EndX(new, q) = EndX(rs, q) /\ EndY(new, q) = EndY(rs, q)
    <3> SUFFICES ASSUME NEW q \in 0..L PROVE EndX(new, q) = EndX(rs, q) /\ EndY(new, q) = EndY(rs, q)
      OBVIOUS
    <3>1. q # 0 => q \in 1..L
      BY <1>3
    <3> QED
      BY <2>5, <3>1 DEF EndX, EndY
  <2>7. kept \in Nat
    BY <1>2, <1>3, <1>4, SMTT(30)
  <2>8. /\ J \in [0..L + 1 -> Nat] /\ J[0] = 0 /\ J[L + 1] = kept
        /\ \A q \in 0..L : J[q] = K[q]
    BY <1>2, <1>3, <2>7, SMTT(30)
  <2> HIDE DEF J
  <2>9. ASSUME NEW q \in 1..L + 1
        PROVE  /\ Gap(A, B, EndX(new, q - 1), EndY(new, q - 1), new[q].delStart, new[q].insStart)
               /\ new[q].delStart <= new[q].delEnd /\ new[q].insStart <= new[q].insEnd
               /\ J[q] = J[q - 1] + (new[q].delStart - EndX(new, q - 1))
    <3>1. q - 1 \in 0..L
      BY <1>3
    <3>2. CASE q = L + 1
      <4>1. q - 1 = L /\ L \in 0..L
        BY <1>3, <3>2
      <4>2. /\ new[q].delStart = i /\ new[q].delEnd = i + n /\ new[q].insStart = j /\ new[q].insEnd = j + m
            /\ EndX(new, q - 1) = X /\ EndY(new, q - 1) = Y /\ J[q] = kept /\ J[q - 1] = K[L]
        BY <2>2, <2>5, <2>6, <2>8, <3>2, <4>1
      <4>3. i <= i + n /\ j <= j + m
        BY <1>3, SMTT(30)
      <4> QED
        BY <1>2, <4>2, <4>3
    <3>3. CASE q # L + 1
      <4>1. q \in 1..L /\ q \in 0..L
        BY <1>3, <3>3, SMTT(30)
      <4>2. /\ Gap(A, B, EndX(rs, q - 1), EndY(rs, q - 1), rs[q].delStart, rs[q].insStart)
            /\ rs[q].delStart <= rs[q].delEnd /\ rs[q].insStart <= rs[q].insEnd
            /\ K[q] = K[q - 1] + (rs[q].delStart - EndX(rs, q - 1))
        BY <1>2, <4>1
      <4>3. new[q] = rs[q] /\ J[q] = K[q] /\ J[q - 1] = K[q - 1]
        BY <2>5, <2>8, <3>1, <4>1
      <4>4. EndX(new, q - 1) = EndX(rs, q - 1) /\ EndY(new, q - 1) = EndY(rs, q - 1)
        BY <2>6, <3>1
      <4> QED
        BY <4>2, <4>3, <4>4
    <3> QED
      BY <3>2, <3>3
  <2>10. EndX(new, L + 1) = i + n /\ EndY(new, L + 1) = j + m
    <3>1. L + 1 # 0
      BY <1>3
    <3> QED
      BY <2>2, <2>5, <3>1 DEF EndX, EndY
  <2>11. Gap(A, B, i + n, j + m, i + n, j + m)
    BY <1>3, <1>5
  <2>12. kept = J[L + 1] + ((i + n) - (i + n))
    BY <1>3, <2>7, <2>8
  <2>13. ReachedBy(A, B, new, i + n, j + m, kept, J)
    BY <2>5, <2>8, <2>9, <2>10, <2>11, <2>12 DEF ReachedBy
  <2> QED
    BY <2>1, <2>5, <2>13 DEF Reached
<1> QED
  BY <1>6, <1>7, <1>8

-----------------------------------------------------------------------------
(* Pieces of a piece. *)

LEMMA SamesOfPart ==
  ASSUME NEW A, NEW B, NEW p, p.i \in Nat, p.j \in Nat, p.n \in Nat, p.m \in Nat,
         NEW q, q.i \in Nat, q.j \in Nat, q.n \in Nat, q.m \in Nat, q.n <= p.n, q.m <= p.m
  PROVE  /\ q.i = p.i /\ q.j = p.j =>
              \A x, y \in Nat : x < q.n /\ y < q.m =>
                (In(Sames(A, B, q, FALSE), x, y) <=> In(Sames(A, B, p, FALSE), x, y))
         /\ q.i + q.n = p.i + p.n /\ q.j + q.m = p.j + p.m =>
              \A x, y \in Nat : x < q.n /\ y < q.m =>
                (In(Sames(A, B, q, TRUE), x, y) <=> In(Sames(A, B, p, TRUE), x, y))
<1>1. ASSUME q.i = p.i, q.j = p.j, NEW x \in Nat, NEW y \in Nat, x < q.n, y < q.m
      PROVE  In(Sames(A, B, q, FALSE), x, y) <=> In(Sames(A, B, p, FALSE), x, y)
  <2>1. x < p.n /\ y < p.m
    BY <1>1
  <2>2. SameAt(A, B, q, FALSE, x, y) <=> SameAt(A, B, p, FALSE, x, y)
    BY <1>1 DEF SameAt
  <2> QED
    BY <1>1, <2>1, <2>2, InSames
<1>2. ASSUME q.i + q.n = p.i + p.n, q.j + q.m = p.j + p.m, NEW x \in Nat, NEW y \in Nat, x < q.n, y < q.m
      PROVE  In(Sames(A, B, q, TRUE), x, y) <=> In(Sames(A, B, p, TRUE), x, y)
  <2>1. x < p.n /\ y < p.m
    BY <1>2
  <2>2. SameAt(A, B, q, TRUE, x, y) <=> SameAt(A, B, p, TRUE, x, y)
    <3> DEFINE a == q.i + q.n - 1 - x  b == q.j + q.m - 1 - y
               c == p.i + p.n - 1 - x  d == p.j + p.m - 1 - y
    <3>1. a = c /\ b = d
      <4> DEFINE qi == q.i  qn == q.n  qj == q.j  qm == q.m  pi == p.i  pn == p.n  pj == p.j  pm == p.m
      <4>1. /\ qi \in Nat /\ qn \in Nat /\ qj \in Nat /\ qm \in Nat
            /\ pi \in Nat /\ pn \in Nat /\ pj \in Nat /\ pm \in Nat
            /\ qi + qn = pi + pn /\ qj + qm = pj + pm
        BY <1>2
      <4> HIDE DEF qi, qn, qj, qm, pi, pn, pj, pm
      <4>2. qi + qn - 1 - x = pi + pn - 1 - x /\ qj + qm - 1 - y = pj + pm - 1 - y
        BY <4>1
      <4> QED
        BY <4>2 DEF qi, qn, qj, qm, pi, pn, pj, pm
    <3>2. (SameAt(A, B, q, TRUE, x, y) <=> Eq(A, B, a, b)) /\ (SameAt(A, B, p, TRUE, x, y) <=> Eq(A, B, c, d))
      BY DEF SameAt
    <3> HIDE DEF a, b, c, d
    <3> QED
      BY <3>1, <3>2
  <2> QED
    BY <1>2, <2>1, <2>2, InSames
<1> QED
  BY <1>1, <1>2

HalvesOf(p, p1, p2, a, b, t, c, d) ==
  /\ p1.i = p.i /\ p1.n = a /\ p1.j = p.j /\ p1.m = b
  /\ p2.i = p.i + a + t /\ p2.n = c /\ p2.j = p.j + b + t /\ p2.m = d

(* The least cost of a piece is that of the two it is split into. *)
LEMMA SplitCost ==
  ASSUME NEW A, NEW B, NEW p, p.i \in Nat, p.j \in Nat, p.n \in Nat, p.m \in Nat,
         NEW r, NEW a \in Nat, NEW b \in Nat, NEW t \in Nat, NEW c \in Nat, NEW d \in Nat,
         NEW h \in Nat, NEW g \in Nat, SplitWith(A, B, p, r, a, b, t, c, d, h, g),
         NEW p1, NEW p2, HalvesOf(p, p1, p2, a, b, t, c, d),
         NEW c1 \in Nat, Least(Sames(A, B, p1, FALSE), a, b, c1),
         NEW c2 \in Nat, Least(Sames(A, B, p2, FALSE), c, d, c2)
  PROVE  Least(Sames(A, B, p, FALSE), p.n, p.m, c1 + c2)
<1> DEFINE E == Sames(A, B, p, FALSE)  F == Sames(A, B, p, TRUE)
           E1 == Sames(A, B, p1, FALSE)  E2 == Sames(A, B, p2, FALSE)  F2 == Sames(A, B, p2, TRUE)
           n == p.n  m == p.m
<1>1. /\ a + t + c = n /\ b + t + d = m /\ n \in Nat /\ m \in Nat
      /\ \A q \in 0..t - 1 : In(E, a + q, b + q)
      /\ Leads(E, a, b, h) /\ Leads(F, c, d, g)
      /\ Least(E, n, m, h + g)
  BY DEF SplitWith
<1>2. /\ p1.i \in Nat /\ p1.j \in Nat /\ p1.n \in Nat /\ p1.m \in Nat /\ p1.n <= p.n /\ p1.m <= p.m
      /\ p1.i = p.i /\ p1.j = p.j /\ p1.n = a /\ p1.m = b
  BY <1>1 DEF HalvesOf
<1>3. /\ p2.i \in Nat /\ p2.j \in Nat /\ p2.n \in Nat /\ p2.m \in Nat /\ p2.n <= p.n /\ p2.m <= p.m
      /\ p2.i + p2.n = p.i + p.n /\ p2.j + p2.m = p.j + p.m /\ p2.n = c /\ p2.m = d
  <2> DEFINE i == p.i  j == p.j
  <2>1. i \in Nat /\ j \in Nat
    OBVIOUS
  <2> HIDE DEF i, j, n, m
  <2>2. /\ i + a + t \in Nat /\ j + b + t \in Nat /\ c <= n /\ d <= m
        /\ (i + a + t) + c = i + n /\ (j + b + t) + d = j + m
    BY <1>1, <2>1
  <2> QED
    BY <2>2 DEF i, j, n, m, HalvesOf
<1>4. \A x, y \in Nat : x < a /\ y < b => (In(E1, x, y) <=> In(E, x, y))
  BY <1>2, SamesOfPart
<1>5. \A x, y \in Nat : x < c /\ y < d => (In(F2, x, y) <=> In(F, x, y))
  BY <1>3, SamesOfPart
<1>6. Mirrors(E2, F2, c, d) /\ Mirrors(F2, E2, c, d)
  <2>1. Mirrors(E2, F2, c, d)
    BY <1>3, SamesMirrored
  <2> HIDE DEF E2, F2
  <2> QED
    BY <2>1, MirrorsBack
<1>7. Mirrors(E, F, n, m)
  BY SamesMirrored
<1>8. Least(E1, a, b, c1) /\ Least(E2, c, d, c2)
  OBVIOUS
<1> HIDE DEF E, F, E1, E2, F2, n, m
<1>9. c1 <= h
  <2>1. Leads(E1, a, b, h)
    BY <1>1, <1>4, PathWithin
  <2> QED
    BY <1>8, <2>1 DEF Least
<1>10. c2 <= g
  <2>1. Leads(F2, c, d, g)
    BY <1>1, <1>5, PathWithin
  <2>2. Leads(E2, c, d, g)
    BY <1>6, <2>1, PathMirror
  <2> QED
    BY <1>8, <2>2 DEF Least
<1>11. Leads(E, n, m, c1 + c2)
  <2>1. Leads(E, a, b, c1)
    BY <1>4, <1>8, PathWithin DEF Least
  <2>2. Leads(E, a + t, b + t, c1)
    BY <1>1, <2>1, PathDiagonal
  <2>3. Leads(F2, c, d, c2)
    BY <1>6, <1>8, PathMirror DEF Least
  <2>4. Leads(F, c, d, c2)
    BY <1>5, <2>3, PathWithin
  <2> DEFINE x == a + t  y == b + t
  <2>5. x \in 0..n /\ y \in 0..m /\ n - x = c /\ m - y = d
    BY <1>1
  <2> HIDE DEF x, y
  <2>6. Leads(E, x, y, c1) /\ Leads(F, n - x, m - y, c2)
    BY <2>2, <2>4, <2>5 DEF x, y
  <2> QED
    BY <1>1, <1>7, <2>5, <2>6, PathJoin
<1>12. c1 + c2 \in Nat /\ c1 + c2 >= h + g
  BY <1>1, <1>11 DEF Least
<1>13. c1 + c2 = h + g
  BY <1>9, <1>10, <1>12
<1> QED
  BY <1>1, <1>13 DEF E, n, m

(* A piece with an empty side costs the other one. *)
LEMMA EmptyCost ==
  ASSUME NEW E, NEW n \in Nat, NEW m \in Nat, n = 0 \/ m = 0
  PROVE  Least(E, n, m, n + m)
<1>1. Leads(E, 0, 0, 0)
  BY PathSteps
<1>2. Leads(E, n, m, n + m)
  <2>1. Leads(E, 0 + n, 0, 0 + n) /\ Leads(E, 0, 0 + m, 0 + m)
    BY <1>1, PathStraight
  <2>2. 0 + n = n /\ 0 + m = m /\ (n = 0 => n + m = m) /\ (m = 0 => n + m = n)
    OBVIOUS
  <2> QED
    BY <2>1, <2>2
<1>3. ASSUME NEW c \in Nat, Leads(E, n, m, c) PROVE c >= n + m
  <2>1. n - m <= c /\ m - n <= c
    BY <1>3, PathSlope
  <2> QED
    BY <2>1
<1> QED
  BY <1>2, <1>3 DEF Least

(* When the shorter side is all equal the longer one is what it costs. *)
LEMMA EqualCost ==
  ASSUME NEW E, NEW n \in Nat, NEW m \in Nat, NEW e \in Nat, e = Smaller(n, m),
         \A t \in 0..e - 1 : In(E, t, t)
  PROVE  Least(E, n, m, n + m - 2 * e)
<1>1. e <= n /\ e <= m /\ (e = n \/ e = m)
  BY DEF Smaller
<1>2. Leads(E, e, e, 0)
  <2>1. Leads(E, 0, 0, 0)
    BY PathSteps
  <2>2. \A t \in 0..e - 1 : In(E, 0 + t, 0 + t)
    <3>1. \A t \in 0..e - 1 : 0 + t = t
      OBVIOUS
    <3> QED
      BY <3>1
  <2>3. Leads(E, 0 + e, 0 + e, 0)
    BY <2>1, <2>2, PathDiagonal
  <2>4. 0 + e = e
    OBVIOUS
  <2> QED
    BY <2>3, <2>4
<1>3. Leads(E, n, m, n + m - 2 * e)
  <2> DEFINE x == n - e  y == m - e
  <2>1. x \in Nat /\ y \in Nat /\ e + x = n /\ e + y = m
    BY <1>1
  <2>2. 0 + x = x /\ 0 + y = y
    BY <2>1
  <2> HIDE DEF x, y
  <2>3. Leads(E, e + x, e, 0 + x) /\ Leads(E, e, e + y, 0 + y)
    BY <1>2, <2>1, PathStraight
  <2>4. CASE e = m
    <3>1. Leads(E, n, m, x)
      BY <2>1, <2>2, <2>3, <2>4
    <3>2. n + m - 2 * e = x
      BY <2>1, <2>4
    <3> QED
      BY <3>1, <3>2
  <2>5. CASE e = n
    <3>1. Leads(E, n, m, y)
      BY <2>1, <2>2, <2>3, <2>5
    <3>2. n + m - 2 * e = y
      BY <2>1, <2>5
    <3> QED
      BY <3>1, <3>2
  <2> QED
    BY <1>1, <2>4, <2>5
<1>4. ASSUME NEW c \in Nat, Leads(E, n, m, c) PROVE c >= n + m - 2 * e
  <2>1. n - m <= c /\ m - n <= c
    BY <1>4, PathSlope
  <2> QED
    BY <1>1, <2>1
<1> QED
  BY <1>3, <1>4 DEF Least

-----------------------------------------------------------------------------
(* A step of a diff stays inside the texts. *)

IsDiff(A, B, d) ==
  /\ d.i \in Nat /\ d.n \in Nat /\ d.j \in Nat /\ d.m \in Nat /\ d.z \in Nat
  /\ d.stack \in Seq(Nat \X Nat \X Nat \X Nat) /\ d.ranges \in Ranges /\ d.end \in BOOLEAN
  /\ d.i + d.n <= Len(A) /\ d.j + d.m <= Len(B)
  /\ d.n > 0 /\ d.m > 0 => d.z = ZOf(d.n, d.m)
  /\ \A q \in DOMAIN d.stack :
       Inside(A, B, d.stack[q][1], d.stack[q][2], d.stack[q][3], d.stack[q][4])

LEMMA DiffFacts ==
  ASSUME NEW A, NEW B, NEW d \in Diffs(A, B)
  PROVE  IsDiff(A, B, d)
BY DEF Diffs, IsDiff, Inside, Ranges

SizeOf(A, B) == 2 * ZOf(Len(A), Len(B))

LEMMA DiffSized ==
  ASSUME NEW A, NEW B, Len(A) \in Nat, Len(B) \in Nat, NEW d, IsDiff(A, B, d), d.n > 0, d.m > 0
  PROVE  IsPiece(d) /\ Sized(d, SizeOf(A, B))
<1> DEFINE n == d.n  m == d.m  N == Len(A)  M == Len(B)
<1>1. n \in Nat /\ m \in Nat /\ n > 0 /\ m > 0 /\ d.z = ZOf(n, m) /\ d.i \in Nat /\ d.j \in Nat
  BY DEF IsDiff
<1>2. n <= N /\ m <= M /\ N \in Nat /\ M \in Nat
  <2> DEFINE i == d.i  j == d.j
  <2>1. i + n <= N /\ j + m <= M /\ i \in Nat /\ j \in Nat /\ N \in Nat /\ M \in Nat
    BY DEF IsDiff
  <2> HIDE DEF i, j, n, m, N, M
  <2> QED
    BY <1>1, <2>1
<1> HIDE DEF n, m, N, M
<1>3. ZOf(N, M) \in Nat /\ 2 * ZOf(N, M) >= 2 * ZOf(n, m)
  BY <1>1, <1>2 DEF ZOf, Smaller
<1>4. IsPiece(d)
  BY <1>1 DEF IsPiece, n, m
<1>5. Sized(d, SizeOf(A, B))
  BY <1>1, <1>3 DEF Sized, SizeOf, N, M
<1> QED
  BY <1>4, <1>5

DiffAt(i, n, j, m, z, stack, ranges, end) ==
  [i |-> i, n |-> n, j |-> j, m |-> m, z |-> z, stack |-> stack, ranges |-> ranges, end |-> end]

Pieces == Nat \X Nat \X Nat \X Nat

StackInside(A, B, stack) ==
  \A q \in DOMAIN stack : Inside(A, B, stack[q][1], stack[q][2], stack[q][3], stack[q][4])

LEMMA InDiffs ==
  ASSUME NEW A, NEW B,
         NEW i \in Nat, NEW n \in Nat, NEW j \in Nat, NEW m \in Nat, NEW z \in Nat,
         NEW stack \in Seq(Pieces), NEW ranges \in Ranges, NEW end \in BOOLEAN,
         Inside(A, B, i, n, j, m), n > 0 /\ m > 0 => z = ZOf(n, m), StackInside(A, B, stack)
  PROVE  DiffAt(i, n, j, m, z, stack, ranges, end) \in Diffs(A, B)
<1> DEFINE d == DiffAt(i, n, j, m, z, stack, ranges, end)
<1>1. d \in [i : Nat, n : Nat, j : Nat, m : Nat, z : Nat, stack : Seq(Nat \X Nat \X Nat \X Nat),
             ranges : Seq([delStart : Nat, delEnd : Nat, insStart : Nat, insEnd : Nat]), end : BOOLEAN]
  BY DEF DiffAt, Pieces, Ranges
<1>2. d.i = i /\ d.n = n /\ d.j = j /\ d.m = m /\ d.z = z /\ d.stack = stack
  BY DEF DiffAt
<1> HIDE DEF d
<1>3. Inside(A, B, d.i, d.n, d.j, d.m) /\ (d.n > 0 /\ d.m > 0 => d.z = ZOf(d.n, d.m))
  BY <1>2
<1>4. StackInside(A, B, d.stack)
  BY <1>2
<1>5. d \in Diffs(A, B)
  BY <1>1, <1>3, <1>4 DEF Diffs, StackInside
<1> QED
  BY <1>5 DEF d

LEMMA DiffRecord ==
  ASSUME NEW A, NEW B, NEW d \in Diffs(A, B)
  PROVE  /\ d = DiffAt(d.i, d.n, d.j, d.m, d.z, d.stack, d.ranges, d.end)
         /\ d.i \in Nat /\ d.n \in Nat /\ d.j \in Nat /\ d.m \in Nat /\ d.z \in Nat
         /\ d.stack \in Seq(Pieces) /\ d.ranges \in Ranges /\ d.end \in BOOLEAN
         /\ Inside(A, B, d.i, d.n, d.j, d.m) /\ (d.n > 0 /\ d.m > 0 => d.z = ZOf(d.n, d.m))
         /\ StackInside(A, B, d.stack)
<1>1. d \in [i : Nat, n : Nat, j : Nat, m : Nat, z : Nat, stack : Seq(Nat \X Nat \X Nat \X Nat),
             ranges : Seq([delStart : Nat, delEnd : Nat, insStart : Nat, insEnd : Nat]), end : BOOLEAN]
  BY DEF Diffs
<1>2. d = DiffAt(d.i, d.n, d.j, d.m, d.z, d.stack, d.ranges, d.end)
  BY <1>1 DEF DiffAt
<1>3. /\ Inside(A, B, d.i, d.n, d.j, d.m) /\ (d.n > 0 /\ d.m > 0 => d.z = ZOf(d.n, d.m))
      /\ StackInside(A, B, d.stack)
  BY DEF Diffs, StackInside
<1> QED
  BY <1>1, <1>2, <1>3 DEF Pieces, Ranges

LEMMA EmitTyped ==
  ASSUME NEW d, d.i \in Nat, d.n \in Nat, d.j \in Nat, d.m \in Nat, d.ranges \in Ranges
  PROVE  Emit(d) \in Ranges
<1> DEFINE rs == d.ranges  i == d.i  j == d.j  n == d.n  m == d.m  L == Len(rs)
           e == i + n  f == j + m  new == [rs EXCEPT ![L].delEnd = e, ![L].insEnd = f]
           touches == L > 0 /\ (rs[L].delEnd = i \/ rs[L].insEnd = j)
<1>1. i \in Nat /\ j \in Nat /\ e \in Nat /\ f \in Nat /\ L \in Nat
  BY SMTT(30) DEF Ranges
<1>2. rs \in Seq([delStart : Nat, delEnd : Nat, insStart : Nat, insEnd : Nat])
  BY DEF Ranges
<1>3. ASSUME L > 0 PROVE new \in Seq([delStart : Nat, delEnd : Nat, insStart : Nat, insEnd : Nat])
  <2> DEFINE c == [[rs[L] EXCEPT !.delEnd = e] EXCEPT !.insEnd = f]
  <2>1. L \in 1..Len(rs)
    BY <1>1, <1>3
  <2>2. new = [rs EXCEPT ![L] = c]
    BY <1>2, <2>1
  <2> HIDE DEF rs, e, f, L
  <2>3. rs[L] \in [delStart : Nat, delEnd : Nat, insStart : Nat, insEnd : Nat]
    BY <1>2, <2>1, ElementOfSeq
  <2>4. c \in [delStart : Nat, delEnd : Nat, insStart : Nat, insEnd : Nat]
    BY <1>1, <2>3
  <2> HIDE DEF c, new
  <2> QED
    BY <1>2, <2>1, <2>2, <2>4
<1>4. Append(rs, RangeOf(d)) \in Seq([delStart : Nat, delEnd : Nat, insStart : Nat, insEnd : Nat])
  <2>1. RangeOf(d) = [delStart |-> i, delEnd |-> e, insStart |-> j, insEnd |-> f]
    BY DEF RangeOf
  <2> HIDE DEF rs, i, j, e, f
  <2> QED
    BY <1>1, <1>2, <2>1, AppendProperties
<1>5. Emit(d) = IF n + m = 0 THEN rs ELSE IF touches THEN new ELSE Append(rs, RangeOf(d))
  BY DEF Emit
<1> HIDE DEF rs, new, n, m
<1> QED
  BY <1>2, <1>3, <1>4, <1>5 DEF Ranges

-----------------------------------------------------------------------------
(* What a step of a diff makes of it. *)

TopOf(stack, rs) ==
  LET top == stack[Len(stack)]
  IN  DiffAt(top[1], top[2], top[3], top[4], ZOf(top[2], top[4]), Front(stack), rs, FALSE)

LEMMA ZNat == \A n, m \in Nat : ZOf(n, m) \in Nat
BY DEF ZOf, Smaller

LEMMA FrontInside ==
  ASSUME NEW A, NEW B, NEW stack \in Seq(Pieces), stack # <<>>, StackInside(A, B, stack)
  PROVE  /\ Front(stack) \in Seq(Pieces) /\ StackInside(A, B, Front(stack))
         /\ stack[Len(stack)] \in Pieces
         /\ Inside(A, B, stack[Len(stack)][1], stack[Len(stack)][2], stack[Len(stack)][3], stack[Len(stack)][4])
<1>1. Len(stack) \in Nat /\ Len(stack) > 0 /\ Len(stack) \in DOMAIN stack /\ DOMAIN stack = 1..Len(stack)
  OBVIOUS
<1>2. /\ Front(stack) \in Seq(Pieces) /\ Len(Front(stack)) = Len(stack) - 1
      /\ \A q \in 1..Len(stack) - 1 : Front(stack)[q] = stack[q]
  BY <1>1 DEF Front
<1>3. StackInside(A, B, Front(stack))
  BY <1>1, <1>2, SMTT(30) DEF StackInside
<1>4. stack[Len(stack)] \in Pieces
  BY <1>1
<1> QED
  BY <1>1, <1>2, <1>3, <1>4 DEF StackInside

LEMMA TopStays ==
  ASSUME NEW A, NEW B, NEW stack \in Seq(Pieces), stack # <<>>, StackInside(A, B, stack),
         NEW rs \in Ranges
  PROVE  TopOf(stack, rs) \in Diffs(A, B)
<1> DEFINE top == stack[Len(stack)]  F == Front(stack)
<1>1. F \in Seq(Pieces) /\ StackInside(A, B, F) /\ top \in Pieces /\ Inside(A, B, top[1], top[2], top[3], top[4])
  BY FrontInside
<1> DEFINE i == top[1]  n == top[2]  j == top[3]  m == top[4]
<1>2. i \in Nat /\ n \in Nat /\ j \in Nat /\ m \in Nat
  <2> HIDE DEF top
  <2> QED
    BY <1>1 DEF Pieces
<1>3. TopOf(stack, rs) = DiffAt(i, n, j, m, ZOf(n, m), F, rs, FALSE)
  BY DEF TopOf
<1> HIDE DEF i, n, j, m, F
<1>4. ZOf(n, m) \in Nat /\ Inside(A, B, i, n, j, m) /\ FALSE \in BOOLEAN
  BY <1>1, <1>2, ZNat DEF i, n, j, m
<1>5. DiffAt(i, n, j, m, ZOf(n, m), F, rs, FALSE) \in Diffs(A, B)
  BY <1>1, <1>2, <1>4, InDiffs
<1> QED
  BY <1>3, <1>5

(* A piece with an empty side: the next one is taken up. *)
LEMMA StepEmpty ==
  ASSUME NEW A, NEW B, NEW d \in Diffs(A, B), d.n = 0 \/ d.m = 0, NEW size,
         NEW e, e = DiffStep(A, B, d, size)
  PROVE  /\ e \in Diffs(A, B)
         /\ d.stack = <<>> => e.end /\ e.ranges = Emit(d)
         /\ d.stack # <<>> /\ ~d.end => e = TopOf(d.stack, Emit(d))
<1> DEFINE rs == Emit(d)
<1>1. /\ d = DiffAt(d.i, d.n, d.j, d.m, d.z, d.stack, d.ranges, d.end)
      /\ d.i \in Nat /\ d.n \in Nat /\ d.j \in Nat /\ d.m \in Nat /\ d.z \in Nat
      /\ d.stack \in Seq(Pieces) /\ d.ranges \in Ranges /\ d.end \in BOOLEAN
      /\ Inside(A, B, d.i, d.n, d.j, d.m) /\ (d.n > 0 /\ d.m > 0 => d.z = ZOf(d.n, d.m))
      /\ StackInside(A, B, d.stack)
  BY DiffRecord
<1>2. rs \in Ranges
  BY <1>1, EmitTyped
<1>3. e = Pop([d EXCEPT !.ranges = rs])
  BY DEF DiffStep
<1> HIDE DEF rs
<1> DEFINE c == [d EXCEPT !.ranges = rs]
<1>4. c = DiffAt(d.i, d.n, d.j, d.m, d.z, d.stack, rs, d.end)
  BY <1>1 DEF DiffAt
<1>5. CASE d.stack = <<>>
  <2>1. e = [c EXCEPT !.end = TRUE]
    BY <1>3, <1>4, <1>5 DEF Pop, DiffAt
  <2>2. e = DiffAt(d.i, d.n, d.j, d.m, d.z, d.stack, rs, TRUE)
    BY <1>4, <2>1 DEF DiffAt
  <2>3. DiffAt(d.i, d.n, d.j, d.m, d.z, d.stack, rs, TRUE) \in Diffs(A, B)
    <3> TRUE \in BOOLEAN
      OBVIOUS
    <3> QED
      BY <1>1, <1>2, InDiffs
  <2>4. e.end = TRUE /\ e.ranges = rs
    BY <2>2 DEF DiffAt
  <2> QED
    BY <1>5, <2>2, <2>3, <2>4 DEF rs
<1>6. CASE d.stack # <<>>
  <2> DEFINE top == d.stack[Len(d.stack)]  F == Front(d.stack)
             i == top[1]  n == top[2]  j == top[3]  m == top[4]
  <2>1. e = [c EXCEPT !.i = i, !.n = n, !.j = j, !.m = m, !.z = ZOf(n, m), !.stack = F]
    BY <1>3, <1>4, <1>6 DEF Pop, DiffAt, Last
  <2>2. e = DiffAt(i, n, j, m, ZOf(n, m), F, rs, d.end)
    BY <1>4, <2>1 DEF DiffAt
  <2>3. F \in Seq(Pieces) /\ StackInside(A, B, F) /\ top \in Pieces /\ Inside(A, B, i, n, j, m)
    BY <1>1, <1>6, FrontInside
  <2>4. i \in Nat /\ n \in Nat /\ j \in Nat /\ m \in Nat
    <3> HIDE DEF top
    <3> QED
      BY <2>3 DEF Pieces
  <2>5. TopOf(d.stack, rs) = DiffAt(i, n, j, m, ZOf(n, m), F, rs, FALSE)
    BY DEF TopOf
  <2> HIDE DEF i, n, j, m, F
  <2>6. DiffAt(i, n, j, m, ZOf(n, m), F, rs, d.end) \in Diffs(A, B)
    <3> ZOf(n, m) \in Nat
      BY <2>4, ZNat
    <3> QED
      BY <1>1, <1>2, <2>3, <2>4, InDiffs
  <2>7. ~d.end => d.end = FALSE
    BY <1>1
  <2> QED
    BY <1>6, <2>2, <2>5, <2>6, <2>7 DEF rs
<1> QED
  BY <1>5, <1>6

Six(r, a, b, c, d, e, f) == r = <<a, b, c, d, e, f>>

FourAndTwo(r, a, b, c, d, e, f) == SubSeq(r, 1, 4) = <<a, b, c, d>> /\ r[5] = e /\ r[6] = f

(* A split r of the piece d: a, b before t equal lines, c and g after. *)
Halves(d, r, a, b, t, c, g) ==
  /\ r # <<>> /\ r = <<d.i + a + t, c, d.j + b + t, g, a, b>>
  /\ a + t + c = d.n /\ b + t + g = d.m

(* e does the first half and keeps the second for later. *)
FirstHalf(A, B, d, e, a, b, t, c, g) ==
  /\ e \in Diffs(A, B)
  /\ e.i = d.i /\ e.n = a /\ e.j = d.j /\ e.m = b /\ e.ranges = d.ranges /\ e.end = d.end
  /\ e.stack = Append(d.stack, <<d.i + a + t, c, d.j + b + t, g>>)

LEMMA FirstFour ==
  ASSUME NEW a \in Nat, NEW b \in Nat, NEW c \in Nat, NEW d \in Nat, NEW e \in Nat, NEW f \in Nat,
         NEW r, Six(r, a, b, c, d, e, f)
  PROVE  FourAndTwo(r, a, b, c, d, e, f)
<1> DEFINE p == <<a, b, c, d>>
<1>1. /\ r \in Seq(Nat) /\ Len(r) = 6
      /\ r[1] = a /\ r[2] = b /\ r[3] = c /\ r[4] = d /\ r[5] = e /\ r[6] = f
  BY DEF Six
<1>2. p \in Seq(Nat) /\ Len(p) = 4 /\ p[1] = a /\ p[2] = b /\ p[3] = c /\ p[4] = d
  OBVIOUS
<1> HIDE DEF p
<1>3. /\ SubSeq(r, 1, 4) \in Seq(Nat) /\ Len(SubSeq(r, 1, 4)) = 4
      /\ \A k \in 1..4 : SubSeq(r, 1, 4)[k] = r[k]
  BY <1>1
<1>4. \A k \in 1..4 : k = 1 \/ k = 2 \/ k = 3 \/ k = 4
  OBVIOUS
<1>5. \A k \in 1..4 : SubSeq(r, 1, 4)[k] = p[k]
  BY <1>1, <1>2, <1>3, <1>4
<1> DEFINE o == SubSeq(r, 1, 4)
<1>6. o \in Seq(Nat) /\ Len(o) = 4 /\ \A k \in 1..4 : o[k] = p[k]
  BY <1>3, <1>5
<1> HIDE DEF o
<1>7. o = p
  BY <1>2, <1>6, SeqEqual
<1> QED
  BY <1>1, <1>7 DEF o, p, FourAndTwo

LEMMA Pushed ==
  ASSUME NEW A, NEW B, NEW s \in Seq(Pieces), StackInside(A, B, s),
         NEW u \in Nat, NEW c \in Nat, NEW v \in Nat, NEW g \in Nat, Inside(A, B, u, c, v, g),
         NEW new, new = Append(s, <<u, c, v, g>>)
  PROVE  new \in Seq(Pieces) /\ StackInside(A, B, new)
<1> DEFINE p == <<u, c, v, g>>
<1>1. p \in Pieces /\ p[1] = u /\ p[2] = c /\ p[3] = v /\ p[4] = g
  BY DEF Pieces
<1> HIDE DEF p
<1>2. /\ new \in Seq(Pieces) /\ Len(new) = Len(s) + 1 /\ new[Len(s) + 1] = p
      /\ \A q \in 1..Len(s) : new[q] = s[q]
  BY <1>1, AppendProperties DEF p
<1>3. Len(s) \in Nat /\ DOMAIN s = 1..Len(s)
  OBVIOUS
<1>4. DOMAIN new = 1..Len(s) + 1
  BY <1>2
<1>5. StackInside(A, B, new)
  <2> SUFFICES ASSUME NEW q \in DOMAIN new
               PROVE  Inside(A, B, new[q][1], new[q][2], new[q][3], new[q][4])
    BY DEF StackInside
  <2>1. CASE q = Len(s) + 1
    <3>1. new[q] = p
      BY <1>2, <2>1
    <3> QED
      BY <1>1, <3>1
  <2>2. CASE q # Len(s) + 1
    <3>1. q \in 1..Len(s) /\ q \in DOMAIN s
      BY <1>3, <1>4, <2>2, SMTT(30)
    <3>2. new[q] = s[q]
      BY <1>2, <3>1
    <3> QED
      BY <3>1, <3>2 DEF StackInside
  <2> QED
    BY <2>1, <2>2
<1> QED
  BY <1>2, <1>5

(* A split: the first part of the piece, with the last one kept for later. *)
LEMMA StepSplit ==
  ASSUME NEW A, NEW B, Len(A) \in Nat, Len(B) \in Nat, NEW d \in Diffs(A, B), d.n > 0, d.m > 0,
         NEW size, NEW e, e = DiffStep(A, B, d, size),
         NEW r, r = Search(A, B, d, size),
         NEW a \in Nat, NEW b \in Nat, NEW t \in Nat, NEW c \in Nat, NEW g \in Nat,
         Halves(d, r, a, b, t, c, g)
  PROVE  FirstHalf(A, B, d, e, a, b, t, c, g)
<1> DEFINE i == d.i  j == d.j  n == d.n  m == d.m  u == i + a + t  v == j + b + t
           p == <<u, c, v, g>>  s == d.stack
<1>1. /\ d = DiffAt(d.i, d.n, d.j, d.m, d.z, d.stack, d.ranges, d.end)
      /\ d.i \in Nat /\ d.n \in Nat /\ d.j \in Nat /\ d.m \in Nat /\ d.z \in Nat
      /\ d.stack \in Seq(Pieces) /\ d.ranges \in Ranges /\ d.end \in BOOLEAN
      /\ Inside(A, B, d.i, d.n, d.j, d.m) /\ (d.n > 0 /\ d.m > 0 => d.z = ZOf(d.n, d.m))
      /\ StackInside(A, B, d.stack)
  BY DiffRecord
<1>2. e = Split(d, r)
  <2>1. ~(d.n = 0 \/ d.m = 0) /\ r # <<>>
    BY SMTT(30) DEF Halves
  <2> QED
    BY <2>1 DEF DiffStep, Searched
<1>3. SubSeq(r, 1, 4) = p /\ r[5] = a /\ r[6] = b
  <2>1. Six(r, u, c, v, g, a, b)
    BY DEF Halves, Six
  <2>2. u \in Nat /\ v \in Nat
    <3>1. i \in Nat /\ j \in Nat
      BY <1>1
    <3> HIDE DEF i, j
    <3> QED
      BY <3>1
  <2> HIDE DEF u, v
  <2>3. SubSeq(r, 1, 4) = <<u, c, v, g>> /\ r[5] = a /\ r[6] = b
    <3>1. Six(r, u, c, v, g, a, b) /\ u \in Nat /\ c \in Nat /\ v \in Nat /\ g \in Nat /\ a \in Nat /\ b \in Nat
      BY <2>1, <2>2
    <3>2. FourAndTwo(r, u, c, v, g, a, b)
      BY <3>1, FirstFour
    <3> QED
      BY <3>2 DEF FourAndTwo
  <2> QED
    BY <2>3
<1>4. e = [d EXCEPT !.stack = Append(s, p), !.n = a, !.m = b, !.z = ZOf(a, b)]
  BY <1>2, <1>3 DEF Split
<1>5. e = DiffAt(i, a, j, b, ZOf(a, b), Append(s, p), d.ranges, d.end)
  BY <1>1, <1>4 DEF DiffAt
<1>6. i \in Nat /\ j \in Nat /\ n \in Nat /\ m \in Nat /\ i + n <= Len(A) /\ j + m <= Len(B)
      /\ a + t + c = n /\ b + t + g = m
  BY <1>1 DEF Inside, Halves
<1> HIDE DEF i, j, n, m
<1>7. u \in Nat /\ v \in Nat /\ u + c <= Len(A) /\ v + g <= Len(B) /\ i + a <= Len(A) /\ j + b <= Len(B)
  BY <1>6
<1>8. Inside(A, B, i, a, j, b) /\ Inside(A, B, u, c, v, g)
  BY <1>7 DEF Inside
<1> DEFINE new == Append(s, p)
<1>10. new \in Seq(Pieces) /\ StackInside(A, B, new)
  <2>1. s \in Seq(Pieces) /\ StackInside(A, B, s)
    BY <1>1
  <2> HIDE DEF u, v, s
  <2> QED
    BY <1>7, <1>8, <2>1, Pushed
<1> HIDE DEF new, p
<1>12. DiffAt(i, a, j, b, ZOf(a, b), new, d.ranges, d.end) \in Diffs(A, B)
  <2> ZOf(a, b) \in Nat
    BY ZNat
  <2> QED
    BY <1>1, <1>6, <1>8, <1>10, InDiffs
<1>13. e = DiffAt(i, a, j, b, ZOf(a, b), new, d.ranges, d.end)
  BY <1>5 DEF new
<1>14. /\ e.i = i /\ e.n = a /\ e.j = j /\ e.m = b /\ e.ranges = d.ranges /\ e.end = d.end /\ e.stack = new
  BY <1>13 DEF DiffAt
<1> QED
  BY <1>12, <1>13, <1>14 DEF i, j, new, p, s, u, v, FirstHalf

(* No split: what is equal is gone past. *)
LEMMA StepEqual ==
  ASSUME NEW A, NEW B, Len(A) \in Nat, Len(B) \in Nat, NEW d \in Diffs(A, B), d.n > 0, d.m > 0,
         d.n # d.m, NEW size, NEW e, e = DiffStep(A, B, d, size), Search(A, B, d, size) = <<>>,
         NEW c, c = Smaller(d.n, d.m)
  PROVE  /\ e \in Diffs(A, B) /\ c \in Nat /\ c > 0
         /\ e.i = d.i + c /\ e.n = d.n - c /\ e.j = d.j + c /\ e.m = d.m - c
         /\ e.n = 0 \/ e.m = 0
         /\ e.ranges = d.ranges /\ e.end = d.end /\ e.stack = d.stack
<1> DEFINE i == d.i  j == d.j  n == d.n  m == d.m
<1>1. /\ d = DiffAt(d.i, d.n, d.j, d.m, d.z, d.stack, d.ranges, d.end)
      /\ d.i \in Nat /\ d.n \in Nat /\ d.j \in Nat /\ d.m \in Nat /\ d.z \in Nat
      /\ d.stack \in Seq(Pieces) /\ d.ranges \in Ranges /\ d.end \in BOOLEAN
      /\ Inside(A, B, d.i, d.n, d.j, d.m) /\ (d.n > 0 /\ d.m > 0 => d.z = ZOf(d.n, d.m))
      /\ StackInside(A, B, d.stack)
  BY DiffRecord
<1>2. e = SkipEqual(d)
  <2>1. ~(d.n = 0 \/ d.m = 0)
    OBVIOUS
  <2> QED
    BY <2>1 DEF DiffStep, Searched
<1>3. e = [d EXCEPT !.i = @ + c, !.j = @ + c, !.n = @ - c, !.m = @ - c]
  BY <1>2 DEF SkipEqual
<1>4. e = DiffAt(i + c, n - c, j + c, m - c, d.z, d.stack, d.ranges, d.end)
  BY <1>1, <1>3 DEF DiffAt
<1>5. i \in Nat /\ j \in Nat /\ n \in Nat /\ m \in Nat /\ i + n <= Len(A) /\ j + m <= Len(B)
      /\ n > 0 /\ m > 0 /\ c = Smaller(n, m)
  BY <1>1 DEF Inside
<1> HIDE DEF i, j, n, m
<1> DEFINE u == i + c  v == j + c  w == n - c  x == m - c
<1>6. /\ u \in Nat /\ v \in Nat /\ w \in Nat /\ x \in Nat /\ u + w <= Len(A) /\ v + x <= Len(B)
      /\ (w = 0 \/ x = 0) /\ c \in Nat /\ c > 0
  <2>1. (c = n \/ c = m) /\ c <= n /\ c <= m /\ c \in Nat /\ c > 0
    BY <1>5 DEF Smaller
  <2> HIDE DEF u, v, w, x
  <2>2. u \in Nat /\ v \in Nat /\ w \in Nat /\ x \in Nat
    BY <1>5, <2>1, SMTT(30) DEF u, v, w, x
  <2>3. w = 0 \/ x = 0
    BY <1>5, <2>1 DEF w, x
  <2>4. u + w = i + n /\ v + x = j + m
    BY <1>5, <2>1 DEF u, v, w, x
  <2> QED
    BY <1>5, <2>1, <2>2, <2>3, <2>4
<1>7. Inside(A, B, u, w, v, x) /\ ~(w > 0 /\ x > 0)
  BY <1>6 DEF Inside
<1>8. e = DiffAt(u, w, v, x, d.z, d.stack, d.ranges, d.end)
  BY <1>4
<1> HIDE DEF u, v, w, x
<1>9. DiffAt(u, w, v, x, d.z, d.stack, d.ranges, d.end) \in Diffs(A, B)
  BY <1>1, <1>6, <1>7, InDiffs
<1>10. /\ e.i = u /\ e.n = w /\ e.j = v /\ e.m = x /\ e.ranges = d.ranges /\ e.end = d.end
       /\ e.stack = d.stack
  BY <1>8 DEF DiffAt
<1> QED
  BY <1>6, <1>8, <1>9, <1>10 DEF u, v, w, x, i, j, n, m

LEMMA DiffSearch ==
  ASSUME NEW A, NEW B, Len(A) \in Nat, Len(B) \in Nat, NEW d \in Diffs(A, B), d.n > 0, d.m > 0,
         NEW r, r = Search(A, B, d, SizeOf(A, B))
  PROVE  Found(A, B, d, r)
<1>1. IsDiff(A, B, d)
  BY DiffFacts
<1>2. IsPiece(d) /\ Sized(d, SizeOf(A, B))
  BY <1>1, DiffSized
<1> QED
  BY <1>2, SearchFinds

LEMMA DiffStays ==
  ASSUME NEW A, NEW B, Len(A) \in Nat, Len(B) \in Nat, NEW d \in Diffs(A, B)
  PROVE  DiffStep(A, B, d, SizeOf(A, B)) \in Diffs(A, B)
<1> DEFINE size == SizeOf(A, B)  e == DiffStep(A, B, d, size)  r == Search(A, B, d, size)
<1>1. CASE d.n = 0 \/ d.m = 0
  <2> HIDE DEF size
  <2>1. e \in Diffs(A, B)
    BY <1>1, StepEmpty
  <2> QED
    BY <2>1 DEF size
<1>2. CASE ~(d.n = 0 \/ d.m = 0)
  <2>1. d.n > 0 /\ d.m > 0
    BY <1>2, DiffRecord
  <2>2. Found(A, B, d, r)
    BY <2>1, DiffSearch
  <2> HIDE DEF size
  <2>3. CASE r # <<>> /\ IsSplit(A, B, d, r)
    <3>1. PICK a, b, t, c, g, h, k \in Nat : SplitWith(A, B, d, r, a, b, t, c, g, h, k)
      BY <2>3 DEF IsSplit
    <3>2. Halves(d, r, a, b, t, c, g)
      BY <2>3, <3>1 DEF SplitWith, Halves
    <3>3. e = DiffStep(A, B, d, size) /\ r = Search(A, B, d, size)
      BY DEF size
    <3> HIDE DEF r, e
    <3>4. FirstHalf(A, B, d, e, a, b, t, c, g)
      BY <2>1, <3>2, <3>3, StepSplit
    <3> QED
      BY <3>4 DEF e, size, FirstHalf
  <2>4. CASE r = <<>> /\ NoSplit(A, B, d)
    <3>1. d.n # d.m
      BY <2>4 DEF NoSplit
    <3>2. e \in Diffs(A, B)
      BY <2>1, <2>4, <3>1, StepEqual
    <3> QED
      BY <3>2 DEF size
  <2> QED
    BY <2>2, <2>3, <2>4 DEF Found
<1> QED
  BY <1>1, <1>2

-----------------------------------------------------------------------------
(* f is what diff's iterator sends out from each of its states. *)
Sends(A, B, f) ==
  \A d \in Diffs(A, B) : f[d] = IF d.end THEN d.ranges ELSE f[DiffStep(A, B, d, SizeOf(A, B))]

(* With rs sent out and this stack. *)
SentThen(f, stack, rs) == IF stack = <<>> THEN rs ELSE f[TopOf(stack, rs)]

(* rs is what d has sent out by the end of its piece: gain of its lines    *)
(* are kept, as many as can be.                                            *)
SolvedBy(A, B, f, d, kept, rs, gain, c) ==
  /\ Reached(A, B, rs, d.i + d.n, d.j + d.m, kept + gain)
  /\ Least(Sames(A, B, d, FALSE), d.n, d.m, c) /\ d.n + d.m = c + 2 * gain
  /\ f[d] = SentThen(f, d.stack, rs)

Solved(A, B, f, d) ==
  \A kept \in Nat : Reached(A, B, d.ranges, d.i, d.j, kept) =>
    \E rs \in Ranges, gain \in Nat, c \in Nat : SolvedBy(A, B, f, d, kept, rs, gain, c)

LEMMA AfterStep ==
  ASSUME NEW A, NEW B, NEW f, Sends(A, B, f), NEW d \in Diffs(A, B), d.n = 0 \/ d.m = 0, ~d.end
  PROVE  f[d] = SentThen(f, d.stack, Emit(d))
<1> DEFINE size == SizeOf(A, B)  e == DiffStep(A, B, d, size)
<1>1. f[d] = f[e]
  BY DEF Sends
<1>2. /\ e \in Diffs(A, B)
      /\ d.stack = <<>> => e.end /\ e.ranges = Emit(d)
      /\ d.stack # <<>> => e = TopOf(d.stack, Emit(d))
  <2> HIDE DEF size
  <2> QED
    BY StepEmpty
<1> HIDE DEF e
<1>3. CASE d.stack = <<>>
  <2>1. f[e] = Emit(d)
    BY <1>2, <1>3 DEF Sends
  <2> QED
    BY <1>1, <1>3, <2>1 DEF SentThen
<1>4. CASE d.stack # <<>>
  BY <1>1, <1>2, <1>4 DEF SentThen
<1> QED
  BY <1>3, <1>4

LEMMA SolvedEmpty ==
  ASSUME NEW A, NEW B, NEW f, Sends(A, B, f), NEW d \in Diffs(A, B), d.n = 0 \/ d.m = 0, ~d.end
  PROVE  Solved(A, B, f, d)
<1> SUFFICES ASSUME NEW kept \in Nat, Reached(A, B, d.ranges, d.i, d.j, kept)
             PROVE  \E rs \in Ranges, gain \in Nat, c \in Nat : SolvedBy(A, B, f, d, kept, rs, gain, c)
  BY DEF Solved
<1> DEFINE n == d.n  m == d.m  rs == Emit(d)  E == Sames(A, B, d, FALSE)
<1>1. n \in Nat /\ m \in Nat
  BY DiffRecord
<1>2. rs \in Ranges /\ Reached(A, B, rs, d.i + n, d.j + m, kept)
  BY <1>1, ReachedEmit
<1>3. f[d] = SentThen(f, d.stack, rs)
  BY AfterStep
<1>4. Least(E, n, m, n + m)
  <2>1. n = 0 \/ m = 0
    OBVIOUS
  <2> HIDE DEF n, m, E
  <2> QED
    BY <1>1, <2>1, EmptyCost
<1>5. kept + 0 = kept /\ n + m = (n + m) + 2 * 0 /\ n + m \in Nat /\ 0 \in Nat
  BY <1>1
<1>6. SolvedBy(A, B, f, d, kept, rs, 0, n + m)
  BY <1>2, <1>3, <1>4, <1>5 DEF SolvedBy
<1> HIDE DEF rs, n, m
<1> QED
  BY <1>2, <1>5, <1>6

LEMMA EqualAt ==
  ASSUME NEW A, NEW B, NEW d, NEW x \in Nat, NEW y \in Nat, In(Sames(A, B, d, FALSE), x, y)
  PROVE  Eq(A, B, d.i + x, d.j + y)
<1>1. SameAt(A, B, d, FALSE, x, y)
  BY InSames
<1> QED
  BY <1>1 DEF SameAt

LEMMA SolvedEqual ==
  ASSUME NEW A, NEW B, Len(A) \in Nat, Len(B) \in Nat, NEW f, Sends(A, B, f),
         NEW d \in Diffs(A, B), d.n > 0, d.m > 0, ~d.end,
         Search(A, B, d, SizeOf(A, B)) = <<>>, NoSplit(A, B, d)
  PROVE  Solved(A, B, f, d)
<1> SUFFICES ASSUME NEW kept \in Nat, Reached(A, B, d.ranges, d.i, d.j, kept)
             PROVE  \E rs \in Ranges, gain \in Nat, c \in Nat : SolvedBy(A, B, f, d, kept, rs, gain, c)
  BY DEF Solved
<1> DEFINE size == SizeOf(A, B)  e == DiffStep(A, B, d, size)  g == Smaller(d.n, d.m)
<1>1. d.n # d.m /\ \A t \in 0..g - 1 : In(Sames(A, B, d, FALSE), t, t)
  BY DEF NoSplit
<1>2. /\ e \in Diffs(A, B) /\ g \in Nat /\ g > 0
      /\ e.i = d.i + g /\ e.n = d.n - g /\ e.j = d.j + g /\ e.m = d.m - g
      /\ (e.n = 0 \/ e.m = 0)
      /\ e.ranges = d.ranges /\ e.end = d.end /\ e.stack = d.stack
  BY <1>1, StepEqual
<1>3. f[d] = f[e]
  BY DEF Sends
<1> HIDE DEF size, e
<1>4. f[e] = SentThen(f, e.stack, Emit(e))
  BY <1>2, AfterStep
<1> DEFINE n == d.n  m == d.m  i == d.i  j == d.j  E == Sames(A, B, d, FALSE)  rs == Emit(e)
<1>5. n \in Nat /\ m \in Nat /\ i \in Nat /\ j \in Nat
  BY DiffRecord
<1>6. Reached(A, B, d.ranges, i + g, j + g, kept + g)
  <2>1. \A t \in 0..g - 1 : Eq(A, B, i + t, j + t)
    <3> SUFFICES ASSUME NEW t \in 0..g - 1 PROVE Eq(A, B, i + t, j + t)
      OBVIOUS
    <3>1. t \in Nat
      <4> HIDE DEF g
      <4> QED
        BY <1>2
    <3>2. In(Sames(A, B, d, FALSE), t, t)
      BY <1>1
    <3> QED
      BY <3>1, <3>2, EqualAt
  <2> HIDE DEF i, j, g
  <2>2. Reached(A, B, d.ranges, i, j, kept)
    BY DEF i, j
  <2> QED
    BY <1>2, <2>1, <2>2, ReachedEqual
<1>7. rs \in Ranges /\ Reached(A, B, rs, e.i + e.n, e.j + e.m, kept + g)
  <2>1. Reached(A, B, e.ranges, e.i, e.j, kept + g)
    BY <1>2, <1>6
  <2>2. e.n \in Nat /\ e.m \in Nat
    BY <1>2, DiffRecord
  <2> QED
    BY <1>2, <2>1, <2>2, ReachedEmit
<1>8. Least(E, n, m, n + m - 2 * g)
  <2>1. g = Smaller(n, m) /\ \A t \in 0..g - 1 : In(E, t, t)
    BY <1>1
  <2> HIDE DEF n, m, E, g
  <2> QED
    BY <1>2, <1>5, <2>1, EqualCost
<1>9. e.i + e.n = i + n /\ e.j + e.m = j + m
  <2>1. e.i = i + g /\ e.n = n - g /\ e.j = j + g /\ e.m = m - g
    BY <1>2
  <2> HIDE DEF n, m, i, j, g
  <2>2. (i + g) + (n - g) = i + n /\ (j + g) + (m - g) = j + m
    BY <1>2, <1>5
  <2> QED
    BY <2>1, <2>2
<1> DEFINE c == n + m - 2 * g
<1>10. c \in Nat /\ n + m = c + 2 * g
  <2>1. g = Smaller(n, m)
    OBVIOUS
  <2> HIDE DEF n, m, g
  <2> QED
    BY <1>2, <1>5, <2>1 DEF Smaller
<1>11. SolvedBy(A, B, f, d, kept, rs, g, c)
  <2>1. Reached(A, B, rs, d.i + d.n, d.j + d.m, kept + g)
    BY <1>7, <1>9
  <2>2. Least(Sames(A, B, d, FALSE), d.n, d.m, c) /\ d.n + d.m = c + 2 * g
    BY <1>8, <1>10
  <2>3. f[d] = SentThen(f, d.stack, rs)
    BY <1>2, <1>3, <1>4
  <2> HIDE DEF c, rs, g
  <2> QED
    BY <2>1, <2>2, <2>3 DEF SolvedBy
<1> HIDE DEF c, rs, g
<1> QED
  BY <1>2, <1>7, <1>10, <1>11

LEMMA PushPop ==
  ASSUME NEW s \in Seq(Pieces), NEW p \in Pieces, NEW rs, NEW new, new = Append(s, p)
  PROVE  /\ new # <<>>
         /\ TopOf(new, rs) = DiffAt(p[1], p[2], p[3], p[4], ZOf(p[2], p[4]), s, rs, FALSE)
<1>1. /\ new \in Seq(Pieces) /\ Len(new) = Len(s) + 1 /\ new[Len(s) + 1] = p
      /\ \A q \in 1..Len(s) : new[q] = s[q]
  BY AppendProperties
<1>2. Len(s) \in Nat
  OBVIOUS
<1>3. new # <<>> /\ new[Len(new)] = p
  BY <1>1, <1>2
<1>4. Front(new) = s
  <2> DEFINE o == Front(new)
  <2>1. o \in Seq(Pieces) /\ Len(o) = Len(s) /\ \A q \in 1..Len(s) : o[q] = new[q]
    BY <1>1, <1>2 DEF Front
  <2> HIDE DEF o
  <2>2. \A q \in 1..Len(o) : o[q] = s[q]
    BY <1>1, <2>1
  <2>3. o = s
    BY <2>1, <2>2, SeqEqual
  <2> QED
    BY <2>3 DEF o
<1> QED
  BY <1>3, <1>4 DEF TopOf

LEMMA SolvedSplit ==
  ASSUME NEW A, NEW B, Len(A) \in Nat, Len(B) \in Nat, NEW f, Sends(A, B, f),
         NEW d \in Diffs(A, B), d.n > 0, d.m > 0, ~d.end,
         NEW r, r = Search(A, B, d, SizeOf(A, B)), r # <<>>, IsSplit(A, B, d, r),
         \A e \in Diffs(A, B) : ~e.end /\ e.n + e.m < d.n + d.m => Solved(A, B, f, e)
  PROVE  Solved(A, B, f, d)
<1> SUFFICES ASSUME NEW kept \in Nat, Reached(A, B, d.ranges, d.i, d.j, kept)
             PROVE  \E rs \in Ranges, gain \in Nat, c \in Nat : SolvedBy(A, B, f, d, kept, rs, gain, c)
  BY DEF Solved
<1>1. PICK a, b, t, c, g, h, k \in Nat : SplitWith(A, B, d, r, a, b, t, c, g, h, k)
  BY DEF IsSplit
<1>2. Halves(d, r, a, b, t, c, g)
  BY <1>1 DEF SplitWith, Halves
<1> DEFINE n == d.n  m == d.m  i == d.i  j == d.j  s == d.stack
           size == SizeOf(A, B)  e == DiffStep(A, B, d, size)
           u == i + a + t  v == j + b + t  p == <<u, c, v, g>>
<1>3. /\ a + t + c = n /\ b + t + g = m /\ a + b < n + m /\ c + g < n + m
      /\ \A q \in 0..t - 1 : In(Sames(A, B, d, FALSE), a + q, b + q)
  BY <1>1 DEF SplitWith
<1>4. n \in Nat /\ m \in Nat /\ i \in Nat /\ j \in Nat /\ s \in Seq(Pieces) /\ d.end = FALSE
  BY DiffRecord
<1>5. /\ e \in Diffs(A, B) /\ e.i = i /\ e.n = a /\ e.j = j /\ e.m = b
      /\ e.ranges = d.ranges /\ e.end = d.end /\ e.stack = Append(s, p)
  <2>1. e = DiffStep(A, B, d, size)
    OBVIOUS
  <2>2. r = Search(A, B, d, SizeOf(A, B))
    OBVIOUS
  <2>3. r = Search(A, B, d, size)
    BY <2>2
  <2> HIDE DEF e, size
  <2>4. FirstHalf(A, B, d, e, a, b, t, c, g)
    BY <1>2, <2>1, <2>3, StepSplit
  <2> QED
    BY <2>4 DEF FirstHalf
<1>6. f[d] = f[e]
  BY DEF Sends
<1>7. u \in Nat /\ v \in Nat
  <2> HIDE DEF i, j
  <2> QED
    BY <1>4
<1>8. p \in Pieces /\ p[1] = u /\ p[2] = c /\ p[3] = v /\ p[4] = g
  <2> HIDE DEF u, v
  <2> QED
    BY <1>7 DEF Pieces
<1> HIDE DEF e, size
<1>9. PICK rs1 \in Ranges, gain1 \in Nat, c1 \in Nat : SolvedBy(A, B, f, e, kept, rs1, gain1, c1)
  <2>1. Solved(A, B, f, e)
    <3>1. e.n + e.m < d.n + d.m
      BY <1>3, <1>5
    <3> QED
      BY <1>5, <3>1
  <2>2. Reached(A, B, e.ranges, e.i, e.j, kept)
    BY <1>5
  <2> QED
    BY <2>1, <2>2 DEF Solved
<1> DEFINE w == TopOf(e.stack, rs1)
<1>10. /\ Reached(A, B, rs1, i + a, j + b, kept + gain1)
       /\ Least(Sames(A, B, e, FALSE), a, b, c1) /\ a + b = c1 + 2 * gain1
       /\ f[e] = f[w]
  <2>1. e.stack # <<>>
    <3> HIDE DEF p, s
    <3> QED
      BY <1>4, <1>5, <1>8, PushPop
  <2> QED
    BY <1>5, <1>9, <2>1 DEF SolvedBy, SentThen
<1>11. w = DiffAt(u, c, v, g, ZOf(c, g), s, rs1, FALSE)
  <2> HIDE DEF p, s
  <2> QED
    BY <1>4, <1>5, <1>8, PushPop
<1>12. w \in Diffs(A, B)
  <2>1. e.stack \in Seq(Pieces) /\ StackInside(A, B, e.stack)
    BY <1>5, DiffRecord
  <2>2. e.stack # <<>>
    <3> HIDE DEF p, s
    <3> QED
      BY <1>4, <1>5, <1>8, PushPop
  <2> QED
    BY <2>1, <2>2, TopStays
<1>13. /\ w.i = u /\ w.n = c /\ w.j = v /\ w.m = g /\ w.stack = s /\ w.ranges = rs1 /\ w.end = FALSE
  BY <1>11 DEF DiffAt
<1> HIDE DEF w, p
<1>14. Reached(A, B, rs1, u, v, kept + gain1 + t)
  <2> DEFINE x == i + a  y == j + b
  <2>1. \A q \in 0..t - 1 : Eq(A, B, x + q, y + q)
    <3> SUFFICES ASSUME NEW q \in 0..t - 1 PROVE Eq(A, B, x + q, y + q)
      OBVIOUS
    <3>1. q \in Nat /\ a + q \in Nat /\ b + q \in Nat
      OBVIOUS
    <3>4. In(Sames(A, B, d, FALSE), a + q, b + q)
      BY <1>3
    <3>2. Eq(A, B, d.i + (a + q), d.j + (b + q))
      BY <3>1, <3>4, EqualAt
    <3>3. d.i + (a + q) = x + q /\ d.j + (b + q) = y + q
      <4>1. i + (a + q) = x + q /\ j + (b + q) = y + q
        <5> HIDE DEF i, j
        <5> QED
          BY <1>4
      <4> QED
        BY <4>1
    <3> HIDE DEF x, y
    <3> QED
      BY <3>2, <3>3
  <2>2. Reached(A, B, rs1, x, y, kept + gain1)
    BY <1>10
  <2> HIDE DEF x, y
  <2>3. Reached(A, B, rs1, x + t, y + t, kept + gain1 + t)
    BY <2>1, <2>2, ReachedEqual
  <2> QED
    BY <2>3 DEF x, y
<1>15. PICK rs2 \in Ranges, gain2 \in Nat, c2 \in Nat : SolvedBy(A, B, f, w, kept + gain1 + t, rs2, gain2, c2)
  <2>1. Solved(A, B, f, w)
    <3>1. w.n + w.m < d.n + d.m
      BY <1>3, <1>13
    <3> QED
      BY <1>12, <1>13, <3>1
  <2>2. Reached(A, B, w.ranges, w.i, w.j, kept + gain1 + t) /\ kept + gain1 + t \in Nat
    BY <1>13, <1>14
  <2> QED
    BY <2>1, <2>2 DEF Solved
<1>16. /\ Reached(A, B, rs2, u + c, v + g, kept + gain1 + t + gain2)
       /\ Least(Sames(A, B, w, FALSE), c, g, c2) /\ c + g = c2 + 2 * gain2
       /\ f[w] = SentThen(f, s, rs2)
  BY <1>13, <1>15 DEF SolvedBy
<1> DEFINE gain == gain1 + t + gain2  cost == c1 + c2
<1>17. Least(Sames(A, B, d, FALSE), d.n, d.m, cost)
  <2>1. d.i \in Nat /\ d.j \in Nat /\ d.n \in Nat /\ d.m \in Nat /\ HalvesOf(d, e, w, a, b, t, c, g)
    BY <1>4, <1>5, <1>13 DEF HalvesOf
  <2> QED
    BY <1>1, <1>10, <1>16, <2>1, SplitCost
<1>18. /\ gain \in Nat /\ cost \in Nat /\ n + m = cost + 2 * gain
       /\ u + c = i + n /\ v + g = j + m
       /\ kept + gain1 + t + gain2 = kept + gain
  <2> HIDE DEF i, j, n, m
  <2> QED
    BY <1>3, <1>4, <1>10, <1>16
<1> HIDE DEF gain, cost
<1>19. SolvedBy(A, B, f, d, kept, rs2, gain, cost)
  <2>1. Reached(A, B, rs2, d.i + d.n, d.j + d.m, kept + gain)
    BY <1>16, <1>18
  <2>2. f[d] = SentThen(f, d.stack, rs2)
    BY <1>6, <1>10, <1>16
  <2> QED
    BY <1>17, <1>18, <2>1, <2>2 DEF SolvedBy
<1> QED
  BY <1>18, <1>19

LEMMA AllSolved ==
  ASSUME NEW A, NEW B, Len(A) \in Nat, Len(B) \in Nat, NEW f, Sends(A, B, f),
         NEW d \in Diffs(A, B), ~d.end
  PROVE  Solved(A, B, f, d)
<1> SUFFICES ASSUME ~Solved(A, B, f, d) PROVE FALSE
  OBVIOUS
<1> DEFINE Bad == {e \in Diffs(A, B) : ~e.end /\ ~Solved(A, B, f, e)}
           weight == [e \in Bad |-> e.n + e.m]
<1>1. Bad # {}
  OBVIOUS
<1>2. PICK e \in Bad : \A w \in Bad : weight[e] <= weight[w]
  <2>1. \A w \in Bad : weight[w] \in Nat
    <3> SUFFICES ASSUME NEW w \in Bad PROVE w.n + w.m \in Nat
      OBVIOUS
    <3>1. w.n \in Nat /\ w.m \in Nat
      BY DiffRecord
    <3> QED
      BY <3>1
  <2> HIDE DEF weight, Bad
  <2> QED
    BY <1>1, <2>1, LeastBy
<1>3. e \in Diffs(A, B) /\ ~e.end /\ ~Solved(A, B, f, e) /\ e.n \in Nat /\ e.m \in Nat
  BY DiffRecord
<1>4. \A w \in Diffs(A, B) : ~w.end /\ w.n + w.m < e.n + e.m => Solved(A, B, f, w)
  <2> SUFFICES ASSUME NEW w \in Diffs(A, B), ~w.end, w.n + w.m < e.n + e.m, ~Solved(A, B, f, w)
               PROVE  FALSE
    OBVIOUS
  <2>1. w \in Bad
    OBVIOUS
  <2>2. e.n + e.m <= w.n + w.m
    BY <1>2, <2>1
  <2>3. e.n + e.m \in Nat /\ w.n + w.m \in Nat
    <3>1. e.n \in Nat /\ e.m \in Nat /\ w.n \in Nat /\ w.m \in Nat
      BY <1>3, DiffRecord
    <3> QED
      BY <3>1, SMTT(30)
  <2> QED
    BY <2>2, <2>3
<1> HIDE DEF Bad, weight
<1>5. e.n > 0 /\ e.m > 0
  <2>1. ~(e.n = 0 \/ e.m = 0)
    BY <1>3, SolvedEmpty
  <2> QED
    BY <1>3, <2>1
<1> DEFINE r == Search(A, B, e, SizeOf(A, B))
<1>6. Found(A, B, e, r)
  BY <1>3, <1>5, DiffSearch
<1>7. CASE r # <<>> /\ IsSplit(A, B, e, r)
  <2> HIDE DEF r
  <2>1. r = Search(A, B, e, SizeOf(A, B))
    BY DEF r
  <2> QED
    BY <1>3, <1>4, <1>5, <1>7, <2>1, SolvedSplit
<1>8. CASE r = <<>> /\ NoSplit(A, B, e)
  BY <1>3, <1>5, <1>8, SolvedEqual
<1> QED
  BY <1>6, <1>7, <1>8 DEF Found

LEMMA DiffFunction ==
  ASSUME NEW A, NEW B, Len(A) \in Nat, Len(B) \in Nat
  PROVE  \E f : Sends(A, B, f) /\ DiffRanges(A, B) = f[NewDiff(A, B)]
<1> DEFINE S == Diffs(A, B)  Next(d) == DiffStep(A, B, d, SizeOf(A, B))
           Runs(f) == f = [d \in S |-> IF d.end THEN d.ranges ELSE f[Next(d)]]
           g == CHOOSE f : Runs(f)
           Stops == {d \in S : d.end}
           step == [d \in S |-> Next(d)]
           value == [d \in S |-> d.ranges]
<1>1. DiffRanges(A, B) = g[NewDiff(A, B)]
  <2>1. DiffRanges(A, B) =
          (CHOOSE f : f = [d \in Diffs(A, B) |->
                             IF d.end THEN d.ranges ELSE f[DiffStep(A, B, d, 2 * ZOf(Len(A), Len(B)))]])[NewDiff(A, B)]
    BY Zenon DEF DiffRanges
  <2> QED
    BY <2>1 DEF SizeOf
<1>2. \A d \in S : Next(d) \in S
  BY DiffStays
<1> HIDE DEF Next, S
<1>3. \E f : Runs(f)
  <2>1. /\ Stops \in SUBSET S /\ \A t \in S \ Stops : step[t] \in S
        /\ \A t \in S : step[t] = Next(t) /\ value[t] = t.ranges /\ (t \in Stops <=> t.end)
    BY <1>2
  <2> HIDE DEF Stops, step, value
  <2>2. PICK f : Stepped(f, S, Stops, step, value)
    BY <2>1, StepFunction
  <2>3. \A t \in S : f[t] = IF t.end THEN t.ranges ELSE f[Next(t)]
    BY <2>1, <2>2 DEF Stepped
  <2>4. f = [t \in S |-> f[t]]
    BY <2>2 DEF Stepped
  <2>5. Runs(f)
    BY <2>3, <2>4
  <2> QED
    BY <2>5
<1>4. Runs(g)
  <2> HIDE DEF Runs
  <2> QED
    BY <1>3, Zenon
<1> HIDE DEF g
<1>5. \A d \in S : g[d] = IF d.end THEN d.ranges ELSE g[Next(d)]
  BY <1>4
<1>6. Sends(A, B, g)
  BY <1>5 DEF Sends, S, Next
<1> QED
  BY <1>1, <1>6

IsNew(A, B, d) ==
  /\ d \in Diffs(A, B) /\ d.i = 0 /\ d.j = 0 /\ d.n = Len(A) /\ d.m = Len(B)
  /\ d.stack = <<>> /\ d.ranges = <<>> /\ d.end = FALSE

LEMMA NewDiffIn ==
  ASSUME NEW A, NEW B, Len(A) \in Nat, Len(B) \in Nat
  PROVE  IsNew(A, B, NewDiff(A, B))
<1> DEFINE d == NewDiff(A, B)
<1> DEFINE N == Len(A)  M == Len(B)
<1>1. d = DiffAt(0, N, 0, M, ZOf(N, M), <<>>, <<>>, FALSE)
  BY DEF NewDiff, DiffAt
<1>2. <<>> \in Seq(Pieces) /\ <<>> \in Ranges /\ FALSE \in BOOLEAN /\ 0 \in Nat /\ ZOf(N, M) \in Nat
  BY ZNat DEF Ranges
<1>3. Inside(A, B, 0, N, 0, M) /\ StackInside(A, B, <<>>)
  BY DEF Inside, StackInside
<1> HIDE DEF N, M
<1>4. N \in Nat /\ M \in Nat
  BY DEF N, M
<1> DEFINE e == <<>>  o == 0
<1>7. e \in Seq(Pieces) /\ e \in Ranges /\ StackInside(A, B, e) /\ d = DiffAt(o, N, o, M, ZOf(N, M), e, e, FALSE)
      /\ o \in Nat /\ Inside(A, B, o, N, o, M)
  BY <1>1, <1>2, <1>3
<1> HIDE DEF e, o, d
<1>5. d \in Diffs(A, B)
  BY <1>2, <1>4, <1>7, InDiffs
<1>6. /\ d.i = 0 /\ d.j = 0 /\ d.n = N /\ d.m = M /\ d.stack = <<>> /\ d.ranges = <<>> /\ d.end = FALSE
  BY <1>1 DEF DiffAt
<1> QED
  BY <1>5, <1>6 DEF N, M, IsNew, d

(* The ranges tile the texts with equal lines between them, and no path    *)
(* keeps more lines than they do.                                          *)
LEMMA RangesFound ==
  ASSUME NEW A, NEW B, Len(A) \in Nat, Len(B) \in Nat
  PROVE  /\ DiffRanges(A, B) \in Ranges
         /\ \E gain \in Nat, c \in Nat :
              /\ Reached(A, B, DiffRanges(A, B), Len(A), Len(B), gain)
              /\ Least(Sames(A, B, NewDiff(A, B), FALSE), Len(A), Len(B), c)
              /\ Len(A) + Len(B) = c + 2 * gain
<1> DEFINE d == NewDiff(A, B)
<1>1. PICK f : Sends(A, B, f) /\ DiffRanges(A, B) = f[d]
  BY DiffFunction
<1>2. /\ d \in Diffs(A, B) /\ d.i = 0 /\ d.j = 0 /\ d.n = Len(A) /\ d.m = Len(B)
      /\ d.stack = <<>> /\ d.ranges = <<>> /\ d.end = FALSE
  BY NewDiffIn DEF IsNew
<1> HIDE DEF d
<1>3. Solved(A, B, f, d)
  BY <1>1, <1>2, AllSolved
<1>4. Reached(A, B, d.ranges, d.i, d.j, 0)
  BY <1>2, ReachedStart
<1>5. PICK rs \in Ranges, gain \in Nat, c \in Nat : SolvedBy(A, B, f, d, 0, rs, gain, c)
  BY <1>3, <1>4 DEF Solved
<1>6. /\ Reached(A, B, rs, 0 + Len(A), 0 + Len(B), 0 + gain)
      /\ Least(Sames(A, B, d, FALSE), Len(A), Len(B), c) /\ Len(A) + Len(B) = c + 2 * gain
      /\ f[d] = rs
  BY <1>2, <1>5 DEF SolvedBy, SentThen
<1>7. 0 + Len(A) = Len(A) /\ 0 + Len(B) = Len(B) /\ 0 + gain = gain
  OBVIOUS
<1>8. Reached(A, B, rs, Len(A), Len(B), gain)
  BY <1>6, <1>7
<1> QED
  BY <1>1, <1>6, <1>8 DEF d

-----------------------------------------------------------------------------
(* A path that costs the least keeps the most: g steps on the diagonal.    *)
KeptLines(E, x, y, g) == \E c \in Nat : Least(E, x, y, c) /\ x + y = c + 2 * g

LEMMA KeptIs ==
  ASSUME NEW E, NEW x \in Nat, NEW y \in Nat
  PROVE  \E g \in Nat : KeptLines(E, x, y, g)
<1> DEFINE T == {c \in Nat : Leads(E, x, y, c)}
<1>1. Leads(E, x, y, x + y)
  <2>1. Leads(E, 0, 0, 0)
    BY PathSteps
  <2>2. Leads(E, 0 + x, 0, 0 + x)
    BY <2>1, PathStraight
  <2>3. 0 + x = x
    OBVIOUS
  <2>4. Leads(E, x, 0, x)
    BY <2>2, <2>3
  <2>5. Leads(E, x, 0 + y, x + y)
    BY <2>4, PathStraight
  <2>6. 0 + y = y
    OBVIOUS
  <2> QED
    BY <2>5, <2>6
<1>2. PICK c \in T : \A h \in T : c <= h
  <2>1. T \in SUBSET Nat /\ T # {}
    BY <1>1
  <2> HIDE DEF T
  <2> QED
    BY <2>1, LeastNumber
<1>3. c \in Nat /\ Leads(E, x, y, c) /\ Least(E, x, y, c)
  BY <1>2 DEF Least
<1>4. c <= x + y /\ c % 2 = (x + y) % 2
  BY <1>3, PathSlope, PathParity
<1> DEFINE g == (x + y - c) \div 2
<1>5. g \in Nat /\ x + y = c + 2 * g
  BY <1>3, <1>4
<1> HIDE DEF g
<1> QED
  BY <1>3, <1>5 DEF KeptLines

LEMMA KeptOnce ==
  ASSUME NEW E, NEW x \in Nat, NEW y \in Nat, NEW g \in Nat, NEW h \in Nat,
         KeptLines(E, x, y, g), KeptLines(E, x, y, h)
  PROVE  g = h
<1>1. PICK c \in Nat : Least(E, x, y, c) /\ x + y = c + 2 * g
  BY DEF KeptLines
<1>2. PICK d \in Nat : Least(E, x, y, d) /\ x + y = d + 2 * h
  BY DEF KeptLines
<1>3. c <= d /\ d <= c
  BY <1>1, <1>2 DEF Least
<1> QED
  BY <1>1, <1>2, <1>3

LEMMA KeptNone ==
  ASSUME NEW E, NEW x \in Nat, NEW y \in Nat, x = 0 \/ y = 0
  PROVE  KeptLines(E, x, y, 0)
<1>1. Least(E, x, y, x + y)
  BY EmptyCost
<1>2. x + y \in Nat /\ x + y = (x + y) + 2 * 0
  OBVIOUS
<1> QED
  BY <1>1, <1>2 DEF KeptLines

LEMMA KeptEqual ==
  ASSUME NEW E, NEW x \in Nat, NEW y \in Nat, x > 0, y > 0, In(E, x - 1, y - 1),
         NEW g \in Nat, KeptLines(E, x - 1, y - 1, g)
  PROVE  KeptLines(E, x, y, g + 1)
<1> DEFINE u == x - 1  v == y - 1
<1>1. u \in Nat /\ v \in Nat /\ u + 1 = x /\ v + 1 = y
  OBVIOUS
<1>2. PICK c \in Nat : Least(E, u, v, c) /\ u + v = c + 2 * g
  BY DEF KeptLines
<1>3. Leads(E, x, y, c)
  <2>1. Leads(E, u, v, c) /\ In(E, u, v)
    BY <1>2 DEF Least
  <2> HIDE DEF u, v
  <2>2. Leads(E, u + 1, v + 1, c)
    BY <1>1, <2>1, PathSteps
  <2> QED
    BY <1>1, <2>2
<1>4. ASSUME NEW h \in Nat, Leads(E, x, y, h) PROVE h >= c
  <2>1. PICK k \in 0..h : Leads(E, u, v, k)
    BY <1>4, PathBack
  <2>2. k >= c
    BY <1>2, <2>1 DEF Least
  <2> QED
    BY <1>2, <2>1, <2>2
<1>5. x + y = c + 2 * (g + 1)
  BY <1>2
<1> QED
  BY <1>2, <1>3, <1>4, <1>5 DEF KeptLines, Least

LEMMA KeptApart ==
  ASSUME NEW E, NEW x \in Nat, NEW y \in Nat, x > 0, y > 0, ~In(E, x - 1, y - 1),
         NEW g \in Nat, KeptLines(E, x - 1, y, g), NEW h \in Nat, KeptLines(E, x, y - 1, h)
  PROVE  KeptLines(E, x, y, Larger(g, h))
<1> DEFINE u == x - 1  v == y - 1
<1>1. u \in Nat /\ v \in Nat /\ u + 1 = x /\ v + 1 = y
  OBVIOUS
<1>2. PICK c \in Nat : Least(E, u, y, c) /\ u + y = c + 2 * g
  BY DEF KeptLines
<1>3. PICK d \in Nat : Least(E, x, v, d) /\ x + v = d + 2 * h
  BY DEF KeptLines
<1>4. Leads(E, x, y, c + 1) /\ Leads(E, x, y, d + 1)
  <2>1. Leads(E, u, y, c) /\ Leads(E, x, v, d)
    BY <1>2, <1>3 DEF Least
  <2> HIDE DEF u, v
  <2>2. Leads(E, u + 1, y, c + 1) /\ Leads(E, x, v + 1, d + 1)
    BY <1>1, <2>1, PathSteps
  <2> QED
    BY <1>1, <2>2
<1>5. ASSUME NEW k \in Nat, Leads(E, x, y, k) PROVE k >= c + 1 \/ k >= d + 1
  <2>1. \/ k > 0 /\ Leads(E, u, y, k - 1)
        \/ k > 0 /\ Leads(E, x, v, k - 1)
    BY <1>5, PathInverse
  <2>2. CASE k > 0 /\ Leads(E, u, y, k - 1)
    <3>1. k - 1 \in Nat
      BY <2>2
    <3>2. k - 1 >= c
      BY <1>2, <2>2, <3>1 DEF Least
    <3> QED
      BY <3>2
  <2>3. CASE k > 0 /\ Leads(E, x, v, k - 1)
    <3>1. k - 1 \in Nat
      BY <2>3
    <3>2. k - 1 >= d
      BY <1>3, <2>3, <3>1 DEF Least
    <3> QED
      BY <3>2
  <2> QED
    BY <2>1, <2>2, <2>3
<1>6. CASE c <= d
  <2>1. \A k \in Nat : Leads(E, x, y, k) => k >= c + 1
    BY <1>5, <1>6
  <2>2. g >= h /\ x + y = (c + 1) + 2 * g /\ c + 1 \in Nat
    BY <1>2, <1>3, <1>6
  <2>3. Larger(g, h) = g
    BY <2>2 DEF Larger
  <2> QED
    BY <1>4, <2>1, <2>2, <2>3 DEF KeptLines, Least
<1>7. CASE ~(c <= d)
  <2>1. \A k \in Nat : Leads(E, x, y, k) => k >= d + 1
    BY <1>5, <1>7
  <2>2. h > g /\ x + y = (d + 1) + 2 * h /\ d + 1 \in Nat
    BY <1>2, <1>3, <1>7
  <2>3. Larger(g, h) = h
    BY <2>2 DEF Larger
  <2> QED
    BY <1>4, <2>1, <2>2, <2>3 DEF KeptLines, Least
<1> QED
  BY <1>6, <1>7

(* l gives the length of a longest common subsequence of all prefixes. *)
LongestBy(A, B, l, q) ==
  IF q[1] = 0 \/ q[2] = 0 THEN 0
  ELSE IF A[q[1]] = B[q[2]] THEN l[<<q[1] - 1, q[2] - 1>>] + 1
  ELSE Larger(l[<<q[1] - 1, q[2]>>], l[<<q[1], q[2] - 1>>])

LEMMA LongestKept ==
  ASSUME NEW A, NEW B, Len(A) \in Nat, Len(B) \in Nat,
         NEW E, \A x \in 0..Len(A) - 1, y \in 0..Len(B) - 1 : In(E, x, y) <=> A[x + 1] = B[y + 1],
         NEW l, NEW x \in 0..Len(A), NEW y \in 0..Len(B),
         x > 0 /\ y > 0 => /\ l[<<x - 1, y - 1>>] \in Nat /\ KeptLines(E, x - 1, y - 1, l[<<x - 1, y - 1>>])
                           /\ l[<<x - 1, y>>] \in Nat /\ KeptLines(E, x - 1, y, l[<<x - 1, y>>])
                           /\ l[<<x, y - 1>>] \in Nat /\ KeptLines(E, x, y - 1, l[<<x, y - 1>>])
  PROVE  LongestBy(A, B, l, <<x, y>>) \in Nat /\ KeptLines(E, x, y, LongestBy(A, B, l, <<x, y>>))
<1> DEFINE g == LongestBy(A, B, l, <<x, y>>)
           a == l[<<x - 1, y - 1>>]  b == l[<<x - 1, y>>]  c == l[<<x, y - 1>>]
<1>1. g = IF x = 0 \/ y = 0 THEN 0 ELSE IF A[x] = B[y] THEN a + 1 ELSE Larger(b, c)
  BY DEF LongestBy
<1>2. x > 0 /\ y > 0 => /\ a \in Nat /\ KeptLines(E, x - 1, y - 1, a)
                        /\ b \in Nat /\ KeptLines(E, x - 1, y, b)
                        /\ c \in Nat /\ KeptLines(E, x, y - 1, c)
  OBVIOUS
<1>3. x \in Nat /\ y \in Nat
  OBVIOUS
<1> HIDE DEF a, b, c, g
<1>4. CASE x = 0 \/ y = 0
  <2>1. g = 0
    BY <1>1, <1>4
  <2>2. KeptLines(E, x, y, 0)
    BY <1>3, <1>4, KeptNone
  <2> QED
    BY <2>1, <2>2 DEF g
<1>5. CASE ~(x = 0 \/ y = 0) /\ A[x] = B[y]
  <2>1. g = a + 1 /\ x > 0 /\ y > 0
    BY <1>1, <1>3, <1>5
  <2>2. In(E, x - 1, y - 1)
    <3>1. x - 1 \in 0..Len(A) - 1 /\ y - 1 \in 0..Len(B) - 1 /\ (x - 1) + 1 = x /\ (y - 1) + 1 = y
      BY <2>1
    <3> QED
      BY <1>5, <3>1
  <2>3. KeptLines(E, x, y, a + 1) /\ a + 1 \in Nat
    BY <1>2, <1>3, <2>1, <2>2, KeptEqual, SMTT(30)
  <2> QED
    BY <2>1, <2>3 DEF g
<1>6. CASE ~(x = 0 \/ y = 0) /\ A[x] # B[y]
  <2>1. g = Larger(b, c) /\ x > 0 /\ y > 0
    BY <1>1, <1>3, <1>6
  <2>2. ~In(E, x - 1, y - 1)
    <3>1. x - 1 \in 0..Len(A) - 1 /\ y - 1 \in 0..Len(B) - 1 /\ (x - 1) + 1 = x /\ (y - 1) + 1 = y
      BY <2>1
    <3> QED
      BY <1>6, <3>1
  <2>3. KeptLines(E, x, y, Larger(b, c))
    BY <1>2, <1>3, <2>1, <2>2, KeptApart
  <2>4. Larger(b, c) \in Nat
    BY <1>2, <2>1 DEF Larger
  <2> QED
    BY <2>1, <2>3, <2>4 DEF g
<1> QED
  BY <1>4, <1>5, <1>6

LEMMA LCSKept ==
  ASSUME NEW A, NEW B, Len(A) \in Nat, Len(B) \in Nat,
         NEW E, \A x \in 0..Len(A) - 1, y \in 0..Len(B) - 1 : In(E, x, y) <=> A[x + 1] = B[y + 1]
  PROVE  LCS(A, B) \in Nat /\ KeptLines(E, Len(A), Len(B), LCS(A, B))
<1> DEFINE N == Len(A)  M == Len(B)  S == (0..N) \X (0..M)
           Runs(f) == f = [q \in S |-> LongestBy(A, B, f, q)]
           l == CHOOSE f : Runs(f)
           cand == [q \in S |-> CHOOSE k \in Nat : KeptLines(E, q[1], q[2], k)]
           Right(f, x, y) == f[<<x, y>>] \in Nat /\ KeptLines(E, x, y, f[<<x, y>>])
<1>1. LCS(A, B) = l[<<N, M>>]
  <2>1. LCS(A, B) =
          (CHOOSE f : f = [q \in (0..Len(A)) \X (0..Len(B)) |->
                             IF q[1] = 0 \/ q[2] = 0 THEN 0
                             ELSE IF A[q[1]] = B[q[2]] THEN f[<<q[1] - 1, q[2] - 1>>] + 1
                             ELSE Larger(f[<<q[1] - 1, q[2]>>], f[<<q[1], q[2] - 1>>])])[<<Len(A), Len(B)>>]
    BY Zenon DEF LCS
  <2> QED
    BY <2>1, Zenon DEF LongestBy
<1>2. N \in Nat /\ M \in Nat
  OBVIOUS
<1>3. \A x \in 0..N - 1, y \in 0..M - 1 : In(E, x, y) <=> A[x + 1] = B[y + 1]
  OBVIOUS
<1>4. ASSUME NEW f, NEW x \in 0..N, NEW y \in 0..M,
             x > 0 /\ y > 0 => Right(f, x - 1, y - 1) /\ Right(f, x - 1, y) /\ Right(f, x, y - 1)
      PROVE  LongestBy(A, B, f, <<x, y>>) \in Nat /\ KeptLines(E, x, y, LongestBy(A, B, f, <<x, y>>))
  BY <1>4, LongestKept
<1>5. ASSUME NEW x \in 0..N, NEW y \in 0..M PROVE Right(cand, x, y)
  <2>1. cand[<<x, y>>] = CHOOSE k \in Nat : KeptLines(E, x, y, k)
    <3>1. <<x, y>> \in S /\ <<x, y>>[1] = x /\ <<x, y>>[2] = y
      OBVIOUS
    <3> HIDE DEF S
    <3> QED
      BY <3>1, Zenon
  <2>2. \E k \in Nat : KeptLines(E, x, y, k)
    <3>1. x \in Nat /\ y \in Nat
      BY <1>2
    <3> HIDE DEF N, M
    <3> QED
      BY <3>1, KeptIs
  <2> QED
    BY <2>1, <2>2, Zenon
<1> HIDE DEF N, M, S, cand, l, Right
<1>6. \A q \in S : \E x \in 0..N, y \in 0..M : q = <<x, y>>
  BY DEF S
<1>7. Runs(cand)
  <2>1. ASSUME NEW q \in S PROVE cand[q] = LongestBy(A, B, cand, q)
    <3>1. PICK x \in 0..N, y \in 0..M : q = <<x, y>>
      BY <1>6
    <3>2. x \in Nat /\ y \in Nat /\ (x > 0 /\ y > 0 => x - 1 \in 0..N /\ y - 1 \in 0..M)
      BY <1>2
    <3>3. x > 0 /\ y > 0 => Right(cand, x - 1, y - 1) /\ Right(cand, x - 1, y) /\ Right(cand, x, y - 1)
      BY <1>5, <3>2
    <3>4. LongestBy(A, B, cand, <<x, y>>) \in Nat /\ KeptLines(E, x, y, LongestBy(A, B, cand, <<x, y>>))
      BY <1>4, <3>3
    <3>5. cand[<<x, y>>] \in Nat /\ KeptLines(E, x, y, cand[<<x, y>>])
      BY <1>5 DEF Right
    <3>6. cand[<<x, y>>] = LongestBy(A, B, cand, <<x, y>>)
      BY <3>2, <3>4, <3>5, KeptOnce
    <3> QED
      BY <3>1, <3>6
  <2>2. cand = [q \in S |-> cand[q]]
    BY DEF cand
  <2> QED
    BY <2>1, <2>2
<1>8. Runs(l)
  <2> HIDE DEF Runs
  <2> QED
    BY <1>7, Zenon DEF l
<1>9. \A q \in S : l[q] = LongestBy(A, B, l, q)
  BY <1>8
<1> HIDE DEF Runs
<1> DEFINE Bad == {q \in S : ~Right(l, q[1], q[2])}
           weight == [q \in Bad |-> q[1] + q[2]]
<1>10. Bad = {}
  <2> SUFFICES ASSUME Bad # {} PROVE FALSE
    OBVIOUS
  <2>1. \A q \in Bad : q[1] \in 0..N /\ q[2] \in 0..M /\ q = <<q[1], q[2]>> /\ q[1] + q[2] \in Nat
    BY <1>2 DEF S
  <2>2. PICK q \in Bad : \A r \in Bad : weight[q] <= weight[r]
    <3>1. \A r \in Bad : weight[r] \in Nat
      BY <2>1
    <3> HIDE DEF weight, Bad
    <3> QED
      BY <3>1, LeastBy
  <2> DEFINE x == q[1]  y == q[2]
  <2>3. x \in 0..N /\ y \in 0..M /\ q = <<x, y>> /\ ~Right(l, x, y)
    BY <2>1
  <2>4. ASSUME NEW u \in 0..N, NEW v \in 0..M, u + v < x + y PROVE Right(l, u, v)
    <3> SUFFICES ASSUME ~Right(l, u, v) PROVE FALSE
      OBVIOUS
    <3>1. <<u, v>> \in S /\ <<u, v>>[1] = u /\ <<u, v>>[2] = v
      BY DEF S
    <3>2. <<u, v>> \in Bad
      BY <3>1
    <3>3. x + y <= u + v
      BY <2>2, <3>1, <3>2
    <3>4. x + y \in Nat /\ u + v \in Nat
      BY <2>3, <1>2, SMTT(30)
    <3> QED
      BY <2>4, <3>3, <3>4
  <2> HIDE DEF x, y, Bad, weight
  <2>5. x > 0 /\ y > 0 => Right(l, x - 1, y - 1) /\ Right(l, x - 1, y) /\ Right(l, x, y - 1)
    <3> SUFFICES ASSUME x > 0, y > 0 PROVE Right(l, x - 1, y - 1) /\ Right(l, x - 1, y) /\ Right(l, x, y - 1)
      OBVIOUS
    <3>1. x - 1 \in 0..N /\ y - 1 \in 0..M /\ (x - 1) + (y - 1) < x + y /\ (x - 1) + y < x + y /\ x + (y - 1) < x + y
      BY <1>2, <2>3
    <3> QED
      BY <2>3, <2>4, <3>1
  <2>6. LongestBy(A, B, l, <<x, y>>) \in Nat /\ KeptLines(E, x, y, LongestBy(A, B, l, <<x, y>>))
    BY <1>4, <2>3, <2>5
  <2>7. l[<<x, y>>] = LongestBy(A, B, l, <<x, y>>)
    <3>1. <<x, y>> \in S
      BY <2>3 DEF S
    <3> QED
      BY <1>9, <3>1
  <2> QED
    BY <2>3, <2>6, <2>7 DEF Right
<1>11. Right(l, N, M)
  <2>1. <<N, M>> \in S /\ <<N, M>>[1] = N /\ <<N, M>>[2] = M
    BY <1>2 DEF S
  <2> QED
    BY <1>10, <2>1
<1> QED
  BY <1>1, <1>11 DEF Right, N, M

(* The lines the ranges leave equal are as many as can be kept. *)
LEMMA RangesKeep ==
  ASSUME NEW A, NEW B, Len(A) \in Nat, Len(B) \in Nat
  PROVE  DiffRanges(A, B) \in Ranges /\ Reached(A, B, DiffRanges(A, B), Len(A), Len(B), LCS(A, B))
<1> DEFINE d == NewDiff(A, B)  E == Sames(A, B, d, FALSE)
<1>1. DiffRanges(A, B) \in Ranges
  BY RangesFound
<1>2. PICK gain \in Nat, c \in Nat :
        /\ Reached(A, B, DiffRanges(A, B), Len(A), Len(B), gain)
        /\ Least(E, Len(A), Len(B), c)
        /\ Len(A) + Len(B) = c + 2 * gain
  BY RangesFound
<1>3. \A x \in 0..Len(A) - 1, y \in 0..Len(B) - 1 : In(E, x, y) <=> A[x + 1] = B[y + 1]
  <2> SUFFICES ASSUME NEW x \in 0..Len(A) - 1, NEW y \in 0..Len(B) - 1
               PROVE  In(E, x, y) <=> A[x + 1] = B[y + 1]
    OBVIOUS
  <2>1. x \in Nat /\ y \in Nat /\ x < Len(A) /\ y < Len(B)
    OBVIOUS
  <2>2. d.i = 0 /\ d.j = 0 /\ d.n = Len(A) /\ d.m = Len(B)
    BY DEF NewDiff
  <2>3. In(E, x, y) <=> x < d.n /\ y < d.m /\ SameAt(A, B, d, FALSE, x, y)
    BY <2>1, InSames
  <2>4. SameAt(A, B, d, FALSE, x, y) <=> Eq(A, B, d.i + x, d.j + y)
    BY DEF SameAt
  <2>5. d.i + x = x /\ d.j + y = y
    BY <2>1, <2>2
  <2>6. Eq(A, B, x, y) <=> A[x + 1] = B[y + 1]
    BY DEF Eq
  <2> QED
    BY <2>1, <2>2, <2>3, <2>4, <2>5, <2>6
<1>4. LCS(A, B) \in Nat /\ KeptLines(E, Len(A), Len(B), LCS(A, B))
  <2> HIDE DEF E
  <2> QED
    BY <1>3, LCSKept
<1>5. KeptLines(E, Len(A), Len(B), gain)
  BY <1>2 DEF KeptLines
<1>6. LCS(A, B) = gain
  <2> HIDE DEF E
  <2> QED
    BY <1>4, <1>5, KeptOnce
<1> QED
  BY <1>1, <1>2, <1>6

-----------------------------------------------------------------------------
(* Counting edits. *)

LEMMA CountNil ==
  ASSUME NEW es, NEW kinds
  PROVE  Count(es, 0, kinds) = 0
<1>1. {t \in 1..0 : es[t].kind \in kinds} = {}
  OBVIOUS
<1> QED
  BY <1>1, FS_EmptySet DEF Count

LEMMA CountType ==
  ASSUME NEW es, NEW kinds, NEW q \in Nat
  PROVE  Count(es, q, kinds) \in Nat
<1> DEFINE C == {t \in 1..q : es[t].kind \in kinds}
<1>1. IsFiniteSet(C)
  <2>1. IsFiniteSet(1..q)
    BY FS_Interval
  <2> QED
    BY <2>1, FS_Subset
<1> HIDE DEF C
<1>2. Cardinality(C) \in Nat
  BY <1>1, FS_CardinalityType
<1> QED
  BY <1>2 DEF Count, C

LEMMA CountNext ==
  ASSUME NEW es, NEW kinds, NEW q \in Nat
  PROVE  /\ es[q + 1].kind \in kinds => Count(es, q + 1, kinds) = Count(es, q, kinds) + 1
         /\ es[q + 1].kind \notin kinds => Count(es, q + 1, kinds) = Count(es, q, kinds)
<1> DEFINE C(r) == {t \in 1..r : es[t].kind \in kinds}
<1>1. IsFiniteSet(C(q))
  <2>1. IsFiniteSet(1..q)
    BY FS_Interval
  <2> QED
    BY <2>1, FS_Subset
<1>2. q + 1 \notin C(q)
  OBVIOUS
<1>3. C(q + 1) = IF es[q + 1].kind \in kinds THEN C(q) \cup {q + 1} ELSE C(q)
  <2>1. \A t : t \in 1..q + 1 <=> t \in 1..q \/ t = q + 1
    OBVIOUS
  <2> QED
    BY <2>1
<1> HIDE DEF C
<1>4. Cardinality(C(q) \cup {q + 1}) = Cardinality(C(q)) + 1
  BY <1>1, <1>2, FS_AddElement
<1>5. /\ es[q + 1].kind \in kinds => Cardinality(C(q + 1)) = Cardinality(C(q)) + 1
      /\ es[q + 1].kind \notin kinds => Cardinality(C(q + 1)) = Cardinality(C(q))
  BY <1>3, <1>4
<1> QED
  BY <1>5 DEF Count, C

SameKinds(es, o, fs, n) == \A t \in 1..n : es[o + t].kind = fs[t].kind

CountsFrom(es, o, fs, n, kinds) ==
  \A q \in 0..n : Count(es, o + q, kinds) = Count(es, o, kinds) + Count(fs, q, kinds)

(* As many are counted as the first edits count in another list. *)
LEMMA CountShifted ==
  ASSUME NEW es, NEW fs, NEW kinds, NEW o \in Nat, NEW n \in Nat,
         SameKinds(es, o, fs, n)
  PROVE  CountsFrom(es, o, fs, n, kinds)
<1> DEFINE T == {q \in Nat : q <= n => Count(es, o + q, kinds) = Count(es, o, kinds) + Count(fs, q, kinds)}
<1>1. /\ Count(fs, 0, kinds) = 0
      /\ \A q \in Nat : Count(es, q, kinds) \in Nat /\ Count(fs, q, kinds) \in Nat
  BY CountNil, CountType
<1>2. 0 \in T
  BY <1>1
<1>3. ASSUME NEW q \in T PROVE q + 1 \in T
  <2> SUFFICES ASSUME q + 1 <= n
               PROVE  Count(es, o + (q + 1), kinds) = Count(es, o, kinds) + Count(fs, q + 1, kinds)
    OBVIOUS
  <2>1. q \in Nat /\ o + q \in Nat /\ q + 1 \in 1..n /\ o + (q + 1) = (o + q) + 1 /\ q <= n
    OBVIOUS
  <2>2. es[(o + q) + 1].kind = fs[q + 1].kind
    BY <2>1 DEF SameKinds
  <2>3. Count(es, o + q, kinds) = Count(es, o, kinds) + Count(fs, q, kinds)
    BY <2>1
  <2> DEFINE c == Count(es, o + q, kinds)  d == Count(es, o, kinds)  e == Count(fs, q, kinds)
             g == Count(es, (o + q) + 1, kinds)  h == Count(fs, q + 1, kinds)
  <2>4. /\ es[(o + q) + 1].kind \in kinds => g = c + 1
        /\ es[(o + q) + 1].kind \notin kinds => g = c
    BY <2>1, CountNext
  <2>5. /\ fs[q + 1].kind \in kinds => h = e + 1
        /\ fs[q + 1].kind \notin kinds => h = e
    BY <2>1, CountNext
  <2>6. c \in Nat /\ d \in Nat /\ e \in Nat /\ c = d + e
    BY <1>1, <2>1, <2>3
  <2> HIDE DEF c, d, e, g, h
  <2>7. g = d + h
    BY <2>2, <2>4, <2>5, <2>6
  <2> QED
    BY <2>1, <2>7 DEF d, g, h
<1>4. T \in SUBSET Nat
  OBVIOUS
<1> HIDE DEF T
<1>5. T = Nat
  BY <1>2, <1>3, <1>4, Climb
<1> QED
  BY <1>5 DEF T, CountsFrom

LEMMA CountAll ==
  ASSUME NEW es, NEW kinds, NEW n \in Nat, \A t \in 1..n : es[t].kind \in kinds
  PROVE  \A q \in 0..n : Count(es, q, kinds) = q
<1> DEFINE T == {q \in Nat : q <= n => Count(es, q, kinds) = q}
<1>1. 0 \in T
  BY CountNil
<1>2. ASSUME NEW q \in T PROVE q + 1 \in T
  <2> SUFFICES ASSUME q + 1 <= n PROVE Count(es, q + 1, kinds) = q + 1
    OBVIOUS
  <2>1. q \in Nat /\ q + 1 \in 1..n /\ q <= n
    OBVIOUS
  <2>2. es[q + 1].kind \in kinds /\ Count(es, q, kinds) = q
    BY <2>1
  <2> QED
    BY <2>1, <2>2, CountNext
<1>3. T \in SUBSET Nat
  OBVIOUS
<1> HIDE DEF T
<1>4. T = Nat
  BY <1>1, <1>2, <1>3, Climb
<1> QED
  BY <1>4 DEF T

LEMMA CountNone ==
  ASSUME NEW es, NEW kinds, NEW n \in Nat, \A t \in 1..n : es[t].kind \notin kinds
  PROVE  \A q \in 0..n : Count(es, q, kinds) = 0
<1> DEFINE T == {q \in Nat : q <= n => Count(es, q, kinds) = 0}
<1>1. 0 \in T
  BY CountNil
<1>2. ASSUME NEW q \in T PROVE q + 1 \in T
  <2> SUFFICES ASSUME q + 1 <= n PROVE Count(es, q + 1, kinds) = 0
    OBVIOUS
  <2>1. q \in Nat /\ q + 1 \in 1..n /\ q <= n
    OBVIOUS
  <2>2. es[q + 1].kind \notin kinds /\ Count(es, q, kinds) = 0
    BY <2>1
  <2> QED
    BY <2>1, <2>2, CountNext
<1>3. T \in SUBSET Nat
  OBVIOUS
<1> HIDE DEF T
<1>4. T = Nat
  BY <1>1, <1>2, <1>3, Climb
<1> QED
  BY <1>4 DEF T

LEMMA CountGrows ==
  ASSUME NEW es, NEW kinds, NEW q \in Nat, NEW r \in Nat, q <= r
  PROVE  Count(es, q, kinds) <= Count(es, r, kinds)
<1> DEFINE T == {d \in Nat : Count(es, q, kinds) <= Count(es, q + d, kinds)}
<1>1. 0 \in T
  <2>1. q + 0 = q /\ Count(es, q, kinds) \in Nat
    BY CountType
  <2> QED
    BY <2>1
<1>2. ASSUME NEW d \in T PROVE d + 1 \in T
  <2> DEFINE a == Count(es, q, kinds)  b == Count(es, q + d, kinds)  c == Count(es, q + (d + 1), kinds)
  <2>1. q + d \in Nat /\ q + (d + 1) = (q + d) + 1 /\ d + 1 \in Nat
    OBVIOUS
  <2>2. a \in Nat /\ b \in Nat /\ a <= b
    BY <2>1, CountType
  <2>3. c = b + 1 \/ c = b
    BY <2>1, CountNext
  <2> HIDE DEF a, b, c
  <2>4. a <= c
    BY <2>2, <2>3
  <2> QED
    BY <2>1, <2>4 DEF a, c
<1>3. T \in SUBSET Nat
  OBVIOUS
<1> HIDE DEF T
<1>4. T = Nat
  BY <1>1, <1>2, <1>3, Climb
<1>5. r - q \in T /\ q + (r - q) = r
  BY <1>4
<1> QED
  BY <1>5 DEF T

-----------------------------------------------------------------------------
(* Joining a sequence of sequences. *)

FlattenBy(S, s, n, f) ==
  f \in [1..n -> Seq(S)] /\ \A i \in 1..n : f[i] = IF i = 1 THEN s[i] ELSE f[i - 1] \o s[i]

SameUpTo(s, t, k) == \A i \in 1..k : s[i] = t[i]

LEMMA FlattenExists ==
  ASSUME NEW S, NEW s \in Seq(Seq(S)), NEW n \in 0..Len(s)
  PROVE  \E f : FlattenBy(S, s, n, f)
<1> DEFINE T == {k \in Nat : k <= Len(s) => \E f : FlattenBy(S, s, k, f)}
<1>1. 0 \in T
  <2> DEFINE f == [i \in 1..0 |-> <<>>]
  <2>1. FlattenBy(S, s, 0, f)
    BY DEF FlattenBy
  <2> QED
    BY <2>1
<1>2. ASSUME NEW k \in T PROVE k + 1 \in T
  <2> SUFFICES ASSUME k + 1 <= Len(s) PROVE \E f : FlattenBy(S, s, k + 1, f)
    OBVIOUS
  <2>1. k \in Nat /\ k <= Len(s) /\ k + 1 \in 1..Len(s)
    OBVIOUS
  <2>2. PICK f : FlattenBy(S, s, k, f)
    BY <2>1
  <2>3. s[k + 1] \in Seq(S)
    BY <2>1
  <2> DEFINE e == IF k + 1 = 1 THEN s[k + 1] ELSE f[k] \o s[k + 1]
             g == [i \in 1..k + 1 |-> IF i = k + 1 THEN e ELSE f[i]]
  <2>4. f \in [1..k -> Seq(S)]
    BY <2>2 DEF FlattenBy
  <2>5. e \in Seq(S)
    <3>1. CASE k = 0
      BY <2>3, <3>1
    <3>2. CASE k # 0
      <4>1. k \in 1..k /\ k + 1 # 1
        BY <2>1, <3>2
      <4>2. f[k] \in Seq(S)
        BY <2>4, <4>1
      <4> DEFINE a == f[k]  b == s[k + 1]
      <4>3. a \in Seq(S) /\ b \in Seq(S) /\ e = a \o b
        BY <2>3, <4>1, <4>2
      <4> HIDE DEF a, b, e
      <4> QED
        BY <4>3, ConcatProperties
    <3> QED
      BY <3>1, <3>2
  <2> HIDE DEF e
  <2>6. g \in [1..k + 1 -> Seq(S)]
    <3>1. \A i \in 1..k + 1 : i # k + 1 => i \in 1..k
      BY <2>1
    <3> QED
      BY <2>4, <2>5, <3>1
  <2>7. ASSUME NEW i \in 1..k + 1 PROVE g[i] = IF i = 1 THEN s[i] ELSE g[i - 1] \o s[i]
    <3>1. CASE i = k + 1
      <4>1. g[i] = e
        BY <3>1
      <4>2. i # 1 => i - 1 \in 1..k + 1 /\ i - 1 # k + 1 /\ i - 1 = k
        BY <2>1, <3>1
      <4>3. i # 1 => g[i - 1] = f[k]
        BY <4>2
      <4> HIDE DEF g
      <4> QED
        BY <3>1, <4>1, <4>3 DEF e
    <3>2. CASE i # k + 1
      <4>1. i \in 1..k /\ (i # 1 => i - 1 \in 1..k /\ i - 1 \in 1..k + 1 /\ i - 1 # k + 1)
        BY <2>1, <3>2
      <4>2. g[i] = f[i] /\ (i # 1 => g[i - 1] = f[i - 1])
        BY <3>2, <4>1
      <4> HIDE DEF g
      <4> QED
        BY <2>2, <4>1, <4>2 DEF FlattenBy
    <3> QED
      BY <3>1, <3>2
  <2> HIDE DEF g
  <2>8. FlattenBy(S, s, k + 1, g)
    BY <2>6, <2>7 DEF FlattenBy
  <2> QED
    BY <2>8
<1>3. T \in SUBSET Nat
  OBVIOUS
<1> HIDE DEF T
<1>4. T = Nat
  BY <1>1, <1>2, <1>3, Climb
<1>5. n \in T /\ n <= Len(s)
  BY <1>4
<1> QED
  BY <1>5 DEF T

LEMMA FlattenOnce ==
  ASSUME NEW S, NEW s, NEW t, NEW n \in Nat, NEW m \in Nat, NEW f, NEW g, NEW k \in 1..n, k <= m,
         FlattenBy(S, s, n, f), FlattenBy(S, t, m, g), SameUpTo(s, t, k)
  PROVE  f[k] = g[k]
<1> DEFINE T == {i \in Nat : i + 1 <= k => f[i + 1] = g[i + 1]}
<1>1. \A i \in 1..k : i \in 1..n /\ i \in 1..m
  OBVIOUS
<1>2. \A i \in 1..k : /\ f[i] = IF i = 1 THEN s[i] ELSE f[i - 1] \o s[i]
                      /\ g[i] = IF i = 1 THEN s[i] ELSE g[i - 1] \o s[i]
  BY <1>1 DEF FlattenBy, SameUpTo
<1>3. 0 \in T
  <2>1. 0 + 1 = 1 /\ 1 \in 1..k
    OBVIOUS
  <2> QED
    BY <1>2, <2>1
<1>4. ASSUME NEW i \in T PROVE i + 1 \in T
  <2> SUFFICES ASSUME (i + 1) + 1 <= k PROVE f[(i + 1) + 1] = g[(i + 1) + 1]
    OBVIOUS
  <2>1. (i + 1) + 1 \in 1..k /\ (i + 1) + 1 # 1 /\ ((i + 1) + 1) - 1 = i + 1 /\ i + 1 <= k
    OBVIOUS
  <2> QED
    BY <1>2, <2>1
<1>5. T \in SUBSET Nat
  OBVIOUS
<1> HIDE DEF T
<1>6. T = Nat
  BY <1>3, <1>4, <1>5, Climb
<1>7. k - 1 \in T /\ (k - 1) + 1 = k
  BY <1>6
<1> QED
  BY <1>7 DEF T

LEMMA FlattenIs ==
  ASSUME NEW S, NEW s \in Seq(Seq(S)), s # <<>>
  PROVE  \E f : FlattenBy(S, s, Len(s), f) /\ FlattenSeq(s) = f[Len(s)]
<1> DEFINE n == Len(s)
           Runs(f) == f = [i \in 1..n |-> IF i = 1 THEN s[i] ELSE f[i - 1] \o s[i]]
           g == CHOOSE f : Runs(f)
<1>1. n \in Nat /\ n > 0
  OBVIOUS
<1>2. FlattenSeq(s) = g[n]
  <2>1. Len(s) # 0
    BY <1>1
  <2>2. FlattenSeq(s) =
          (CHOOSE f : f = [i \in 1..Len(s) |-> IF i = 1 THEN s[i] ELSE f[i - 1] \o s[i]])[Len(s)]
    BY <2>1, Zenon DEF FlattenSeq
  <2> QED
    BY <2>2
<1>3. PICK f : FlattenBy(S, s, n, f)
  <2>1. n \in 0..Len(s)
    BY <1>1
  <2> QED
    BY <2>1, FlattenExists
<1>4. Runs(f)
  <2>1. f = [i \in 1..n |-> f[i]] /\ \A i \in 1..n : f[i] = IF i = 1 THEN s[i] ELSE f[i - 1] \o s[i]
    BY <1>3 DEF FlattenBy
  <2> QED
    BY <2>1
<1>5. Runs(g)
  <2> HIDE DEF Runs
  <2> QED
    BY <1>4, Zenon
<1> HIDE DEF g
<1>6. \A i \in 1..n : g[i] = IF i = 1 THEN s[i] ELSE g[i - 1] \o s[i]
  BY <1>5
<1>7. g[n] = f[n]
  <2> DEFINE T == {i \in Nat : i + 1 <= n => f[i + 1] = g[i + 1]}
  <2>1. \A i \in 1..n : f[i] = IF i = 1 THEN s[i] ELSE f[i - 1] \o s[i]
    BY <1>3 DEF FlattenBy
  <2> HIDE DEF n, Runs
  <2>2. 0 \in T
    <3>1. 0 + 1 = 1 /\ 1 \in 1..n
      BY <1>1
    <3> QED
      BY <1>6, <2>1, <3>1
  <2>3. ASSUME NEW i \in T PROVE i + 1 \in T
    <3> SUFFICES ASSUME (i + 1) + 1 <= n PROVE f[(i + 1) + 1] = g[(i + 1) + 1]
      OBVIOUS
    <3>1. (i + 1) + 1 \in 1..n /\ (i + 1) + 1 # 1 /\ ((i + 1) + 1) - 1 = i + 1 /\ i + 1 <= n
      BY <1>1
    <3> QED
      BY <1>6, <2>1, <3>1
  <2>4. T \in SUBSET Nat
    OBVIOUS
  <2> HIDE DEF T
  <2>5. T = Nat
    BY <2>2, <2>3, <2>4, Climb
  <2>6. n - 1 \in T /\ (n - 1) + 1 = n
    BY <1>1, <2>5
  <2> QED
    BY <2>6 DEF T
<1> QED
  BY <1>2, <1>3, <1>7

(* Joining what has one sequence more adds that one at the end. *)
LEMMA FlattenFacts ==
  ASSUME NEW S, NEW s \in Seq(Seq(S))
  PROVE  /\ FlattenSeq(s) \in Seq(S)
         /\ s = <<>> => FlattenSeq(s) = <<>>
         /\ \A e \in Seq(S) : \A t : t = Append(s, e) => FlattenSeq(t) = FlattenSeq(s) \o e
<1>1. s = <<>> => FlattenSeq(s) = <<>>
  BY DEF FlattenSeq
<1>2. s # <<>> => FlattenSeq(s) \in Seq(S)
  <2> SUFFICES ASSUME s # <<>> PROVE FlattenSeq(s) \in Seq(S)
    OBVIOUS
  <2>1. PICK f : FlattenBy(S, s, Len(s), f) /\ FlattenSeq(s) = f[Len(s)]
    BY FlattenIs
  <2>2. Len(s) \in 1..Len(s)
    OBVIOUS
  <2> QED
    BY <2>1, <2>2, SMTT(30) DEF FlattenBy
<1>3. FlattenSeq(s) \in Seq(S)
  BY <1>1, <1>2
<1>4. ASSUME NEW e \in Seq(S), NEW t, t = Append(s, e) PROVE FlattenSeq(t) = FlattenSeq(s) \o e
  <2> DEFINE n == Len(s)
  <2>1. /\ t \in Seq(Seq(S)) /\ Len(t) = n + 1 /\ t[n + 1] = e /\ n \in Nat
        /\ \A i \in 1..n : t[i] = s[i]
    BY <1>4, AppendProperties
  <2>2. t # <<>>
    BY <2>1
  <2>3. PICK g : FlattenBy(S, t, Len(t), g) /\ FlattenSeq(t) = g[Len(t)]
    BY <2>1, <2>2, FlattenIs
  <2>4. n + 1 \in 1..n + 1
    BY <2>1
  <2>5. g[n + 1] = IF n + 1 = 1 THEN e ELSE g[(n + 1) - 1] \o e
    BY <2>1, <2>3, <2>4 DEF FlattenBy
  <2>6. CASE s = <<>>
    <3>1. n = 0 /\ n + 1 = 1 /\ FlattenSeq(s) = <<>>
      BY <1>1, <2>6
    <3>2. <<>> \o e = e
      OBVIOUS
    <3> QED
      BY <2>1, <2>3, <2>5, <3>1, <3>2
  <2>7. CASE s # <<>>
    <3>1. n > 0 /\ n + 1 # 1 /\ (n + 1) - 1 = n /\ n \in 1..n /\ n <= n + 1
      BY <2>7
    <3>2. PICK f : FlattenBy(S, s, n, f) /\ FlattenSeq(s) = f[n]
      BY <2>7, FlattenIs
    <3> HIDE DEF n
    <3>3. f[n] = g[n]
      <4>1. \A i \in 1..n : s[i] = t[i]
        BY <2>1
      <4>2. FlattenBy(S, t, n + 1, g) /\ n + 1 \in Nat
        BY <2>1, <2>3
      <4> QED
        <5> DEFINE m == n + 1
        <5>1. /\ FlattenBy(S, s, n, f) /\ FlattenBy(S, t, m, g) /\ SameUpTo(s, t, n)
              /\ n \in Nat /\ m \in Nat /\ n \in 1..n /\ n <= m
          BY <2>1, <3>1, <3>2, <4>1, <4>2 DEF SameUpTo
        <5> HIDE DEF m
        <5> QED
          BY <5>1, FlattenOnce
    <3> QED
      BY <2>1, <2>3, <2>5, <3>1, <3>2, <3>3
  <2> QED
    BY <2>6, <2>7
<1> QED
  BY <1>1, <1>3, <1>4

-----------------------------------------------------------------------------
(* Edits that lead on from <<x, y>>. *)

EditSet == [kind : {"eql", "del", "ins"}, old : Int, new : Int]

OldLines(es, q) == Count(es, q, {"eql", "del"})
NewLines(es, q) == Count(es, q, {"eql", "ins"})
EqualLines(es, q) == Count(es, q, {"eql"})

Follows(A, B, x, y, es, q) ==
  /\ es[q].kind # "ins" => es[q].old = x + OldLines(es, q - 1)
  /\ es[q].kind # "del" => es[q].new = y + NewLines(es, q - 1)
  /\ es[q].kind = "eql" => Eq(A, B, es[q].old, es[q].new)

Walk(A, B, x, y, es, u, v, k) ==
  /\ x \in Nat /\ y \in Nat /\ es \in Seq(EditSet)
  /\ \A q \in 1..Len(es) : Follows(A, B, x, y, es, q)
  /\ OldLines(es, Len(es)) = u /\ NewLines(es, Len(es)) = v /\ EqualLines(es, Len(es)) = k

CountsJoin(es, fs, gs, kinds) ==
  /\ \A q \in 0..Len(es) : Count(gs, q, kinds) = Count(es, q, kinds)
  /\ \A q \in 0..Len(fs) : Count(gs, Len(es) + q, kinds) = Count(es, Len(es), kinds) + Count(fs, q, kinds)

LEMMA CountJoin ==
  ASSUME NEW S, NEW es \in Seq(S), NEW fs \in Seq(S), NEW gs, gs = es \o fs, NEW kinds
  PROVE  CountsJoin(es, fs, gs, kinds)
<1> DEFINE n == Len(es)  m == Len(fs)
<1>1. /\ n \in Nat /\ m \in Nat
      /\ \A t \in 1..n : gs[t] = es[t]
      /\ \A t \in 1..m : gs[n + t] = fs[t]
  OBVIOUS
<1> HIDE DEF n, m
<1>2. \A q \in 0..n : Count(gs, q, kinds) = Count(es, q, kinds)
  <2>1. \A t \in 1..n : gs[0 + t].kind = es[t].kind
    <3>1. \A t \in 1..n : 0 + t = t
      BY <1>1
    <3> QED
      BY <1>1, <3>1
  <2> DEFINE o == 0
  <2>2. o \in Nat /\ \A t \in 1..n : gs[o + t].kind = es[t].kind
    BY <2>1
  <2> HIDE DEF o
  <2>6. SameKinds(gs, o, es, n)
    BY <2>2 DEF SameKinds
  <2>7. CountsFrom(gs, o, es, n, kinds)
    BY <1>1, <2>2, <2>6, CountShifted
  <2>3. \A q \in 0..n : Count(gs, o + q, kinds) = Count(gs, o, kinds) + Count(es, q, kinds)
    BY <2>7 DEF CountsFrom
  <2>4. Count(gs, 0, kinds) = 0
    BY CountNil
  <2>5. ASSUME NEW q \in 0..n PROVE Count(gs, q, kinds) = Count(es, q, kinds)
    <3>1. q \in Nat /\ 0 + q = q
      BY <1>1
    <3>2. Count(es, q, kinds) \in Nat
      BY <3>1, CountType
    <3> QED
      BY <2>3, <2>4, <3>1, <3>2 DEF o
  <2> QED
    BY <2>5
<1>3. \A q \in 0..m : Count(gs, n + q, kinds) = Count(gs, n, kinds) + Count(fs, q, kinds)
  <2>1. SameKinds(gs, n, fs, m)
    BY <1>1 DEF SameKinds
  <2>2. CountsFrom(gs, n, fs, m, kinds)
    BY <1>1, <2>1, CountShifted
  <2> QED
    BY <2>2 DEF CountsFrom
<1>4. Count(gs, n, kinds) = Count(es, n, kinds)
  BY <1>1, <1>2
<1> QED
  BY <1>2, <1>3, <1>4 DEF n, m, CountsJoin

LEMMA WalkJoin ==
  ASSUME NEW A, NEW B, NEW x, NEW y, NEW es, NEW u, NEW v, NEW k, Walk(A, B, x, y, es, u, v, k),
         NEW fs, NEW w, NEW z, NEW l, Walk(A, B, x + u, y + v, fs, w, z, l)
  PROVE  Walk(A, B, x, y, es \o fs, u + w, v + z, k + l)
<1> DEFINE gs == es \o fs  n == Len(es)  m == Len(fs)
<1>1. es \in Seq(EditSet) /\ fs \in Seq(EditSet) /\ x \in Nat /\ y \in Nat /\ x + u \in Nat /\ y + v \in Nat
  BY DEF Walk
<1>2. /\ n \in Nat /\ m \in Nat /\ gs \in Seq(EditSet) /\ Len(gs) = n + m
      /\ \A t \in 1..n : gs[t] = es[t]
      /\ \A t \in 1..m : gs[n + t] = fs[t]
  BY <1>1
<1>3. \A kinds : CountsJoin(es, fs, gs, kinds)
  BY <1>1, CountJoin
<1> HIDE DEF gs
<1>4. /\ \A q \in 0..n : OldLines(gs, q) = OldLines(es, q) /\ NewLines(gs, q) = NewLines(es, q)
      /\ \A q \in 0..m : /\ OldLines(gs, n + q) = OldLines(es, n) + OldLines(fs, q)
                         /\ NewLines(gs, n + q) = NewLines(es, n) + NewLines(fs, q)
                         /\ EqualLines(gs, n + q) = EqualLines(es, n) + EqualLines(fs, q)
  BY <1>3 DEF CountsJoin, OldLines, NewLines, EqualLines
<1>5. /\ OldLines(es, n) = u /\ NewLines(es, n) = v /\ EqualLines(es, n) = k
      /\ OldLines(fs, m) = w /\ NewLines(fs, m) = z /\ EqualLines(fs, m) = l
      /\ \A q \in 1..n : Follows(A, B, x, y, es, q)
      /\ \A q \in 1..m : Follows(A, B, x + u, y + v, fs, q)
  BY DEF Walk
<1>6. \A q \in Nat : OldLines(fs, q) \in Nat /\ NewLines(fs, q) \in Nat
  BY CountType DEF OldLines, NewLines
<1>7. u \in Nat /\ v \in Nat
  BY <1>2, <1>5, CountType DEF OldLines, NewLines
<1> HIDE DEF n, m
<1>8. ASSUME NEW q \in 1..n + m PROVE Follows(A, B, x, y, gs, q)
  <2>1. CASE q <= n
    <3>1. q \in 1..n /\ q - 1 \in 0..n
      BY <1>2, <2>1
    <3>2. gs[q] = es[q] /\ OldLines(gs, q - 1) = OldLines(es, q - 1) /\ NewLines(gs, q - 1) = NewLines(es, q - 1)
      BY <1>2, <1>4, <3>1
    <3>3. Follows(A, B, x, y, es, q)
      BY <1>5, <3>1
    <3> QED
      BY <3>2, <3>3 DEF Follows
  <2>2. CASE ~(q <= n)
    <3> DEFINE t == q - n
    <3>1. t \in 1..m /\ t - 1 \in 0..m /\ t - 1 \in Nat /\ n + t = q /\ n + (t - 1) = q - 1
      BY <1>2, <2>2
    <3> HIDE DEF t
    <3>2. /\ gs[q] = fs[t]
          /\ OldLines(gs, q - 1) = u + OldLines(fs, t - 1)
          /\ NewLines(gs, q - 1) = v + NewLines(fs, t - 1)
      <4>1. gs[n + t] = fs[t]
        BY <1>2, <3>1
      <4>2. /\ OldLines(gs, n + (t - 1)) = OldLines(es, n) + OldLines(fs, t - 1)
            /\ NewLines(gs, n + (t - 1)) = NewLines(es, n) + NewLines(fs, t - 1)
        BY <1>4, <3>1
      <4> QED
        BY <1>5, <3>1, <4>1, <4>2
    <3>3. Follows(A, B, x + u, y + v, fs, t)
      BY <1>5, <3>1
    <3> DEFINE a == OldLines(fs, t - 1)  b == NewLines(fs, t - 1)
    <3>4. a \in Nat /\ b \in Nat
      BY <1>6, <3>1
    <3>5. (x + u) + a = x + (u + a) /\ (y + v) + b = y + (v + b)
      <4> HIDE DEF a, b
      <4> QED
        BY <1>1, <1>7, <3>4
    <3> QED
      BY <3>2, <3>3, <3>5 DEF Follows
  <2> QED
    BY <2>1, <2>2
<1>9. OldLines(gs, n + m) = u + w /\ NewLines(gs, n + m) = v + z /\ EqualLines(gs, n + m) = k + l
  <2>1. m \in 0..m
    BY <1>2
  <2> QED
    BY <1>4, <1>5, <2>1
<1>10. Walk(A, B, x, y, gs, u + w, v + z, k + l)
  BY <1>1, <1>2, <1>8, <1>9 DEF Walk
<1> QED
  BY <1>10 DEF gs

LEMMA EqualWalk ==
  ASSUME NEW A, NEW B, NEW x \in Nat, NEW y \in Nat, NEW c \in Nat,
         \A t \in 0..c - 1 : Eq(A, B, x + t, y + t)
  PROVE  Walk(A, B, x, y, Equal(x, y, c), c, c, c)
<1> DEFINE es == Equal(x, y, c)
<1>1. /\ es \in Seq(EditSet) /\ Len(es) = c
      /\ \A q \in 1..c : es[q].kind = "eql" /\ es[q].old = x + q - 1 /\ es[q].new = y + q - 1
  <2> DEFINE e(t) == [kind |-> "eql", old |-> x + t - 1, new |-> y + t - 1]
  <2>1. es = [t \in 1..c |-> e(t)]
    BY DEF Equal
  <2>2. \A t \in 1..c : e(t) \in EditSet /\ e(t).kind = "eql" /\ e(t).old = x + t - 1 /\ e(t).new = y + t - 1
    BY DEF EditSet
  <2> HIDE DEF e, es
  <2> QED
    BY <2>1, <2>2
<1> HIDE DEF es
<1>2. \A q \in 0..c : OldLines(es, q) = q /\ NewLines(es, q) = q /\ EqualLines(es, q) = q
  <2>1. ASSUME NEW kinds, "eql" \in kinds PROVE \A q \in 0..c : Count(es, q, kinds) = q
    <3>1. c \in Nat /\ \A t \in 1..c : es[t].kind \in kinds
      BY <1>1, <2>1
    <3> QED
      BY <3>1, CountAll
  <2> QED
    BY <2>1 DEF OldLines, NewLines, EqualLines
<1>3. ASSUME NEW q \in 1..c PROVE Follows(A, B, x, y, es, q)
  <2>1. q - 1 \in 0..c /\ q - 1 \in 0..c - 1 /\ x + q - 1 = x + (q - 1) /\ y + q - 1 = y + (q - 1)
    OBVIOUS
  <2> QED
    BY <1>1, <1>2, <2>1 DEF Follows
<1>4. c \in 0..c
  OBVIOUS
<1>5. Walk(A, B, x, y, es, c, c, c)
  BY <1>1, <1>2, <1>3, <1>4 DEF Walk
<1> QED
  BY <1>5 DEF es

LEMMA DeletedWalk ==
  ASSUME NEW A, NEW B, NEW x \in Nat, NEW y \in Nat, NEW u \in Nat, x <= u
  PROVE  Walk(A, B, x, y, Deleted(x, u), u - x, 0, 0)
<1> DEFINE es == Deleted(x, u)  c == u - x
<1>1. /\ es \in Seq(EditSet) /\ Len(es) = c /\ c \in Nat
      /\ \A q \in 1..c : es[q].kind = "del" /\ es[q].old = x + q - 1
  <2> DEFINE e(t) == [kind |-> "del", old |-> x + t - 1, new |-> -1]
  <2>1. es = [t \in 1..c |-> e(t)] /\ c \in Nat
    BY DEF Deleted
  <2>2. \A t \in 1..c : e(t) \in EditSet /\ e(t).kind = "del" /\ e(t).old = x + t - 1
    BY DEF EditSet
  <2> HIDE DEF e, es, c
  <2> QED
    BY <2>1, <2>2
<1> HIDE DEF es, c
<1>2. \A q \in 0..c : OldLines(es, q) = q /\ NewLines(es, q) = 0 /\ EqualLines(es, q) = 0
  <2>1. ASSUME NEW kinds, "del" \in kinds PROVE \A q \in 0..c : Count(es, q, kinds) = q
    <3>1. c \in Nat /\ \A t \in 1..c : es[t].kind \in kinds
      BY <1>1, <2>1
    <3> QED
      BY <3>1, CountAll
  <2>2. ASSUME NEW kinds, "del" \notin kinds PROVE \A q \in 0..c : Count(es, q, kinds) = 0
    <3>1. c \in Nat /\ \A t \in 1..c : es[t].kind \notin kinds
      BY <1>1, <2>2
    <3> QED
      BY <3>1, CountNone
  <2> QED
    BY <2>1, <2>2 DEF OldLines, NewLines, EqualLines
<1>3. ASSUME NEW q \in 1..c PROVE Follows(A, B, x, y, es, q)
  <2>1. q - 1 \in 0..c /\ x + q - 1 = x + (q - 1)
    BY <1>1
  <2> QED
    BY <1>1, <1>2, <2>1 DEF Follows
<1>4. c \in 0..c
  BY <1>1
<1>5. Walk(A, B, x, y, es, c, 0, 0)
  BY <1>1, <1>2, <1>3, <1>4 DEF Walk
<1> QED
  BY <1>5 DEF es, c

LEMMA InsertedWalk ==
  ASSUME NEW A, NEW B, NEW x \in Nat, NEW y \in Nat, NEW v \in Nat, y <= v
  PROVE  Walk(A, B, x, y, Inserted(y, v), 0, v - y, 0)
<1> DEFINE es == Inserted(y, v)  c == v - y
<1>1. /\ es \in Seq(EditSet) /\ Len(es) = c /\ c \in Nat
      /\ \A q \in 1..c : es[q].kind = "ins" /\ es[q].new = y + q - 1
  <2> DEFINE e(t) == [kind |-> "ins", old |-> -1, new |-> y + t - 1]
  <2>1. es = [t \in 1..c |-> e(t)] /\ c \in Nat
    BY DEF Inserted
  <2>2. \A t \in 1..c : e(t) \in EditSet /\ e(t).kind = "ins" /\ e(t).new = y + t - 1
    BY DEF EditSet
  <2> HIDE DEF e, es, c
  <2> QED
    BY <2>1, <2>2
<1> HIDE DEF es, c
<1>2. \A q \in 0..c : OldLines(es, q) = 0 /\ NewLines(es, q) = q /\ EqualLines(es, q) = 0
  <2>1. ASSUME NEW kinds, "ins" \in kinds PROVE \A q \in 0..c : Count(es, q, kinds) = q
    <3>1. c \in Nat /\ \A t \in 1..c : es[t].kind \in kinds
      BY <1>1, <2>1
    <3> QED
      BY <3>1, CountAll
  <2>2. ASSUME NEW kinds, "ins" \notin kinds PROVE \A q \in 0..c : Count(es, q, kinds) = 0
    <3>1. c \in Nat /\ \A t \in 1..c : es[t].kind \notin kinds
      BY <1>1, <2>2
    <3> QED
      BY <3>1, CountNone
  <2> QED
    BY <2>1, <2>2 DEF OldLines, NewLines, EqualLines
<1>3. ASSUME NEW q \in 1..c PROVE Follows(A, B, x, y, es, q)
  <2>1. q - 1 \in 0..c /\ y + q - 1 = y + (q - 1)
    BY <1>1
  <2> QED
    BY <1>1, <1>2, <2>1 DEF Follows
<1>4. c \in 0..c
  BY <1>1
<1>5. Walk(A, B, x, y, es, 0, c, 0)
  BY <1>1, <1>2, <1>3, <1>4 DEF Walk
<1> QED
  BY <1>5 DEF es, c

(* The totals a, b, c of two walks, the second from <<p, q>> on. *)
Totals(x, y, u, v, k, p, q, w, z, l, a, b, c) ==
  p = x + u /\ q = y + v /\ a = u + w /\ b = v + z /\ c = k + l

LEMMA WalkThen ==
  ASSUME NEW A, NEW B, NEW x, NEW y, NEW es, NEW u, NEW v, NEW k, Walk(A, B, x, y, es, u, v, k),
         NEW p, NEW q, NEW fs, NEW w, NEW z, NEW l, Walk(A, B, p, q, fs, w, z, l),
         NEW a, NEW b, NEW c, Totals(x, y, u, v, k, p, q, w, z, l, a, b, c)
  PROVE  Walk(A, B, x, y, es \o fs, a, b, c)
<1>1. p = x + u /\ q = y + v /\ a = u + w /\ b = v + z /\ c = k + l
  BY DEF Totals
<1>2. Walk(A, B, x, y, es \o fs, u + w, v + z, k + l)
  BY <1>1, WalkJoin
<1> QED
  BY <1>1, <1>2

(* The edits of the q-th range and the equal lines before it. *)
RangeEdits(rs, q) ==
  Equal(EndX(rs, q - 1), EndY(rs, q - 1),
        Smaller(rs[q].delStart - EndX(rs, q - 1), rs[q].insStart - EndY(rs, q - 1)))
    \o Deleted(rs[q].delStart, rs[q].delEnd)
    \o Inserted(rs[q].insStart, rs[q].insEnd)

RestOf(A, B, rs) ==
  Equal(EndX(rs, Len(rs)), EndY(rs, Len(rs)),
        Smaller(Len(A) - EndX(rs, Len(rs)), Len(B) - EndY(rs, Len(rs))))

RangesTo(rs, n) == [q \in 1..n |-> RangeEdits(rs, q)]

LEMMA EditsIs ==
  ASSUME NEW A, NEW B, NEW rs \in Ranges, rs # <<>>
  PROVE  EditsOf(A, B, rs) = FlattenSeq(RangesTo(rs, Len(rs))) \o RestOf(A, B, rs)
<1> DEFINE x(q) == IF q = 1 THEN 0 ELSE rs[q - 1].delEnd
           y(q) == IF q = 1 THEN 0 ELSE rs[q - 1].insEnd
           of(q) == Equal(x(q), y(q), Smaller(rs[q].delStart - x(q), rs[q].insStart - y(q)))
                      \o Deleted(rs[q].delStart, rs[q].delEnd)
                      \o Inserted(rs[q].insStart, rs[q].insEnd)
           n == Len(rs)
           after == Equal(x(n + 1), y(n + 1), Smaller(Len(A) - x(n + 1), Len(B) - y(n + 1)))
<1>1. n \in Nat /\ DOMAIN rs = 1..n
  BY DEF Ranges
<1>2. EditsOf(A, B, rs) = FlattenSeq([q \in DOMAIN rs |-> of(q)]) \o after
  BY Zenon DEF EditsOf
<1>3. \A q \in Nat : x(q + 1) = EndX(rs, q) /\ y(q + 1) = EndY(rs, q)
  <2> SUFFICES ASSUME NEW q \in Nat PROVE x(q + 1) = EndX(rs, q) /\ y(q + 1) = EndY(rs, q)
    OBVIOUS
  <2>1. (q + 1) - 1 = q /\ (q + 1 = 1 <=> q = 0)
    OBVIOUS
  <2> QED
    BY <2>1 DEF EndX, EndY
<1> HIDE DEF x, y
<1>4. \A q \in 1..n : of(q) = RangeEdits(rs, q)
  <2> SUFFICES ASSUME NEW q \in 1..n PROVE of(q) = RangeEdits(rs, q)
    OBVIOUS
  <2>1. q - 1 \in Nat /\ (q - 1) + 1 = q
    BY <1>1
  <2>2. x(q) = EndX(rs, q - 1) /\ y(q) = EndY(rs, q - 1)
    BY <1>3, <2>1
  <2> QED
    BY <2>2 DEF RangeEdits
<1>5. after = RestOf(A, B, rs)
  <2>1. x(n + 1) = EndX(rs, n) /\ y(n + 1) = EndY(rs, n)
    BY <1>1, <1>3
  <2> QED
    BY <2>1 DEF RestOf
<1> HIDE DEF of, after
<1>6. [q \in DOMAIN rs |-> of(q)] = RangesTo(rs, n)
  <2> HIDE DEF n
  <2> QED
    BY <1>1, <1>4 DEF RangesTo
<1> QED
  BY <1>2, <1>5, <1>6

LEMMA GapWalk ==
  ASSUME NEW A, NEW B, NEW x, NEW y, NEW u, NEW v, Gap(A, B, x, y, u, v),
         NEW c, c = Smaller(u - x, v - y)
  PROVE  c = u - x /\ c = v - y /\ c \in Nat /\ Walk(A, B, x, y, Equal(x, y, c), c, c, c)
<1>1. /\ x \in Nat /\ y \in Nat /\ u \in Nat /\ v \in Nat /\ x <= u /\ u - x = v - y
      /\ \A t \in 0..u - x - 1 : Eq(A, B, x + t, y + t)
  BY DEF Gap
<1>2. c = u - x /\ c = v - y /\ c \in Nat
  BY <1>1 DEF Smaller
<1>3. \A t \in 0..c - 1 : Eq(A, B, x + t, y + t)
  BY <1>1, <1>2
<1> QED
  BY <1>1, <1>2, <1>3, EqualWalk

LEMMA RangeWalk ==
  ASSUME NEW A, NEW B, NEW x, NEW y, NEW d \in Nat, NEW e \in Nat, NEW i \in Nat, NEW j \in Nat,
         Gap(A, B, x, y, d, i), d <= e, i <= j,
         NEW es, es = Equal(x, y, Smaller(d - x, i - y)) \o Deleted(d, e) \o Inserted(i, j)
  PROVE  Walk(A, B, x, y, es, e - x, j - y, d - x)
<1> DEFINE c == Smaller(d - x, i - y)
<1>1. c = d - x /\ c = i - y /\ c \in Nat /\ Walk(A, B, x, y, Equal(x, y, c), c, c, c)
  BY GapWalk
<1>2. x \in Nat /\ y \in Nat
  BY DEF Gap
<1> HIDE DEF c
<1> DEFINE f == e - d  g == j - i  o == 0
<1>3. Walk(A, B, d, i, Deleted(d, e), f, o, o) /\ Walk(A, B, e, i, Inserted(i, j), o, g, o)
  BY DeletedWalk, InsertedWalk
<1>4. f \in Nat /\ g \in Nat /\ o \in Nat /\ o = 0
  OBVIOUS
<1> HIDE DEF f, g, o
<1> DEFINE a == e - x  b == j - y
<1>5. Totals(x, y, c, c, c, d, i, f, o, o, a, c, c)
  BY <1>1, <1>2, <1>4 DEF f, Totals
<1>6. Totals(x, y, a, c, c, e, i, o, g, o, a, b, c)
  BY <1>1, <1>2, <1>4 DEF g, Totals
<1> HIDE DEF a, b
<1> DEFINE eq == Equal(x, y, c)  del == Deleted(d, e)  ins == Inserted(i, j)
<1>a. Walk(A, B, x, y, eq, c, c, c) /\ Walk(A, B, d, i, del, f, o, o) /\ Walk(A, B, e, i, ins, o, g, o)
  BY <1>1, <1>3
<1> HIDE DEF eq, del, ins
<1>7. Walk(A, B, x, y, eq \o del, a, c, c)
  BY <1>a, <1>5, WalkThen
<1>8. Walk(A, B, x, y, (eq \o del) \o ins, a, b, c)
  BY <1>a, <1>6, <1>7, WalkThen
<1>9. es = (eq \o del) \o ins
  BY DEF eq, del, ins, c
<1> QED
  BY <1>1, <1>8, <1>9 DEF a, b

LEMMA RangesWalk ==
  ASSUME NEW A, NEW B, NEW rs, NEW x, NEW y, NEW kept, NEW K, ReachedBy(A, B, rs, x, y, kept, K),
         NEW n \in 0..Len(rs)
  PROVE  /\ RangesTo(rs, n) \in Seq(Seq(EditSet))
         /\ Walk(A, B, 0, 0, FlattenSeq(RangesTo(rs, n)), EndX(rs, n), EndY(rs, n), K[n])
<1> DEFINE L == Len(rs)
           Done(k) == /\ RangesTo(rs, k) \in Seq(Seq(EditSet))
                      /\ Walk(A, B, 0, 0, FlattenSeq(RangesTo(rs, k)), EndX(rs, k), EndY(rs, k), K[k])
           T == {k \in Nat : k <= L => Done(k)}
<1>1. /\ rs \in Ranges /\ K \in [0..L -> Nat] /\ K[0] = 0
      /\ \A q \in 1..L :
           /\ Gap(A, B, EndX(rs, q - 1), EndY(rs, q - 1), rs[q].delStart, rs[q].insStart)
           /\ rs[q].delStart <= rs[q].delEnd /\ rs[q].insStart <= rs[q].insEnd
           /\ K[q] = K[q - 1] + (rs[q].delStart - EndX(rs, q - 1))
  BY DEF ReachedBy
<1>2. L \in Nat
  BY <1>1 DEF Ranges
<1>3. Done(0)
  <2> DEFINE none == RangesTo(rs, 0)
  <2>1. none = <<>>
    BY DEF RangesTo
  <2>2. none \in Seq(Seq(EditSet))
    <3> DEFINE S == Seq(EditSet)
    <3> HIDE DEF S, none
    <3>1. <<>> \in Seq(S)
      OBVIOUS
    <3> QED
      BY <2>1, <3>1 DEF S
  <2>3. FlattenSeq(none) = <<>>
    BY <2>1 DEF FlattenSeq
  <2>4. EndX(rs, 0) = 0 /\ EndY(rs, 0) = 0
    BY DEF EndX, EndY
  <2>5. Walk(A, B, 0, 0, <<>>, 0, 0, 0)
    <3>1. <<>> \in Seq(EditSet) /\ Len(<<>>) = 0 /\ 1..0 = {} /\ 0 \in Nat
      OBVIOUS
    <3>2. OldLines(<<>>, 0) = 0 /\ NewLines(<<>>, 0) = 0 /\ EqualLines(<<>>, 0) = 0
      BY CountNil DEF OldLines, NewLines, EqualLines
    <3> QED
      BY <3>1, <3>2 DEF Walk
  <2> HIDE DEF none
  <2> QED
    BY <1>1, <2>2, <2>3, <2>4, <2>5 DEF none
<1>4. 0 \in T
  BY <1>3
<1>5. ASSUME NEW k \in T PROVE k + 1 \in T
  <2> SUFFICES ASSUME k + 1 <= L PROVE Done(k + 1)
    OBVIOUS
  <2> DEFINE q == k + 1
  <2>1. k \in Nat /\ k \in 0..L /\ q \in 1..L /\ q - 1 = k /\ q \in Nat /\ q # 0
    BY <1>2
  <2>2. Done(k)
    BY <2>1
  <2> HIDE DEF L, q, Done
  <2> DEFINE X == EndX(rs, k)  Y == EndY(rs, k)
             d == rs[q].delStart  e == rs[q].delEnd  i == rs[q].insStart  j == rs[q].insEnd
             fs == RangeEdits(rs, q)  s == RangesTo(rs, k)  t == RangesTo(rs, q)
  <2>3. d \in Nat /\ e \in Nat /\ i \in Nat /\ j \in Nat
    <3>1. rs[q] \in [delStart : Nat, delEnd : Nat, insStart : Nat, insEnd : Nat]
      BY <1>1, <2>1, ElementOfSeq DEF Ranges, L
    <3> QED
      BY <3>1
  <2>4. Gap(A, B, X, Y, d, i) /\ d <= e /\ i <= j /\ K[q] = K[k] + (d - X)
    BY <1>1, <2>1
  <2>5. X \in Nat /\ Y \in Nat /\ X <= d /\ Y <= i
    BY <2>4, SMTT(30) DEF Gap
  <2>6. fs = Equal(X, Y, Smaller(d - X, i - Y)) \o Deleted(d, e) \o Inserted(i, j)
    BY <2>1 DEF RangeEdits
  <2>7. EndX(rs, q) = e /\ EndY(rs, q) = j
    BY <2>1 DEF EndX, EndY
  <2>8. s \in Seq(Seq(EditSet)) /\ Walk(A, B, 0, 0, FlattenSeq(s), X, Y, K[k])
    BY <2>2 DEF Done
  <2>9. s = [p \in 1..k |-> RangeEdits(rs, p)] /\ t = [p \in 1..k + 1 |-> RangeEdits(rs, p)]
    BY DEF RangesTo, q
  <2> HIDE DEF X, Y, d, e, i, j, s, t
  <2>10. Walk(A, B, X, Y, fs, e - X, j - Y, d - X)
    BY <2>3, <2>4, <2>6, RangeWalk
  <2>11. fs \in Seq(EditSet)
    BY <2>10 DEF Walk
  <2>12. t = Append(s, fs) /\ t \in Seq(Seq(EditSet))
    <3> DEFINE u == Append(s, fs)
    <3>1. Len(s) = k
      BY <2>1, <2>8, <2>9
    <3> HIDE DEF fs
    <3>2. /\ u \in Seq(Seq(EditSet)) /\ Len(u) = k + 1 /\ u[k + 1] = fs
          /\ \A p \in 1..k : u[p] = s[p]
      BY <2>8, <2>11, <3>1, AppendProperties
    <3>3. \A p \in 1..k + 1 : u[p] = RangeEdits(rs, p)
      <4> SUFFICES ASSUME NEW p \in 1..k + 1 PROVE u[p] = RangeEdits(rs, p)
        OBVIOUS
      <4>1. CASE p = k + 1
        BY <3>2, <4>1 DEF fs, q
      <4>2. CASE p # k + 1
        <5>1. p \in 1..k
          BY <2>1, <4>2
        <5> QED
          BY <2>9, <3>2, <5>1
      <4> QED
        BY <4>1, <4>2
    <3>4. u = [p \in 1..k + 1 |-> u[p]]
      <4> DEFINE S == Seq(EditSet)
      <4>1. u \in Seq(S) /\ Len(u) = k + 1
        BY <3>2
      <4> HIDE DEF u, S
      <4> QED
        BY <4>1
    <3> HIDE DEF u
    <3>5. u = t
      BY <2>9, <3>3, <3>4
    <3> QED
      BY <3>2, <3>5 DEF u
  <2> HIDE DEF fs
  <2>13. FlattenSeq(t) = FlattenSeq(s) \o fs
    BY <2>8, <2>11, <2>12, FlattenFacts
  <2>14. Walk(A, B, 0, 0, FlattenSeq(s) \o fs, e, j, K[q])
    <3> DEFINE w == e - X  z == j - Y  l == d - X  m == K[k]  c == K[q]  es == FlattenSeq(s)  o == 0
    <3>1. m \in Nat /\ o \in Nat /\ o = 0
      BY <1>1, <2>1
    <3>2. Totals(o, o, X, Y, m, X, Y, w, z, l, e, j, c)
      BY <2>3, <2>4, <2>5, <3>1 DEF Totals
    <3>3. Walk(A, B, o, o, es, X, Y, m) /\ Walk(A, B, X, Y, fs, w, z, l)
      BY <2>8, <2>10
    <3> HIDE DEF w, z, l, m, c, es, o
    <3>4. Walk(A, B, o, o, es \o fs, e, j, c)
      BY <3>2, <3>3, WalkThen
    <3> QED
      BY <3>4 DEF c, es, o
  <2>15. Done(q)
    BY <2>7, <2>12, <2>13, <2>14 DEF Done, t
  <2> QED
    BY <2>15 DEF q
<1>6. T \in SUBSET Nat
  OBVIOUS
<1> HIDE DEF T, Done
<1>7. T = Nat
  BY <1>4, <1>5, <1>6, Climb
<1>8. n \in T /\ n <= L
  BY <1>2, <1>7
<1> QED
  BY <1>8 DEF T, Done

(* The edits of ranges that are not empty lead through both texts. *)
LEMMA EditsWalk ==
  ASSUME NEW A, NEW B, Len(A) \in Nat, Len(B) \in Nat, NEW rs, rs # <<>>, NEW kept,
         Reached(A, B, rs, Len(A), Len(B), kept)
  PROVE  Walk(A, B, 0, 0, EditsOf(A, B, rs), Len(A), Len(B), kept)
<1>1. PICK K : ReachedBy(A, B, rs, Len(A), Len(B), kept, K)
  BY DEF Reached
<1> DEFINE L == Len(rs)  X == EndX(rs, L)  Y == EndY(rs, L)  N == Len(A)  M == Len(B)
           es == FlattenSeq(RangesTo(rs, L))  c == Smaller(N - X, M - Y)
<1>2. /\ rs \in Ranges /\ K \in [0..L -> Nat] /\ Gap(A, B, X, Y, N, M) /\ kept = K[L] + (N - X)
  BY <1>1 DEF ReachedBy
<1>3. L \in Nat /\ L \in 0..L
  BY <1>2 DEF Ranges
<1>4. Walk(A, B, 0, 0, es, X, Y, K[L])
  BY <1>1, <1>3, RangesWalk
<1>5. c = N - X /\ c = M - Y /\ c \in Nat /\ Walk(A, B, X, Y, Equal(X, Y, c), c, c, c)
  BY <1>2, GapWalk
<1>6. X \in Nat /\ Y \in Nat /\ N \in Nat /\ M \in Nat /\ K[L] \in Nat
  BY <1>2, <1>3 DEF Gap
<1>7. EditsOf(A, B, rs) = es \o Equal(X, Y, c)
  BY <1>2, EditsIs DEF RestOf
<1> HIDE DEF X, Y, N, M, es, c, L
<1> DEFINE fs == Equal(X, Y, c)  m == K[L]  o == 0
<1>8. Totals(o, o, X, Y, m, X, Y, c, c, c, N, M, kept)
  BY <1>2, <1>5, <1>6 DEF Totals
<1>9. Walk(A, B, o, o, es, X, Y, m) /\ Walk(A, B, X, Y, fs, c, c, c)
  BY <1>4, <1>5
<1> HIDE DEF fs, m, o
<1>10. Walk(A, B, o, o, es \o fs, N, M, kept)
  BY <1>8, <1>9, WalkThen
<1> QED
  BY <1>7, <1>10 DEF o, fs, N, M

LEMMA SameTexts ==
  ASSUME NEW S, NEW A \in Seq(S), NEW B \in Seq(S), Gap(A, B, 0, 0, Len(A), Len(B))
  PROVE  A = B
<1> DEFINE n == Len(A)
<1>1. n \in Nat /\ Len(B) = n /\ Len(B) \in Nat
  BY DEF Gap
<1>2. \A t \in 0..n - 0 - 1 : Eq(A, B, 0 + t, 0 + t)
  BY DEF Gap
<1>3. ASSUME NEW q \in 1..n PROVE A[q] = B[q]
  <2>1. q - 1 \in 0..n - 0 - 1 /\ 0 + (q - 1) = q - 1 /\ (q - 1) + 1 = q
    BY <1>1
  <2>2. Eq(A, B, q - 1, q - 1)
    BY <1>2, <2>1
  <2> QED
    BY <2>1, <2>2 DEF Eq
<1> QED
  BY <1>1, <1>3, SeqEqual

(* The edits lead through both texts, or there are none and the texts are  *)
(* equal.                                                                  *)
LEMMA EditsLead ==
  ASSUME NEW S, NEW A \in Seq(S), NEW B \in Seq(S)
  PROVE  \/ Edits(A, B) = <<>> /\ A = B
         \/ Walk(A, B, 0, 0, Edits(A, B), Len(A), Len(B), LCS(A, B))
<1> DEFINE rs == DiffRanges(A, B)  N == Len(A)  M == Len(B)  kept == LCS(A, B)
<1>1. N \in Nat /\ M \in Nat
  OBVIOUS
<1>2. rs \in Ranges /\ Reached(A, B, rs, N, M, kept)
  BY <1>1, RangesKeep
<1>3. Edits(A, B) = EditsOf(A, B, rs)
  BY DEF Edits
<1> HIDE DEF rs, kept
<1>4. CASE rs = <<>>
  <2>1. PICK K : ReachedBy(A, B, rs, N, M, kept, K)
    BY <1>2 DEF Reached
  <2>2. Len(rs) = 0
    BY <1>4
  <2>3. EndX(rs, Len(rs)) = 0 /\ EndY(rs, Len(rs)) = 0
    BY <2>2 DEF EndX, EndY
  <2>4. Gap(A, B, EndX(rs, Len(rs)), EndY(rs, Len(rs)), N, M)
    BY <2>1 DEF ReachedBy
  <2>5. Gap(A, B, 0, 0, N, M)
    BY <2>3, <2>4
  <2>6. A = B
    BY <2>5, SameTexts
  <2>7. EditsOf(A, B, rs) = <<>>
    BY <1>4, Zenon DEF EditsOf
  <2> QED
    BY <1>3, <2>6, <2>7
<1>5. CASE rs # <<>>
  <2>1. Walk(A, B, 0, 0, EditsOf(A, B, rs), N, M, kept)
    BY <1>1, <1>2, <1>5, EditsWalk
  <2> QED
    BY <1>3, <2>1 DEF kept
<1> QED
  BY <1>4, <1>5

LEMMA WalkExact ==
  ASSUME NEW A, NEW B, NEW es, Walk(A, B, 0, 0, es, Len(A), Len(B), LCS(A, B))
  PROVE  Exact(A, B, es)
<1> DEFINE n == Len(es)
<1>1. /\ n \in Nat
      /\ \A q \in 1..n : Follows(A, B, 0, 0, es, q)
      /\ OldLines(es, n) = Len(A) /\ NewLines(es, n) = Len(B) /\ EqualLines(es, n) = LCS(A, B)
  BY DEF Walk
<1>2. ASSUME NEW q \in 1..n
      PROVE  /\ es[q].kind # "ins" => es[q].old = OldLines(es, q - 1)
             /\ es[q].kind # "del" => es[q].new = NewLines(es, q - 1)
             /\ es[q].kind = "eql" => Eq(A, B, es[q].old, es[q].new)
  <2> DEFINE a == OldLines(es, q - 1)  b == NewLines(es, q - 1)
  <2>1. q - 1 \in Nat
    BY <1>1
  <2>2. a \in Nat /\ b \in Nat
    BY <2>1, CountType DEF OldLines, NewLines
  <2>3. 0 + a = a /\ 0 + b = b
    <3> HIDE DEF a, b
    <3> QED
      BY <2>2
  <2>4. Follows(A, B, 0, 0, es, q)
    BY <1>1
  <2> QED
    BY <2>3, <2>4 DEF Follows
<1> HIDE DEF n
<1>3. /\ \A q \in 1..n :
           /\ es[q].kind # "ins" => es[q].old = OldLines(es, q - 1)
           /\ es[q].kind # "del" => es[q].new = NewLines(es, q - 1)
           /\ es[q].kind = "eql" => Eq(A, B, es[q].old, es[q].new)
      /\ OldLines(es, n) = Len(A) /\ NewLines(es, n) = Len(B)
      /\ EqualLines(es, n) = LCS(A, B)
  BY <1>1, <1>2
<1> QED
  BY <1>3, Zenon DEF Exact, OldLines, NewLines, EqualLines, n

(* For any two texts the edits of diff.go's linear-space Myers are exact:  *)
(* they lead from A to B, keep equal lines only, and are as few as can be. *)
THEOREM EditsExact ==
  ASSUME NEW S, NEW A \in Seq(S), NEW B \in Seq(S)
  PROVE  EditsAreExact(A, B)
<1> SUFFICES ASSUME A # B PROVE Exact(A, B, Edits(A, B))
  BY DEF EditsAreExact
<1>1. Walk(A, B, 0, 0, Edits(A, B), Len(A), Len(B), LCS(A, B))
  BY EditsLead
<1> QED
  BY <1>1, WalkExact

-----------------------------------------------------------------------------
(* The matches: each line of A is matched with no line or with an equal    *)
(* one of B, and their order is kept.                                      *)
Matched(A, B, f) ==
  /\ f \in [0..Len(A) - 1 -> -1..Len(B) - 1]
  /\ \A o \in 0..Len(A) - 1 : f[o] # -1 => Eq(A, B, o, f[o])
  /\ \A o, p \in 0..Len(A) - 1 : o < p /\ f[o] # -1 /\ f[p] # -1 => f[o] < f[p]

(* The equal edit es[q] of a walk, and the line it matches o with. *)
Pairs(A, B, es, q, o, x) ==
  /\ q \in 1..Len(es) /\ es[q].kind = "eql" /\ es[q].old = o /\ es[q].new = x
  /\ OldLines(es, q - 1) = o /\ NewLines(es, q - 1) = x /\ Eq(A, B, o, x)
  /\ x \in Nat /\ x < Len(B)

LEMMA WalkPairs ==
  ASSUME NEW A, NEW B, NEW es, NEW k, Walk(A, B, 0, 0, es, Len(A), Len(B), k),
         NEW q \in 1..Len(es), es[q].kind = "eql"
  PROVE  Pairs(A, B, es, q, es[q].old, es[q].new)
<1> DEFINE n == Len(es)  a == OldLines(es, q - 1)  b == NewLines(es, q - 1)
<1>1. n \in Nat /\ NewLines(es, n) = Len(B) /\ Follows(A, B, 0, 0, es, q)
  BY DEF Walk
<1>2. q - 1 \in Nat /\ q \in Nat /\ (q - 1) + 1 = q /\ q <= n
  BY <1>1
<1>3. a \in Nat /\ b \in Nat
  BY <1>2, CountType DEF OldLines, NewLines
<1>4. es[q].old = 0 + a /\ es[q].new = 0 + b /\ Eq(A, B, es[q].old, es[q].new)
  BY <1>1 DEF Follows
<1>5. NewLines(es, q) = b + 1
  <2>1. es[q].kind \in {"eql", "ins"}
    OBVIOUS
  <2>2. Count(es, (q - 1) + 1, {"eql", "ins"}) = Count(es, q - 1, {"eql", "ins"}) + 1
    BY <1>2, <2>1, CountNext
  <2> QED
    BY <1>2, <2>2 DEF NewLines
<1>6. NewLines(es, q) <= NewLines(es, n)
  BY <1>1, <1>2, CountGrows DEF NewLines
<1>7. b < Len(B)
  <2> DEFINE c == NewLines(es, q)
  <2>1. c = b + 1 /\ c <= Len(B)
    BY <1>1, <1>5, <1>6
  <2> HIDE DEF c, b
  <2> QED
    BY <1>3, <2>1, <1>1, CountType DEF NewLines
<1>8. es[q].old = a /\ es[q].new = b
  <2> HIDE DEF a, b
  <2> QED
    BY <1>3, <1>4
<1> QED
  BY <1>3, <1>4, <1>7, <1>8 DEF Pairs

LEMMA PairsOrdered ==
  ASSUME NEW A, NEW B, NEW es, Len(es) \in Nat, NEW q, NEW o, NEW x, Pairs(A, B, es, q, o, x),
         NEW r, NEW p, NEW y, Pairs(A, B, es, r, p, y), o \in Nat, p \in Nat, o < p
  PROVE  x < y
<1>1. /\ q \in Nat /\ r \in Nat /\ q - 1 \in Nat /\ r - 1 \in Nat /\ (q - 1) + 1 = q
      /\ es[q].kind = "eql" /\ OldLines(es, q - 1) = o /\ NewLines(es, q - 1) = x
      /\ OldLines(es, r - 1) = p /\ NewLines(es, r - 1) = y /\ x \in Nat /\ y \in Nat
  BY DEF Pairs
<1>2. q < r
  <2> SUFFICES ASSUME ~(q < r) PROVE FALSE
    OBVIOUS
  <2>1. r - 1 <= q - 1
    BY <1>1
  <2>2. OldLines(es, r - 1) <= OldLines(es, q - 1)
    BY <1>1, <2>1, CountGrows DEF OldLines
  <2> QED
    BY <1>1, <2>2
<1>3. q <= r - 1
  BY <1>1, <1>2
<1>4. NewLines(es, q) <= NewLines(es, r - 1)
  BY <1>1, <1>3, CountGrows DEF NewLines
<1>5. NewLines(es, q) = x + 1
  <2>1. es[q].kind \in {"eql", "ins"}
    BY <1>1
  <2>2. Count(es, (q - 1) + 1, {"eql", "ins"}) = Count(es, q - 1, {"eql", "ins"}) + 1
    BY <1>1, <2>1, CountNext
  <2> QED
    BY <1>1, <2>2 DEF NewLines
<1> QED
  BY <1>1, <1>4, <1>5

LEMMA WalkMatches ==
  ASSUME NEW A, NEW B, Len(A) \in Nat, Len(B) \in Nat, NEW es, es \in Seq(EditSet),
         es = <<>> \/ \E k : Walk(A, B, 0, 0, es, Len(A), Len(B), k)
  PROVE  Matched(A, B, MatchesOf(A, es))
<1> DEFINE f == MatchesOf(A, es)
<1>1. f = [o \in 0..Len(A) - 1 |-> IF \E q \in DOMAIN es : es[q].kind = "eql" /\ es[q].old = o
                                   THEN es[CHOOSE q \in DOMAIN es : es[q].kind = "eql" /\ es[q].old = o].new
                                   ELSE -1]
  BY Zenon DEF MatchesOf
<1>2. DOMAIN es = 1..Len(es) /\ Len(es) \in Nat
  OBVIOUS
<1> HIDE DEF f
<1>3. ASSUME NEW o \in 0..Len(A) - 1
      PROVE  f[o] = -1 \/ \E q : Pairs(A, B, es, q, o, f[o])
  <2>1. CASE \E q \in DOMAIN es : es[q].kind = "eql" /\ es[q].old = o
    <3> DEFINE c == CHOOSE q \in DOMAIN es : es[q].kind = "eql" /\ es[q].old = o
    <3>1. f[o] = es[c].new
      BY <1>1, <2>1, Zenon
    <3>2. c \in DOMAIN es /\ es[c].kind = "eql" /\ es[c].old = o
      BY <2>1, Zenon
    <3> HIDE DEF c
    <3>3. PICK k : Walk(A, B, 0, 0, es, Len(A), Len(B), k)
      BY <1>2, <3>2
    <3>4. Pairs(A, B, es, c, es[c].old, es[c].new)
      BY <1>2, <3>2, <3>3, WalkPairs
    <3> QED
      BY <3>1, <3>2, <3>4
  <2>2. CASE ~ \E q \in DOMAIN es : es[q].kind = "eql" /\ es[q].old = o
    BY <1>1, <2>2, Zenon
  <2> QED
    BY <2>1, <2>2
<1>4. ASSUME NEW o \in 0..Len(A) - 1
      PROVE  f[o] \in -1..Len(B) - 1 /\ (f[o] # -1 => Eq(A, B, o, f[o]))
  <2>1. CASE f[o] = -1
    BY <2>1
  <2>2. CASE f[o] # -1
    <3>1. PICK q : Pairs(A, B, es, q, o, f[o])
      BY <1>3, <2>2
    <3>2. f[o] \in Nat /\ f[o] < Len(B) /\ Eq(A, B, o, f[o])
      BY <3>1 DEF Pairs
    <3> QED
      BY <3>2
  <2> QED
    BY <2>1, <2>2
<1>5. f \in [0..Len(A) - 1 -> -1..Len(B) - 1]
  <2>1. f = [o \in 0..Len(A) - 1 |-> f[o]]
    BY <1>1
  <2> QED
    BY <1>4, <2>1
<1>6. ASSUME NEW o \in 0..Len(A) - 1, NEW p \in 0..Len(A) - 1, o < p, f[o] # -1, f[p] # -1
      PROVE  f[o] < f[p]
  <2>1. PICK q : Pairs(A, B, es, q, o, f[o])
    BY <1>3, <1>6
  <2>2. PICK r : Pairs(A, B, es, r, p, f[p])
    BY <1>3, <1>6
  <2>3. o \in Nat /\ p \in Nat
    OBVIOUS
  <2> QED
    BY <1>2, <1>6, <2>1, <2>2, <2>3, PairsOrdered
<1> QED
  <2>1. Matched(A, B, f)
    BY <1>4, <1>5, <1>6 DEF Matched
  <2> QED
    BY <2>1 DEF f

LEMMA MatchesMatch ==
  ASSUME NEW S, NEW A \in Seq(S), NEW B \in Seq(S)
  PROVE  Matched(A, B, Matches(A, B))
<1> DEFINE es == Edits(A, B)
<1>1. es = <<>> \/ Walk(A, B, 0, 0, es, Len(A), Len(B), LCS(A, B))
  BY EditsLead
<1>2. es \in Seq(EditSet)
  <2>1. <<>> \in Seq(EditSet)
    <3> DEFINE T == EditSet
    <3> HIDE DEF T
    <3>1. <<>> \in Seq(T)
      OBVIOUS
    <3> QED
      BY <3>1 DEF T
  <2> HIDE DEF es
  <2> QED
    BY <1>1, <2>1 DEF Walk
<1> HIDE DEF es
<1>3. Matched(A, B, MatchesOf(A, es))
  BY <1>1, <1>2, WalkMatches
<1> QED
  BY <1>3 DEF Matches, es

-----------------------------------------------------------------------------
(* How many lines are matched: as many as a longest common subsequence has *)
(* when the texts differ, and never more.                                  *)

(* The lines of A before x that f matches. *)
MatchedLines(f, x) == {o \in 0..x - 1 : f[o] # -1}

LEMMA MatchedCount ==
  ASSUME NEW f, NEW x \in Nat
  PROVE  /\ IsFiniteSet(MatchedLines(f, x)) /\ Cardinality(MatchedLines(f, x)) \in Nat
         /\ Cardinality(MatchedLines(f, 0)) = 0
         /\ f[x] = -1 => MatchedLines(f, x + 1) = MatchedLines(f, x)
         /\ f[x] # -1 => Cardinality(MatchedLines(f, x + 1)) = Cardinality(MatchedLines(f, x)) + 1
<1> DEFINE T == MatchedLines(f, x)
<1>1. IsFiniteSet(0..x - 1) /\ T \in SUBSET (0..x - 1)
  <2>1. 0 \in Int /\ x - 1 \in Int
    OBVIOUS
  <2> QED
    BY <2>1, FS_Interval DEF MatchedLines
<1>2. IsFiniteSet(T)
  BY <1>1, FS_Subset
<1>3. Cardinality(T) \in Nat
  BY <1>2, FS_CardinalityType
<1>4. MatchedLines(f, 0) = {}
  <2>1. 0..0 - 1 = {}
    OBVIOUS
  <2> QED
    BY <2>1 DEF MatchedLines
<1>5. 0..(x + 1) - 1 = (0..x - 1) \cup {x} /\ x \notin 0..x - 1
  OBVIOUS
<1>6. f[x] = -1 => MatchedLines(f, x + 1) = T
  BY <1>5 DEF MatchedLines
<1>7. f[x] # -1 => MatchedLines(f, x + 1) = T \cup {x}
  BY <1>5 DEF MatchedLines
<1>8. x \notin T
  BY <1>1, <1>5
<1> HIDE DEF T
<1>9. Cardinality(T \cup {x}) = Cardinality(T) + 1
  BY <1>2, <1>8, FS_AddElement
<1>10. Cardinality(MatchedLines(f, 0)) = 0
  BY <1>4, FS_EmptySet
<1> QED
  BY <1>2, <1>3, <1>6, <1>7, <1>9, <1>10 DEF T

(* A path that keeps the lines of A before x that f matches. *)
LeadsThrough(E, f, x, M) ==
  \A y \in 0..M :
    (\A o \in 0..x - 1 : f[o] # -1 => f[o] < y) =>
       \E c \in Nat : Leads(E, x, y, c) /\ x + y = c + 2 * Cardinality(MatchedLines(f, x))

LEMMA LeadsFirst ==
  ASSUME NEW E, NEW f, NEW M \in Nat
  PROVE  LeadsThrough(E, f, 0, M)
<1> SUFFICES ASSUME NEW y \in 0..M
             PROVE  \E c \in Nat : Leads(E, 0, y, c) /\ 0 + y = c + 2 * Cardinality(MatchedLines(f, 0))
  BY DEF LeadsThrough
<1>1. Leads(E, 0, 0, 0)
  BY PathSteps
<1>2. y \in Nat /\ 0 \in Nat
  OBVIOUS
<1>3. Leads(E, 0, 0 + y, 0 + y)
  BY <1>1, <1>2, PathStraight
<1>4. Cardinality(MatchedLines(f, 0)) = 0
  BY <1>2, MatchedCount
<1>5. 0 + y = y
  OBVIOUS
<1> QED
  BY <1>2, <1>3, <1>4, <1>5

(* A match spares the path a deletion and an insertion.                    *)
LEMMA MatchedCosts ==
  ASSUME NEW x \in Nat, NEW y \in Nat, NEW t \in Nat, NEW c \in Nat, NEW d \in Nat,
         NEW k \in Nat, NEW l \in Nat, l = k + 1, x + t = c + 2 * k, y = (t + 1) + d
  PROVE  c + d \in Nat /\ (x + 1) + y = (c + d) + 2 * l
OBVIOUS

(* E holds the places where A and B have the same line.                    *)
Marks(E, A, B) ==
  \A x \in 0..Len(A) - 1, y \in 0..Len(B) - 1 : In(E, x, y) <=> A[x + 1] = B[y + 1]

LEMMA LeadsNext ==
  ASSUME NEW A, NEW B, Len(A) \in Nat, Len(B) \in Nat, NEW f, Matched(A, B, f),
         NEW E, Marks(E, A, B), NEW x \in Nat, x < Len(A), LeadsThrough(E, f, x, Len(B))
  PROVE  LeadsThrough(E, f, x + 1, Len(B))
<1> DEFINE N == Len(A)  M == Len(B)  k == Cardinality(MatchedLines(f, x))
           l == Cardinality(MatchedLines(f, x + 1))
<1>1. /\ f \in [0..N - 1 -> -1..M - 1]
      /\ \A o \in 0..N - 1 : f[o] # -1 => Eq(A, B, o, f[o])
      /\ \A o, p \in 0..N - 1 : o < p /\ f[o] # -1 /\ f[p] # -1 => f[o] < f[p]
  BY DEF Matched
<1>2. k \in Nat /\ (f[x] = -1 => l = k) /\ (f[x] # -1 => l = k + 1)
  BY MatchedCount
<1>3. \A u \in 0..N - 1, v \in 0..M - 1 : In(E, u, v) <=> A[u + 1] = B[v + 1]
  BY DEF Marks
<1>4. N \in Nat /\ M \in Nat /\ x < N
  OBVIOUS
<1> HIDE DEF N, M, k, l
<1>5. SUFFICES ASSUME NEW y \in 0..M, \A o \in 0..(x + 1) - 1 : f[o] # -1 => f[o] < y
               PROVE  \E c \in Nat : Leads(E, x + 1, y, c) /\ (x + 1) + y = c + 2 * l
  BY DEF LeadsThrough, M, l
<1>6. \A v \in 0..M : (\A o \in 0..x - 1 : f[o] # -1 => f[o] < v) =>
        \E c \in Nat : Leads(E, x, v, c) /\ x + v = c + 2 * k
  BY DEF LeadsThrough, M, k
<1>7. x \in 0..N - 1 /\ x \in 0..(x + 1) - 1 /\ y \in Nat /\ f[x] \in -1..M - 1
  BY <1>1, <1>4
<1>8. CASE f[x] = -1
  <2>1. \A o \in 0..x - 1 : o \in 0..(x + 1) - 1
    OBVIOUS
  <2>2. PICK c \in Nat : Leads(E, x, y, c) /\ x + y = c + 2 * k
    BY <1>5, <1>6, <2>1
  <2>3. Leads(E, x + 1, y, c + 1)
    BY <1>7, <2>2, PathSteps
  <2>4. c + 1 \in Nat /\ (x + 1) + y = (c + 1) + 2 * l
    BY <1>2, <1>7, <1>8, <2>2
  <2> QED
    BY <2>3, <2>4
<1>9. CASE f[x] # -1
  <2> DEFINE t == f[x]
  <2>1. t \in Nat /\ t \in 0..M - 1 /\ t \in 0..M /\ t < y
    BY <1>4, <1>5, <1>7, <1>9
  <2>2. \A o \in 0..x - 1 : f[o] # -1 => f[o] < t
    <3>1. \A o \in 0..x - 1 : o \in 0..N - 1 /\ o < x
      BY <1>4
    <3> QED
      BY <1>1, <1>7, <1>9, <3>1
  <2>3. PICK c \in Nat : Leads(E, x, t, c) /\ x + t = c + 2 * k
    BY <1>6, <2>1, <2>2
  <2>4. In(E, x, t)
    BY <1>1, <1>3, <1>7, <1>9, <2>1 DEF Eq
  <2> HIDE DEF t
  <2>5. Leads(E, x + 1, t + 1, c)
    BY <2>1, <2>3, <2>4, PathSteps
  <2> DEFINE d == y - (t + 1)
  <2>6. d \in Nat /\ (t + 1) + d = y /\ t + 1 \in Nat /\ x + 1 \in Nat
    BY <1>7, <2>1
  <2> HIDE DEF d
  <2>7. Leads(E, x + 1, (t + 1) + d, c + d)
    BY <2>3, <2>5, <2>6, PathStraight
  <2>8. c + d \in Nat /\ (x + 1) + y = (c + d) + 2 * l
    <3>1. l = k + 1 /\ k \in Nat /\ t \in Nat /\ c \in Nat /\ x + t = c + 2 * k
      BY <1>2, <1>9, <2>1, <2>3
    <3>2. y = (t + 1) + d /\ d \in Nat
      BY <2>6
    <3>3. y \in Nat /\ l \in Nat
      BY <1>7, <3>1
    <3> QED
      BY <3>1, <3>2, <3>3, MatchedCosts
  <2> QED
    BY <2>6, <2>7, <2>8
<1> QED
  BY <1>8, <1>9

(* No matching has more lines than a longest common subsequence. *)
LEMMA LongestMatching ==
  ASSUME NEW A, NEW B, Len(A) \in Nat, Len(B) \in Nat, NEW f, Matched(A, B, f)
  PROVE  LCS(A, B) \in Nat /\ Cardinality(MatchedLines(f, Len(A))) <= LCS(A, B)
<1> DEFINE N == Len(A)  M == Len(B)
           E == {q \in (0..N - 1) \X (0..M - 1) : A[q[1] + 1] = B[q[2] + 1]}
<1>1. \A x \in 0..N - 1, y \in 0..M - 1 : In(E, x, y) <=> A[x + 1] = B[y + 1]
  BY DEF In
<1>2. N \in Nat /\ M \in Nat
  OBVIOUS
<1> HIDE DEF E
<1>3. LeadsThrough(E, f, N, M)
  <2> DEFINE T == {x \in Nat : x <= N => LeadsThrough(E, f, x, M)}
  <2>1. 0 \in T
    BY <1>2, LeadsFirst
  <2>2. ASSUME NEW x \in T PROVE x + 1 \in T
    <3> SUFFICES ASSUME x + 1 <= N PROVE LeadsThrough(E, f, x + 1, M)
      OBVIOUS
    <3>1. x \in Nat /\ x < N /\ LeadsThrough(E, f, x, M)
      BY <1>2
    <3> QED
      BY <1>1, <3>1, LeadsNext DEF Marks
  <2>3. T = Nat
    <3>1. T \in SUBSET Nat
      OBVIOUS
    <3> HIDE DEF T
    <3> QED
      BY <2>1, <2>2, <3>1, Climb
  <2> QED
    BY <1>2, <2>3
<1>4. LCS(A, B) \in Nat /\ KeptLines(E, N, M, LCS(A, B))
  BY <1>1, LCSKept
<1>5. \A o \in 0..N - 1 : f[o] # -1 => f[o] < M
  <2>1. f \in [0..N - 1 -> -1..M - 1]
    BY DEF Matched
  <2> HIDE DEF N, M
  <2> QED
    BY <1>2, <2>1
<1> DEFINE k == Cardinality(MatchedLines(f, N))  g == LCS(A, B)
<1>6. k \in Nat
  BY <1>2, MatchedCount
<1> HIDE DEF N, M
<1>7. PICK c \in Nat : Leads(E, N, M, c) /\ N + M = c + 2 * k
  <2>1. M \in 0..M
    BY <1>2
  <2> QED
    BY <1>3, <1>5, <2>1 DEF LeadsThrough
<1>8. PICK d \in Nat : Least(E, N, M, d) /\ N + M = d + 2 * g
  BY <1>4 DEF KeptLines
<1>9. d <= c
  BY <1>7, <1>8 DEF Least
<1>10. g \in Nat
  BY <1>4
<1> HIDE DEF k, g
<1>11. k <= g
  BY <1>6, <1>7, <1>8, <1>9, <1>10
<1> QED
  BY <1>10, <1>11 DEF k, g, N

(* The equal edits of a walk are as many as the lines they match. *)
LEMMA WalkMatchesAll ==
  ASSUME NEW A, NEW B, Len(A) \in Nat, Len(B) \in Nat, NEW es, NEW k,
         Walk(A, B, 0, 0, es, Len(A), Len(B), k)
  PROVE  k <= Cardinality(MatchedLines(MatchesOf(A, es), Len(A)))
<1> DEFINE f == MatchesOf(A, es)  n == Len(es)  N == Len(A)
           K == {q \in 1..n : es[q].kind \in {"eql"}}
           T == MatchedLines(f, N)
           h == [q \in K |-> es[q].old]
<1>1. es \in Seq(EditSet) /\ n \in Nat /\ DOMAIN es = 1..n /\ OldLines(es, n) = N /\ EqualLines(es, n) = k
  BY DEF Walk
<1>2. k = Cardinality(K)
  BY <1>1 DEF EqualLines, Count
<1>3. f = [o \in 0..N - 1 |-> IF \E q \in DOMAIN es : es[q].kind = "eql" /\ es[q].old = o
                              THEN es[CHOOSE q \in DOMAIN es : es[q].kind = "eql" /\ es[q].old = o].new
                              ELSE -1]
  BY Zenon DEF MatchesOf
<1> HIDE DEF f
<1>4. ASSUME NEW q \in 1..n, es[q].kind = "eql"
      PROVE  /\ es[q].old \in Nat /\ es[q].old = OldLines(es, q - 1)
             /\ OldLines(es, q) = es[q].old + 1 /\ es[q].old < N
  <2> DEFINE o == es[q].old  x == es[q].new
  <2>1. Pairs(A, B, es, q, o, x)
    BY <1>4, WalkPairs
  <2>2. q - 1 \in Nat /\ q \in Nat /\ (q - 1) + 1 = q /\ q <= n
    BY <1>1
  <2>3. OldLines(es, q - 1) = o
    BY <2>1 DEF Pairs
  <2>4. o \in Nat
    BY <2>2, <2>3, CountType DEF OldLines
  <2>5. OldLines(es, q) = o + 1
    <3>1. es[q].kind \in {"eql", "del"}
      BY <1>4
    <3>2. Count(es, (q - 1) + 1, {"eql", "del"}) = Count(es, q - 1, {"eql", "del"}) + 1
      BY <2>2, <3>1, CountNext
    <3> QED
      BY <2>2, <2>3, <3>2 DEF OldLines
  <2>6. OldLines(es, q) <= OldLines(es, n)
    BY <1>1, <2>2, CountGrows DEF OldLines
  <2> HIDE DEF o, x
  <2>7. o < N
    BY <1>1, <2>4, <2>5, <2>6
  <2> QED
    BY <2>3, <2>4, <2>5, <2>7 DEF o
<1>5. ASSUME NEW q \in 1..n, es[q].kind = "eql", NEW r \in 1..n, es[r].kind = "eql", q < r
      PROVE  es[q].old # es[r].old
  <2>1. q \in Nat /\ r - 1 \in Nat /\ q <= r - 1
    BY <1>1, <1>5
  <2>2. OldLines(es, q) <= OldLines(es, r - 1)
    BY <2>1, CountGrows DEF OldLines
  <2> DEFINE o == es[q].old  p == es[r].old
  <2>3. o \in Nat /\ p \in Nat /\ OldLines(es, q) = o + 1 /\ OldLines(es, r - 1) = p
    BY <1>4, <1>5
  <2> HIDE DEF o, p
  <2>4. o # p
    BY <2>2, <2>3
  <2> QED
    BY <2>4 DEF o, p
<1>6. ASSUME NEW q \in K PROVE h[q] \in T
  <2>1. q \in 1..n /\ es[q].kind = "eql"
    OBVIOUS
  <2> DEFINE o == es[q].old
             c == CHOOSE r \in DOMAIN es : es[r].kind = "eql" /\ es[r].old = o
  <2>2. o \in Nat /\ o < N /\ o \in 0..N - 1
    BY <1>1, <1>4, <2>1
  <2>3. q \in DOMAIN es /\ es[q].kind = "eql" /\ es[q].old = o
    BY <1>1, <2>1
  <2>4. c \in DOMAIN es /\ es[c].kind = "eql" /\ es[c].old = o
    BY <2>3, Zenon
  <2>5. f[o] = es[c].new
    BY <1>3, <2>2, <2>3, Zenon
  <2> HIDE DEF c
  <2>6. Pairs(A, B, es, c, es[c].old, es[c].new)
    BY <1>1, <2>4, WalkPairs
  <2>7. f[o] # -1
    BY <2>5, <2>6 DEF Pairs
  <2> QED
    BY <2>2, <2>7 DEF MatchedLines
<1>7. h \in Injection(K, T)
  <2>1. h \in [K -> T]
    BY <1>6
  <2>2. ASSUME NEW q \in K, NEW r \in K, h[q] = h[r] PROVE q = r
    <3>1. /\ q \in 1..n /\ r \in 1..n /\ es[q].kind = "eql" /\ es[r].kind = "eql"
          /\ es[q].old = es[r].old
      BY <2>2
    <3>2. ~(q < r) /\ ~(r < q)
      BY <1>5, <3>1
    <3> QED
      BY <1>1, <3>1, <3>2
  <2> HIDE DEF h, K, T
  <2> QED
    BY <2>1, <2>2 DEF Injection, IsInjective
<1>8. IsFiniteSet(T)
  BY <1>1, MatchedCount
<1>9. Cardinality(K) <= Cardinality(T)
  <2> HIDE DEF h, K, T
  <2> QED
    BY <1>7, <1>8, FS_Injection
<1> QED
  BY <1>2, <1>9 DEF f

(* f matches as many lines as can be. *)
Longest(A, B, f) ==
  /\ Len(A) \in Nat /\ Len(B) \in Nat /\ Matched(A, B, f)
  /\ \A g : Matched(A, B, g) =>
       Cardinality(MatchedLines(g, Len(A))) <= Cardinality(MatchedLines(f, Len(A)))

(* Equal texts may have no edits, and then no matches. *)
Unmatched(A, f) == \A o \in 0..Len(A) - 1 : f[o] = -1

LEMMA MatchesLongest ==
  ASSUME NEW S, NEW A \in Seq(S), NEW B \in Seq(S)
  PROVE  Longest(A, B, Matches(A, B)) \/ (A = B /\ Unmatched(A, Matches(A, B)))
<1> DEFINE f == Matches(A, B)  N == Len(A)
<1>1. N \in Nat /\ Len(B) \in Nat
  OBVIOUS
<1>2. Matched(A, B, f)
  BY MatchesMatch
<1>3. CASE Walk(A, B, 0, 0, Edits(A, B), N, Len(B), LCS(A, B))
  <2>1. LCS(A, B) <= Cardinality(MatchedLines(f, N))
    <3>1. LCS(A, B) <= Cardinality(MatchedLines(MatchesOf(A, Edits(A, B)), N))
      BY <1>1, <1>3, WalkMatchesAll
    <3> QED
      BY <3>1 DEF Matches
  <2>2. ASSUME NEW g, Matched(A, B, g)
        PROVE  Cardinality(MatchedLines(g, N)) <= Cardinality(MatchedLines(f, N))
    <3>1. LCS(A, B) \in Nat /\ Cardinality(MatchedLines(g, N)) <= LCS(A, B)
      BY <1>1, <2>2, LongestMatching
    <3>2. Cardinality(MatchedLines(g, N)) \in Nat /\ Cardinality(MatchedLines(f, N)) \in Nat
      BY <1>1, MatchedCount
    <3> HIDE DEF f, N
    <3> QED
      BY <2>1, <3>1, <3>2
  <2> QED
    BY <1>1, <1>2, <2>2 DEF Longest
<1>4. CASE Edits(A, B) = <<>> /\ A = B
  <2>1. f = MatchesOf(A, <<>>)
    BY <1>4 DEF Matches
  <2>2. MatchesOf(A, <<>>) =
          [o \in 0..N - 1 |-> IF \E q \in DOMAIN <<>> : <<>>[q].kind = "eql" /\ <<>>[q].old = o
                              THEN <<>>[CHOOSE q \in DOMAIN <<>> : <<>>[q].kind = "eql" /\ <<>>[q].old = o].new
                              ELSE -1]
    BY Zenon DEF MatchesOf
  <2>3. DOMAIN <<>> = {}
    OBVIOUS
  <2>4. \A o : ~ \E q \in DOMAIN <<>> : <<>>[q].kind = "eql" /\ <<>>[q].old = o
    BY <2>3
  <2>5. \A o \in 0..N - 1 : f[o] = -1
    BY <2>1, <2>2, <2>4, Zenon
  <2> QED
    BY <1>4, <2>5 DEF Unmatched
<1> QED
  BY <1>3, <1>4, EditsLead

(* Numbers that rise through a range with room for no more are all of it. *)
LEMMA Squeeze ==
  ASSUME NEW R \in Nat, R > 0, NEW c \in Nat, NEW h, \A t \in 0..R - 1 : h[t] \in Int,
         \A t, u \in 0..R - 1 : t < u => h[t] < h[u], c <= h[0], h[R - 1] <= c + R - 1
  PROVE  \A t \in 0..R - 1 : h[t] = c + t
<1> DEFINE T == {t \in Nat : t < R => c + t <= h[t]}
           U == {t \in Nat : t < R => h[(R - 1) - t] <= c + ((R - 1) - t)}
<1>1. T = Nat
  <2>1. 0 \in T
    <3>1. c + 0 = c
      OBVIOUS
    <3> QED
      BY <3>1
  <2>2. ASSUME NEW t \in T PROVE t + 1 \in T
    <3> SUFFICES ASSUME t + 1 < R PROVE c + (t + 1) <= h[t + 1]
      OBVIOUS
    <3>1. t \in 0..R - 1 /\ t + 1 \in 0..R - 1 /\ t < t + 1 /\ t < R
      OBVIOUS
    <3> DEFINE x == h[t]  y == h[t + 1]
    <3>2. x < y /\ x \in Int /\ y \in Int /\ c + t <= x
      BY <3>1
    <3> HIDE DEF x, y
    <3>3. c + (t + 1) <= y
      BY <3>2
    <3> QED
      BY <3>3 DEF y
  <2>3. T \in SUBSET Nat
    OBVIOUS
  <2> HIDE DEF T
  <2> QED
    BY <2>1, <2>2, <2>3, Climb
<1>2. U = Nat
  <2>1. 0 \in U
    <3>1. (R - 1) - 0 = R - 1 /\ c + (R - 1) = c + R - 1
      OBVIOUS
    <3> QED
      BY <3>1
  <2>2. ASSUME NEW t \in U PROVE t + 1 \in U
    <3> SUFFICES ASSUME t + 1 < R PROVE h[(R - 1) - (t + 1)] <= c + ((R - 1) - (t + 1))
      OBVIOUS
    <3> DEFINE u == (R - 1) - (t + 1)  v == (R - 1) - t
    <3>1. u \in 0..R - 1 /\ v \in 0..R - 1 /\ u < v /\ v = u + 1 /\ t < R
      OBVIOUS
    <3> DEFINE x == h[u]  y == h[v]
    <3>2. x < y /\ x \in Int /\ y \in Int /\ y <= c + v
      <4>1. y <= c + v
        BY <3>1
      <4> HIDE DEF u, v
      <4> QED
        BY <3>1, <4>1
    <3> HIDE DEF u, v, x, y
    <3>3. x <= c + u
      BY <3>1, <3>2
    <3> QED
      BY <3>3 DEF x, u
  <2>3. U \in SUBSET Nat
    OBVIOUS
  <2> HIDE DEF U
  <2> QED
    BY <2>1, <2>2, <2>3, Climb
<1>3. ASSUME NEW t \in 0..R - 1 PROVE h[t] = c + t
  <2> DEFINE s == (R - 1) - t
  <2>0. t \in Nat /\ s \in Nat /\ t < R /\ s < R /\ (R - 1) - s = t
    OBVIOUS
  <2>1. t \in T /\ t < R /\ s \in U /\ s < R /\ (R - 1) - s = t
    <3> HIDE DEF T, U, s
    <3> QED
      BY <1>1, <1>2, <2>0
  <2>2. c + t <= h[t]
    BY <2>1
  <2>3. h[t] <= c + t
    <3>1. h[(R - 1) - s] <= c + ((R - 1) - s)
      BY <2>1
    <3> HIDE DEF s
    <3> QED
      BY <2>1, <3>1
  <2> QED
    BY <2>2, <2>3
<1> QED
  BY <1>3

(* R lines of A, from lo on, are lines of B, from c on; they are the last  *)
(* of both texts, or the first, and the one that faces the rest of them,   *)
(* the k-th, occurs nowhere else.                                          *)
Block(A, B, lo, c, R, k) ==
  /\ lo \in Nat /\ c \in Nat /\ R \in Nat /\ k \in Nat /\ k < R
  /\ lo + R <= Len(A) /\ c + R <= Len(B)
  /\ \A t \in 0..R - 1 : Eq(A, B, lo + t, c + t)
  /\ \A o \in 0..Len(A) - 1, x \in 0..Len(B) - 1 : Eq(A, B, o, x) => (o = lo + k <=> x = c + k)
  /\ \/ k = 0 /\ lo + R = Len(A) /\ c + R = Len(B)
     \/ k = R - 1 /\ lo = 0 /\ c = 0

(* f where it touches neither side of a block, and the block as it is.     *)
Outside(A, f, lo, c, R) ==
  {o \in MatchedLines(f, Len(A)) : o \notin lo..lo + R - 1 /\ f[o] \notin c..c + R - 1}

Swapped(A, f, lo, c, R) ==
  [o \in 0..Len(A) - 1 |->
     IF o \in lo..lo + R - 1 THEN c + (o - lo) ELSE IF o \in Outside(A, f, lo, c, R) THEN f[o] ELSE -1]

LEMMA SwappedMatched ==
  ASSUME NEW A, NEW B, Len(A) \in Nat, Len(B) \in Nat, NEW f, Matched(A, B, f),
         NEW lo, NEW c, NEW R, NEW k, Block(A, B, lo, c, R, k)
  PROVE  /\ Matched(A, B, Swapped(A, f, lo, c, R))
         /\ MatchedLines(Swapped(A, f, lo, c, R), Len(A)) = (lo..lo + R - 1) \cup Outside(A, f, lo, c, R)
<1> DEFINE N == Len(A)  M == Len(B)  W == lo..lo + R - 1  V == c..c + R - 1
           Out == Outside(A, f, lo, c, R)  g == Swapped(A, f, lo, c, R)
<1>1. /\ lo \in Nat /\ c \in Nat /\ R \in Nat /\ R > 0 /\ N \in Nat /\ M \in Nat
      /\ lo + R <= N /\ c + R <= M
      /\ (lo + R = N /\ c + R = M) \/ (lo = 0 /\ c = 0)
      /\ \A t \in 0..R - 1 : Eq(A, B, lo + t, c + t)
  BY DEF Block
<1>2. /\ f \in [0..N - 1 -> -1..M - 1]
      /\ \A o \in 0..N - 1 : f[o] # -1 => Eq(A, B, o, f[o])
      /\ \A o, p \in 0..N - 1 : o < p /\ f[o] # -1 /\ f[p] # -1 => f[o] < f[p]
  BY DEF Matched
<1>3. \A o : o \in Out <=> o \in 0..N - 1 /\ f[o] # -1 /\ o \notin W /\ f[o] \notin V
  BY DEF Outside, MatchedLines
<1>4. g = [o \in 0..N - 1 |-> IF o \in W THEN c + (o - lo) ELSE IF o \in Out THEN f[o] ELSE -1]
  BY Zenon DEF Swapped
<1> HIDE DEF N, M, g, Out
<1>5. /\ \A o : o \in W <=> o \in Int /\ lo <= o /\ o < lo + R
      /\ \A x : x \in V <=> x \in Int /\ c <= x /\ x < c + R
  BY <1>1
<1> HIDE DEF W, V
<1>6. ASSUME NEW o \in 0..N - 1
      PROVE  /\ o \in W => g[o] = c + (o - lo) /\ g[o] \in 0..M - 1 /\ Eq(A, B, o, g[o])
             /\ o \notin W /\ o \in Out => g[o] = f[o] /\ g[o] \in 0..M - 1 /\ Eq(A, B, o, g[o])
             /\ o \notin W /\ o \notin Out => g[o] = -1
  <2>1. CASE o \in W
    <3>1. g[o] = c + (o - lo)
      BY <1>4, <2>1
    <3> DEFINE t == o - lo
    <3>2. t \in 0..R - 1 /\ lo + t = o /\ c + t \in 0..M - 1
      BY <1>1, <1>5, <2>1
    <3>3. Eq(A, B, lo + t, c + t)
      BY <1>1, <3>2
    <3> HIDE DEF t
    <3>4. g[o] = c + t
      BY <3>1 DEF t
    <3> QED
      BY <2>1, <3>1, <3>2, <3>3, <3>4
  <2>2. CASE o \notin W /\ o \in Out
    <3>1. g[o] = f[o]
      BY <1>4, <2>2
    <3>2. f[o] # -1 /\ f[o] \in -1..M - 1 /\ Eq(A, B, o, f[o])
      BY <1>2, <1>3, <2>2
    <3> QED
      BY <1>1, <2>2, <3>1, <3>2
  <2>3. CASE o \notin W /\ o \notin Out
    BY <1>4, <2>3
  <2> QED
    BY <2>1, <2>2, <2>3
<1>7. g \in [0..N - 1 -> -1..M - 1]
  <2>1. \A o \in 0..N - 1 : g[o] \in -1..M - 1
    BY <1>1, <1>6
  <2>2. g = [o \in 0..N - 1 |-> g[o]]
    BY <1>4
  <2> QED
    BY <2>1, <2>2
<1>8. \A o \in 0..N - 1 : g[o] # -1 => Eq(A, B, o, g[o])
  BY <1>6
<1>9. ASSUME NEW o \in 0..N - 1, NEW p \in 0..N - 1, o < p, g[o] # -1, g[p] # -1
      PROVE  g[o] < g[p]
  <2>1. (o \in W \/ o \in Out) /\ (p \in W \/ p \in Out)
    BY <1>6, <1>9
  <2>2. o \in Int /\ p \in Int /\ o >= 0 /\ p >= 0 /\ o < N /\ p < N
    BY <1>1
  <2>3. CASE o \in W /\ p \in W
    <3>1. g[o] = c + (o - lo) /\ g[p] = c + (p - lo)
      BY <1>6, <2>3
    <3> QED
      BY <1>1, <1>9, <2>2, <3>1
  <2>4. CASE o \notin W /\ p \notin W
    <3>1. g[o] = f[o] /\ g[p] = f[p] /\ f[o] # -1 /\ f[p] # -1
      BY <1>6, <1>3, <2>1, <2>4
    <3> QED
      BY <1>2, <1>9, <3>1
  <2>5. CASE o \in W /\ p \notin W
    <3>1. g[o] = c + (o - lo) /\ g[p] = f[p] /\ f[p] \in 0..M - 1 /\ f[p] \notin V
      BY <1>6, <1>3, <2>1, <2>5
    <3>2. lo <= o /\ o < lo + R /\ lo + R <= p
      BY <1>1, <1>5, <1>9, <2>2, <2>5
    <3>3. lo = 0 /\ c = 0
      BY <1>1, <2>2, <3>2
    <3> DEFINE y == f[p]
    <3>4. y \in Int /\ y >= R
      BY <1>1, <1>5, <3>1, <3>3
    <3> HIDE DEF y
    <3>5. c + (o - lo) < y
      BY <1>1, <2>2, <3>2, <3>3, <3>4
    <3> QED
      BY <3>1, <3>5 DEF y
  <2>6. CASE o \notin W /\ p \in W
    <3>1. g[p] = c + (p - lo) /\ g[o] = f[o] /\ f[o] \in 0..M - 1 /\ f[o] \notin V
      BY <1>6, <1>3, <2>1, <2>6
    <3>2. lo <= p /\ p < lo + R /\ o < lo
      BY <1>1, <1>5, <1>9, <2>2, <2>6
    <3>3. c + R = M
      BY <1>1, <2>2, <3>2
    <3> DEFINE y == f[o]
    <3>4. y \in Int /\ y < c
      BY <1>1, <1>5, <3>1, <3>3
    <3> HIDE DEF y
    <3>5. y < c + (p - lo)
      BY <1>1, <2>2, <3>2, <3>4
    <3> QED
      BY <3>1, <3>5 DEF y
  <2> QED
    BY <2>3, <2>4, <2>5, <2>6
<1>10. MatchedLines(g, N) = W \cup Out
  <2>1. W \in SUBSET (0..N - 1) /\ Out \in SUBSET (0..N - 1)
    BY <1>1, <1>3, <1>5
  <2>2. \A o \in 0..N - 1 : g[o] # -1 <=> o \in W \cup Out
    BY <1>1, <1>6
  <2> QED
    BY <2>1, <2>2 DEF MatchedLines
<1>11. Matched(A, B, g)
  BY <1>7, <1>8, <1>9 DEF Matched, N, M
<1> QED
  BY <1>10, <1>11 DEF g, W, N, Out

(* As many matches as can be keep such a block as it is. *)
LEMMA BlockKept ==
  ASSUME NEW A, NEW B, NEW f, Longest(A, B, f),
         NEW lo, NEW c, NEW R, NEW k, Block(A, B, lo, c, R, k)
  PROVE  \A t \in 0..R - 1 : f[lo + t] = c + t
<1> DEFINE N == Len(A)  M == Len(B)  W == lo..lo + R - 1  V == c..c + R - 1
           P == MatchedLines(f, N)  Out == Outside(A, f, lo, c, R)  Rest == P \ Out
           g == Swapped(A, f, lo, c, R)
<1>1. /\ lo \in Nat /\ c \in Nat /\ R \in Nat /\ k \in Nat /\ k < R /\ N \in Nat /\ M \in Nat
      /\ lo + R <= N /\ c + R <= M
      /\ (k = 0 /\ lo + R = N /\ c + R = M) \/ (k = R - 1 /\ lo = 0 /\ c = 0)
      /\ \A o \in 0..N - 1, x \in 0..M - 1 : Eq(A, B, o, x) => (o = lo + k <=> x = c + k)
  BY DEF Block, Longest
<1>2. /\ Matched(A, B, f)
      /\ f \in [0..N - 1 -> -1..M - 1]
      /\ \A o \in 0..N - 1 : f[o] # -1 => Eq(A, B, o, f[o])
      /\ \A o, p \in 0..N - 1 : o < p /\ f[o] # -1 /\ f[p] # -1 => f[o] < f[p]
  BY DEF Matched, Longest
<1>3. Matched(A, B, g) /\ MatchedLines(g, N) = W \cup Out
  BY <1>1, <1>2, SwappedMatched
<1>4. Cardinality(MatchedLines(g, N)) <= Cardinality(P)
  BY <1>3 DEF Longest
<1>5. IsFiniteSet(P) /\ Cardinality(P) \in Nat
  BY <1>1, MatchedCount
<1>6. Out \in SUBSET P /\ \A o : o \in Out <=> o \in P /\ o \notin W /\ f[o] \notin V
  BY DEF Outside
<1>7. \A o : o \in P <=> o \in 0..N - 1 /\ f[o] # -1
  BY DEF MatchedLines
<1> HIDE DEF N, M, P, Out, g
<1>8. /\ \A o : o \in W <=> o \in Int /\ lo <= o /\ o < lo + R
      /\ \A x : x \in V <=> x \in Int /\ c <= x /\ x < c + R
  BY <1>1
<1>9. /\ IsFiniteSet(W) /\ Cardinality(W) = R
      /\ IsFiniteSet(V) /\ Cardinality(V) = R
  <2>1. lo \in Int /\ lo + R - 1 \in Int /\ c \in Int /\ c + R - 1 \in Int
    BY <1>1
  <2>2. /\ IsFiniteSet(W) /\ Cardinality(W) = IF lo > lo + R - 1 THEN 0 ELSE (lo + R - 1) - lo + 1
        /\ IsFiniteSet(V) /\ Cardinality(V) = IF c > c + R - 1 THEN 0 ELSE (c + R - 1) - c + 1
    BY <2>1, FS_Interval
  <2> DEFINE w == Cardinality(W)  v == Cardinality(V)
  <2>3. /\ w = IF lo > lo + R - 1 THEN 0 ELSE (lo + R - 1) - lo + 1
        /\ v = IF c > c + R - 1 THEN 0 ELSE (c + R - 1) - c + 1
    BY <2>2
  <2> HIDE DEF w, v, W, V
  <2>4. w = R /\ v = R
    BY <1>1, <2>3
  <2> QED
    BY <2>2, <2>4 DEF w, v
<1> HIDE DEF W, V
<1>10. IsFiniteSet(Out) /\ IsFiniteSet(Rest) /\ Cardinality(Out) \in Nat /\ Cardinality(Rest) \in Nat
       /\ Cardinality(Rest) = Cardinality(P) - Cardinality(Out)
  <2>1. IsFiniteSet(Out) /\ IsFiniteSet(Rest)
    BY <1>5, <1>6, FS_Subset
  <2>2. Cardinality(Rest) = Cardinality(P) - Cardinality(P \cap Out)
    BY <1>5, FS_Difference
  <2>3. P \cap Out = Out
    BY <1>6
  <2> QED
    BY <2>1, <2>2, <2>3, FS_CardinalityType
<1>11. Cardinality(W \cup Out) = R + Cardinality(Out)
  <2>1. W \cap Out = {}
    BY <1>6
  <2>2. Cardinality(W \cup Out) = Cardinality(W) + Cardinality(Out) - Cardinality(W \cap Out)
    BY <1>9, <1>10, FS_Union
  <2>3. Cardinality({}) = 0
    BY FS_EmptySet
  <2> DEFINE q == Cardinality(Out)
  <2>4. Cardinality(W \cup Out) = R + q - 0
    BY <1>9, <2>1, <2>2, <2>3
  <2>5. q \in Nat
    BY <1>10
  <2> HIDE DEF q
  <2>6. R + q - 0 = R + q
    BY <1>1, <2>5
  <2> QED
    BY <2>4, <2>6 DEF q
<1>12. R <= Cardinality(Rest)
  <2> DEFINE q == Cardinality(Out)  r == Cardinality(Rest)  s == Cardinality(P)
  <2>1. R + q <= s /\ r = s - q /\ q \in Nat /\ r \in Nat /\ s \in Nat
    BY <1>3, <1>4, <1>5, <1>10, <1>11
  <2> HIDE DEF q, r, s
  <2>2. R <= r
    BY <1>1, <2>1
  <2> QED
    BY <2>2 DEF r
<1>13. \A o : o \in Rest <=> o \in P /\ (o \in W \/ f[o] \in V)
  BY <1>6
<1> HIDE DEF Rest
<1>14. \A o \in Rest : o \in 0..N - 1 /\ f[o] \in 0..M - 1 /\ Eq(A, B, o, f[o])
  BY <1>1, <1>2, <1>7, <1>13
(* Were a line outside the block matched into it, too few would be left.   *)
<1>15. Rest \in SUBSET W
  <2> SUFFICES ASSUME NEW o0 \in Rest, o0 \notin W PROVE FALSE
    OBVIOUS
  <2> DEFINE x0 == f[o0]  X == V \ {c + k}
  <2>1. x0 \in V /\ x0 \in Int /\ o0 \in Int /\ o0 >= 0 /\ o0 < N /\ x0 >= 0 /\ x0 < M
    BY <1>1, <1>13, <1>14
  <2>2. o0 # lo + k
    BY <1>1, <1>8
  <2>3. x0 # c + k
    BY <1>1, <1>14, <2>2
  <2> HIDE DEF x0
  <2>4. ASSUME NEW o \in Rest
        PROVE  f[o] \in X
    <3> DEFINE x == f[o]
    <3>1. x \in Int /\ o \in Int /\ o >= 0 /\ o < N /\ x >= 0 /\ x < M /\ o \in 0..N - 1
          /\ (o = lo + k <=> x = c + k) /\ f[o] # -1
      BY <1>1, <1>14
    <3>2. o \in W \/ x \in V
      BY <1>13
    <3>3. o0 \in 0..N - 1 /\ f[o0] # -1
      BY <1>1, <1>14
    <3>4. /\ o < o0 => x < x0
          /\ o0 < o => x0 < x
          /\ o = o0 => x = x0
      BY <1>2, <3>1, <3>3 DEF x0
    <3> HIDE DEF x
    <3>5. CASE k = 0 /\ lo + R = N /\ c + R = M
      <4>1. o0 < lo
        BY <1>1, <1>8, <2>1, <3>5
      <4>2. x >= c
        BY <1>1, <1>8, <2>1, <3>1, <3>2, <3>4, <4>1
      <4>3. x # c + k
        BY <1>1, <1>8, <2>1, <2>3, <3>1, <3>4, <3>5, <4>1
      <4>4. x \in V
        BY <1>1, <1>8, <3>1, <3>5, <4>2
      <4> QED
        BY <4>3, <4>4 DEF x
    <3>6. CASE k = R - 1 /\ lo = 0 /\ c = 0
      <4>1. o0 >= R
        BY <1>1, <1>8, <2>1, <3>6
      <4>2. x < R
        BY <1>1, <1>8, <2>1, <3>1, <3>2, <3>4, <3>6, <4>1
      <4>3. x # c + k
        BY <1>1, <1>8, <2>1, <2>3, <3>1, <3>4, <3>6, <4>1
      <4>4. x \in V
        BY <1>1, <1>8, <3>1, <3>6, <4>2
      <4> QED
        BY <4>3, <4>4 DEF x
    <3> QED
      BY <1>1, <3>5, <3>6
  <2> DEFINE h == [o \in Rest |-> f[o]]
  <2>5. h \in Injection(Rest, X)
    <3>1. h \in [Rest -> X]
      BY <2>4
    <3>2. ASSUME NEW o \in Rest, NEW p \in Rest, h[o] = h[p] PROVE o = p
      <4>1. f[o] = f[p] /\ f[o] \in Int /\ o \in 0..N - 1 /\ p \in 0..N - 1 /\ f[o] # -1 /\ f[p] # -1
        BY <1>1, <1>14, <3>2
      <4>2. ~(o < p) /\ ~(p < o)
        BY <1>2, <4>1
      <4>3. o \in Int /\ p \in Int
        BY <1>1, <4>1
      <4> QED
        BY <4>2, <4>3
    <3> HIDE DEF h, X
    <3> QED
      BY <3>1, <3>2 DEF Injection, IsInjective
  <2>6. c + k \in V
    BY <1>1, <1>8
  <2>7. IsFiniteSet(X) /\ Cardinality(X) = R - 1
    BY <1>9, <2>6, FS_RemoveElement
  <2>8. Cardinality(Rest) <= Cardinality(X)
    <3> HIDE DEF h, X
    <3> QED
      BY <2>5, <2>7, FS_Injection
  <2> DEFINE r == Cardinality(Rest)
  <2>9. r <= R - 1 /\ R <= r /\ r \in Nat
    BY <1>10, <1>12, <2>7, <2>8
  <2> HIDE DEF r
  <2> QED
    BY <1>1, <2>9
<1>16. Rest = W
  <2>1. Cardinality(Rest) <= Cardinality(W)
    BY <1>9, <1>15, FS_Subset
  <2> DEFINE r == Cardinality(Rest)
  <2>2. r <= R /\ R <= r /\ r \in Nat
    BY <1>9, <1>10, <1>12, <2>1
  <2> HIDE DEF r
  <2>3. r = R
    BY <1>1, <2>2
  <2> QED
    BY <1>9, <1>15, <2>3, FS_Subset DEF r
<1> DEFINE h == [t \in 0..R - 1 |-> f[lo + t]]
<1>17. \A t \in 0..R - 1 : lo + t \in Rest /\ lo + t \in 0..N - 1 /\ f[lo + t] \in 0..M - 1
  BY <1>1, <1>8, <1>14, <1>16
<1>18. \A t \in 0..R - 1 : h[t] = f[lo + t] /\ h[t] \in Int /\ h[t] >= 0 /\ h[t] < M
  BY <1>1, <1>17
<1>19. \A t, u \in 0..R - 1 : t < u => h[t] < h[u]
  <2> SUFFICES ASSUME NEW t \in 0..R - 1, NEW u \in 0..R - 1, t < u PROVE h[t] < h[u]
    OBVIOUS
  <2>1. lo + t \in 0..N - 1 /\ lo + u \in 0..N - 1 /\ f[lo + t] # -1 /\ f[lo + u] # -1
    <3>1. /\ lo + t \in 0..N - 1 /\ f[lo + t] \in 0..M - 1
          /\ lo + u \in 0..N - 1 /\ f[lo + u] \in 0..M - 1
      BY <1>17
    <3>2. \A x \in 0..M - 1 : x # -1
      OBVIOUS
    <3> QED
      BY <3>1, <3>2
  <2>2. lo + t < lo + u
    BY <1>1
  <2>3. f[lo + t] < f[lo + u]
    BY <1>2, <2>1, <2>2
  <2> QED
    BY <1>18, <2>3
<1>20. 0 \in 0..R - 1 /\ k \in 0..R - 1 /\ R - 1 \in 0..R - 1
  BY <1>1
<1>21. h[k] = c + k
  <2>1. lo + k \in Rest /\ h[k] = f[lo + k]
    BY <1>17, <1>18, <1>20
  <2>2. Eq(A, B, lo + k, f[lo + k]) /\ lo + k \in 0..N - 1 /\ f[lo + k] \in 0..M - 1
    BY <1>14, <2>1
  <2> QED
    BY <1>1, <2>1, <2>2
<1> HIDE DEF h
<1>22. c <= h[0] /\ h[R - 1] <= c + R - 1
  <2> DEFINE x == h[0]  y == h[R - 1]
  <2>1. x \in Int /\ y \in Int /\ x >= 0 /\ y < M
    BY <1>18, <1>20
  <2>2. k = 0 => x = c
    BY <1>1, <1>21
  <2>3. k = R - 1 => y = c + R - 1
    <3>1. c + (R - 1) = c + R - 1
      BY <1>1
    <3> QED
      BY <1>21, <3>1
  <2> HIDE DEF x, y
  <2>4. c <= x /\ y <= c + R - 1
    BY <1>1, <2>1, <2>2, <2>3
  <2> QED
    BY <2>4 DEF x, y
<1>23. \A t \in 0..R - 1 : h[t] = c + t
  <2>1. R > 0 /\ \A t \in 0..R - 1 : h[t] \in Int
    BY <1>1, <1>18
  <2> QED
    BY <1>1, <1>19, <1>22, <2>1, Squeeze
<1> QED
  BY <1>18, <1>23
=============================================================================
