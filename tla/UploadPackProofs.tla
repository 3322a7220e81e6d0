-------------------------- MODULE UploadPackProofs --------------------------
(***************************************************************************)
(* Theorems about ObjectIterator and UploadPack, for every object graph,   *)
(* every set of refs and whatever the client asks and says.                *)
(***************************************************************************)
EXTENDS UploadPack, FiniteSetTheorems, SequenceTheorems, WellFoundedInduction, TLAPS

-----------------------------------------------------------------------------
(* Numbers, sequences and functions defined step by step. *)

LEMMA LeastNumber ==
  ASSUME NEW T \in SUBSET Nat, T # {}
  PROVE  \E x \in T : \A y \in T : x <= y
<1> DEFINE Less == OpToRel(<, Nat)
<1>1. IsWellFoundedOn(Less, Nat)
  BY NatLessThanWellFounded
<1>2. \A x, y \in Nat : <<x, y>> \in Less <=> x < y
  BY DEF OpToRel
<1> HIDE DEF Less
<1>3. PICK x \in T : \A y \in T : ~(<<y, x>> \in Less)
  BY <1>1, WFMin, Zenon
<1>4. \A y \in T : ~(y < x)
  BY <1>2, <1>3
<1> QED
  BY <1>4

(* A set of numbers that holds zero and what follows each member is all of *)
(* them.                                                                   *)
LEMMA Climb ==
  ASSUME NEW T \in SUBSET Nat, 0 \in T, \A n \in T : n + 1 \in T
  PROVE  T = Nat
<1> SUFFICES ASSUME Nat \ T # {} PROVE FALSE
  OBVIOUS
<1>1. PICK n \in Nat \ T : \A k \in Nat \ T : n <= k
  BY LeastNumber
<1>2. n # 0 /\ n - 1 \in Nat
  BY <1>1
<1>3. n - 1 \in T
  BY <1>1, <1>2
<1>4. (n - 1) + 1 \in T
  BY <1>3
<1> QED
  BY <1>1, <1>4

LEMMA Iterates ==
  ASSUME NEW S, NEW base \in S, NEW step \in [S -> S]
  PROVE  \E f \in [Nat -> S] : f[0] = base /\ \A n \in Nat : f[n + 1] = step[f[n]]
<1> DEFINE Is(f, n) == f[0] = base /\ \A i \in 0..n : i < n => f[i + 1] = step[f[i]]
           Upto(n) == {f \in [0..n -> S] : Is(f, n)}
           T == {n \in Nat : Upto(n) # {}}
<1>1. 0 \in T
  <2>1. [i \in 0..0 |-> base] \in Upto(0)
    OBVIOUS
  <2> QED
    BY <2>1
<1>2. ASSUME NEW n \in T
      PROVE  n + 1 \in T
  <2>1. PICK f \in Upto(n) : TRUE
    OBVIOUS
  <2> DEFINE g == [i \in 0..(n + 1) |-> IF i = n + 1 THEN step[f[n]] ELSE f[i]]
  <2>2. f[n] \in S /\ step[f[n]] \in S
    BY <2>1
  <2>3. g \in [0..(n + 1) -> S]
    BY <2>1, <2>2
  <2>4. g[0] = base
    BY <2>1
  <2>5. \A i \in 0..(n + 1) : i < n + 1 => g[i + 1] = step[g[i]]
    <3> SUFFICES ASSUME NEW i \in 0..(n + 1), i < n + 1 PROVE g[i + 1] = step[g[i]]
      OBVIOUS
    <3>1. CASE i = n
      BY <2>1, <3>1
    <3>2. CASE i < n
      BY <2>1, <3>2
    <3> QED
      BY <3>1, <3>2
  <2>6. g \in Upto(n + 1)
    BY <2>3, <2>4, <2>5
  <2> HIDE DEF Upto, g
  <2> QED
    BY <2>6
<1>3. T = Nat
  <2> HIDE DEF T
  <2>1. T \in SUBSET Nat
    BY DEF T
  <2> QED
    BY <1>1, <1>2, <2>1, Climb
<1>4. ASSUME NEW n \in Nat, NEW m \in Nat, NEW f \in Upto(n), NEW g \in Upto(m)
      PROVE  \A i \in Nat : i <= n /\ i <= m => f[i] = g[i]
  <2> DEFINE Bad == {i \in Nat : i <= n /\ i <= m /\ f[i] # g[i]}
  <2> SUFFICES ASSUME Bad # {} PROVE FALSE
    OBVIOUS
  <2>1. PICK i \in Bad : \A j \in Bad : i <= j
    <3>1. Bad \in SUBSET Nat
      OBVIOUS
    <3> HIDE DEF Bad
    <3> QED
      BY <3>1, LeastNumber
  <2>2. i # 0 /\ i - 1 \in Nat /\ i - 1 \in 0..n /\ i - 1 \in 0..m
    OBVIOUS
  <2>3. f[i - 1] = g[i - 1]
    BY <2>1, <2>2
  <2>4. f[(i - 1) + 1] = step[f[i - 1]] /\ g[(i - 1) + 1] = step[g[i - 1]]
    BY <2>2
  <2> QED
    BY <2>2, <2>3, <2>4
<1> DEFINE h == [n \in Nat |-> (CHOOSE e : e \in Upto(n))[n]]
<1>5. \A n \in Nat : (CHOOSE e : e \in Upto(n)) \in Upto(n)
  BY <1>3, Zenon
<1>6. ASSUME NEW n \in Nat
      PROVE  h[n] \in S
  <2> DEFINE f == CHOOSE e : e \in Upto(n)
  <2>1. f \in Upto(n) /\ h[n] = f[n]
    BY <1>5
  <2> HIDE DEF f, h
  <2> QED
    BY <2>1
<1>7. h[0] = base
  <2> DEFINE f == CHOOSE e : e \in Upto(0)
  <2>1. f \in Upto(0) /\ h[0] = f[0]
    BY <1>5
  <2> HIDE DEF f, h
  <2> QED
    BY <2>1
<1>8. ASSUME NEW n \in Nat
      PROVE  h[n + 1] = step[h[n]]
  <2> DEFINE f == CHOOSE e : e \in Upto(n)
             g == CHOOSE e : e \in Upto(n + 1)
  <2>1. f \in Upto(n) /\ h[n] = f[n]
    BY <1>5
  <2>0. g \in Upto(n + 1) /\ h[n + 1] = g[n + 1]
    <3>1. n + 1 \in Nat
      OBVIOUS
    <3> HIDE DEF Upto
    <3> QED
      BY <1>5, <3>1
  <2> HIDE DEF f, g, h
  <2>2. f[n] = g[n]
    <3> HIDE DEF Upto
    <3> QED
      BY <1>4, <2>0, <2>1
  <2>3. g[n + 1] = step[g[n]]
    BY <2>0
  <2> QED
    BY <2>0, <2>1, <2>2, <2>3
<1>9. h \in [Nat -> S]
  BY <1>6
<1> HIDE DEF h
<1> QED
  BY <1>7, <1>8, <1>9

LEMMA SetToSeqFacts ==
  ASSUME NEW S, IsFiniteSet(S)
  PROVE  /\ SetToSeq(S) \in Seq(S)
         /\ \A x : x \in S <=> \E i \in DOMAIN SetToSeq(S) : SetToSeq(S)[i] = x
<1>1. PICK f \in Bijection(1..Cardinality(S), S) : TRUE
  BY FS_CardinalityType DEF ExistsBijection
<1>2. f \in [1..Cardinality(S) -> S] /\ IsInjective(f)
  BY <1>1 DEF Bijection, Injection
<1>3. SetToSeq(S) \in [1..Cardinality(S) -> S] /\ IsInjective(SetToSeq(S))
  BY <1>2 DEF SetToSeq
<1>4. Cardinality(S) \in Nat
  BY FS_CardinalityType
<1>5. IsFiniteSet(1..Cardinality(S)) /\ Cardinality(1..Cardinality(S)) = Cardinality(S)
  BY <1>4, FS_Interval
<1> DEFINE g == SetToSeq(S)
<1>6. g \in Injection(1..Cardinality(S), S)
  BY <1>3 DEF Injection
<1> HIDE DEF g
<1>7. g \in Surjection(1..Cardinality(S), S)
  BY <1>5, <1>6, FS_Injection
<1>8. \A x \in S : \E i \in 1..Cardinality(S) : g[i] = x
  BY <1>7 DEF Surjection
<1> USE DEF g
<1> QED
  BY <1>3, <1>4, <1>8

-----------------------------------------------------------------------------
(* The objects within n steps. *)

LEMMA GraphTypes ==
  ASSUME NEW o \in Objects, NEW kind
  PROVE  /\ Links[o] \subseteq Objects
         /\ o \in Commits => Parents[o] \subseteq Commits /\ Parents[o] \subseteq Links[o]
         /\ ContentRefs(kind, o) \subseteq Links[o]
         /\ ContentRefs(kind, o) \subseteq Objects
<1>1. Links[o] \subseteq Objects
  BY ObjectGraphAssumption
<1>2. o \in Commits => Parents[o] \subseteq Commits /\ Parents[o] \subseteq Links[o]
  BY ObjectGraphAssumption
<1>3. ContentRefs(kind, o) \subseteq Links[o]
  BY <1>2 DEF ContentRefs
<1> QED
  BY <1>1, <1>2, <1>3

Grows(kind, From, X, lev) ==
  /\ lev \in [Nat -> SUBSET Objects]
  /\ lev[0] = From \ X
  /\ \A n \in Nat : lev[n + 1] = lev[n] \cup ((UNION {ContentRefs(kind, o) : o \in lev[n]}) \ X)

LEMMA LevelsExist ==
  ASSUME NEW kind, NEW From \in SUBSET Objects, NEW X
  PROVE  \E lev : Grows(kind, From, X, lev)
<1> DEFINE further(S) == S \cup ((UNION {ContentRefs(kind, o) : o \in S}) \ X)
           step == [S \in SUBSET Objects |-> further(S)]
<1>1. \A S \in SUBSET Objects : further(S) \in SUBSET Objects
  BY GraphTypes
<1>2. step \in [SUBSET Objects -> SUBSET Objects]
  BY <1>1
<1>3. From \ X \in SUBSET Objects
  OBVIOUS
<1>4. \A S \in SUBSET Objects : step[S] = further(S)
  OBVIOUS
<1> HIDE DEF step, further
<1>5. PICK f \in [Nat -> SUBSET Objects] :
        f[0] = From \ X /\ \A n \in Nat : f[n + 1] = step[f[n]]
  <2> DEFINE S == SUBSET Objects
             base == From \ X
  <2>1. base \in S /\ step \in [S -> S]
    BY <1>2, <1>3
  <2> HIDE DEF S, base
  <2>2. \E f \in [Nat -> S] : f[0] = base /\ \A n \in Nat : f[n + 1] = step[f[n]]
    BY <2>1, Iterates
  <2> QED
    BY <2>2 DEF S, base
<1>6. \A n \in Nat : f[n + 1] = further(f[n])
  BY <1>4, <1>5
<1> USE DEF further
<1>7. Grows(kind, From, X, f)
  BY <1>5, <1>6, Zenon DEF Grows
<1> QED
  BY <1>7

LEMMA WithinIsLevels ==
  ASSUME NEW kind, NEW From, NEW X, NEW lev, Grows(kind, From, X, lev), NEW N \in Nat
  PROVE  /\ DOMAIN Within(kind, From, X, N) = 0..N
         /\ \A n \in 0..N : Within(kind, From, X, N)[n] = lev[n]
<1> DEFINE further(S) == S \cup ((UNION {ContentRefs(kind, o) : o \in S}) \ X)
           Solves(l) == l = [n \in 0..N |-> IF n = 0 THEN From \ X ELSE further(l[n - 1])]
           f == [n \in 0..N |-> lev[n]]
           w == CHOOSE l : Solves(l)
<1>1. Solves(f)
  <2>1. \A n \in 0..N : n # 0 => n - 1 \in 0..N /\ (n - 1) + 1 = n /\ n - 1 \in Nat
    OBVIOUS
  <2>2. \A n \in 0..N : n # 0 => lev[n] = further(f[n - 1])
    BY <2>1 DEF Grows
  <2>3. lev[0] = From \ X
    BY DEF Grows
  <2> HIDE DEF further
  <2>4. \A n \in 0..N : f[n] = IF n = 0 THEN From \ X ELSE further(f[n - 1])
    BY <2>2, <2>3
  <2> QED
    BY <2>4
<1>2. Solves(w)
  <2> HIDE DEF Solves, f
  <2> QED
    BY <1>1, Zenon
<1>3. Within(kind, From, X, N) = w
  BY Zenon DEF Within
<1> HIDE DEF w
<1>4. DOMAIN w = 0..N
  BY <1>2
<1>5. \A n \in 0..N : w[n] = IF n = 0 THEN From \ X ELSE further(w[n - 1])
  <2> HIDE DEF further
  <2> QED
    BY <1>2
<1> DEFINE Bad == {n \in 0..N : w[n] # lev[n]}
<1>6. Bad = {}
  <2> SUFFICES ASSUME Bad # {} PROVE FALSE
    OBVIOUS
  <2>1. PICK n \in Bad : \A m \in Bad : n <= m
    <3>1. Bad \in SUBSET Nat
      OBVIOUS
    <3> HIDE DEF Bad
    <3> QED
      BY <3>1, LeastNumber
  <2>2. n # 0
    BY <1>5 DEF Grows
  <2>3. n - 1 \in 0..N /\ n - 1 \in Nat /\ (n - 1) + 1 = n
    BY <2>2
  <2>4. w[n - 1] = lev[n - 1]
    BY <2>1, <2>3
  <2>5. w[n] = further(w[n - 1])
    BY <1>5, <2>2
  <2>6. lev[(n - 1) + 1] = further(lev[n - 1])
    BY <2>3 DEF Grows
  <2> HIDE DEF further
  <2> QED
    BY <2>3, <2>4, <2>5, <2>6
<1> QED
  BY <1>3, <1>4, <1>6

(* Sets that only grow, and stay as they are once they do not grow, are    *)
(* complete after as many steps as there are elements.                     *)
LEMMA Monotone ==
  ASSUME NEW lev, \A n \in Nat : lev[n] \subseteq lev[n + 1]
  PROVE  \A m, n \in Nat : m <= n => lev[m] \subseteq lev[n]
<1> SUFFICES ASSUME NEW m \in Nat PROVE \A n \in Nat : m <= n => lev[m] \subseteq lev[n]
  OBVIOUS
<1> DEFINE T == {n \in Nat : m <= n => lev[m] \subseteq lev[n]}
<1>1. 0 \in T
  OBVIOUS
<1>2. \A n \in T : n + 1 \in T
  <2> SUFFICES ASSUME NEW n \in T PROVE n + 1 \in T
    OBVIOUS
  <2>1. CASE m <= n
    <3>1. lev[m] \subseteq lev[n] /\ lev[n] \subseteq lev[n + 1]
      BY <2>1
    <3> QED
      BY <3>1
  <2>2. CASE m = n + 1
    BY <2>2
  <2>3. CASE m > n + 1
    BY <2>3
  <2> QED
    BY <2>1, <2>2, <2>3
<1>3. T = Nat
  <2>1. T \in SUBSET Nat
    OBVIOUS
  <2> HIDE DEF T
  <2> QED
    BY <1>1, <1>2, <2>1, Climb
<1> QED
  BY <1>3

LEMMA Stays ==
  ASSUME NEW lev, NEW k \in Nat, lev[k + 1] = lev[k],
         \A n \in Nat : lev[n + 1] = lev[n] => lev[(n + 1) + 1] = lev[n + 1]
  PROVE  \A n \in Nat : k <= n => lev[n] = lev[k]
<1> DEFINE S == {n \in Nat : lev[k + n] = lev[k] /\ lev[(k + n) + 1] = lev[k]}
<1>1. S = Nat
  <2>1. 0 \in S
    OBVIOUS
  <2>2. \A n \in S : n + 1 \in S
    <3> SUFFICES ASSUME NEW n \in S PROVE n + 1 \in S
      OBVIOUS
    <3>1. k + n \in Nat /\ k + (n + 1) = (k + n) + 1
      OBVIOUS
    <3>2. lev[((k + n) + 1) + 1] = lev[(k + n) + 1]
      BY <3>1
    <3> QED
      BY <3>1, <3>2
  <2>3. S \in SUBSET Nat
    OBVIOUS
  <2> HIDE DEF S
  <2> QED
    BY <2>1, <2>2, <2>3, Climb
<1> SUFFICES ASSUME NEW n \in Nat, k <= n PROVE lev[n] = lev[k]
  OBVIOUS
<1>2. n - k \in Nat /\ k + (n - k) = n
  OBVIOUS
<1>3. n - k \in S
  BY <1>1, <1>2
<1> QED
  BY <1>2, <1>3

LEMMA Settles ==
  ASSUME NEW U, IsFiniteSet(U), NEW lev \in [Nat -> SUBSET U],
         \A n \in Nat : lev[n] \subseteq lev[n + 1],
         \A n \in Nat : lev[n + 1] = lev[n] => lev[(n + 1) + 1] = lev[n + 1]
  PROVE  /\ Cardinality(U) \in Nat
         /\ \A n \in Nat : lev[n] \subseteq lev[Cardinality(U)]
         /\ \A n \in Nat : Cardinality(U) <= n => lev[n] = lev[Cardinality(U)]
<1> DEFINE N == Cardinality(U)
<1>1. N \in Nat
  BY FS_CardinalityType
<1> HIDE DEF N
<1>2. \A n \in Nat : IsFiniteSet(lev[n]) /\ Cardinality(lev[n]) \in Nat /\ Cardinality(lev[n]) <= N
  BY FS_Subset, FS_CardinalityType DEF N
<1>3. \E k \in 0..N : lev[k + 1] = lev[k]
  <2> SUFFICES ASSUME \A k \in 0..N : lev[k + 1] # lev[k] PROVE FALSE
    OBVIOUS
  <2> DEFINE T == {n \in Nat : n <= N + 1 => n <= Cardinality(lev[n])}
  <2>1. 0 \in T
    BY <1>1, <1>2
  <2>2. \A n \in T : n + 1 \in T
    <3> SUFFICES ASSUME NEW n \in T, n + 1 <= N + 1 PROVE n + 1 <= Cardinality(lev[n + 1])
      OBVIOUS
    <3>1. n \in 0..N /\ n + 1 \in Nat
      BY <1>1
    <3>2. lev[n] \subseteq lev[n + 1] /\ lev[n] # lev[n + 1]
      BY <3>1
    <3>3. Cardinality(lev[n]) < Cardinality(lev[n + 1])
      <4> DEFINE A == lev[n]
                 B == lev[n + 1]
      <4>1. IsFiniteSet(B) /\ A \in SUBSET B /\ A # B
        BY <1>2, <3>1, <3>2
      <4>2. Cardinality(A) \in Nat /\ Cardinality(B) \in Nat
        BY <1>2, <3>1
      <4> HIDE DEF A, B
      <4>3. Cardinality(A) <= Cardinality(B) /\ Cardinality(A) # Cardinality(B)
        BY <4>1, FS_Subset
      <4>4. Cardinality(A) < Cardinality(B)
        BY <4>2, <4>3
      <4> QED
        BY <4>4 DEF A, B
    <3> QED
      BY <1>1, <1>2, <3>1, <3>3
  <2>3. T = Nat
    <3>1. T \in SUBSET Nat
      OBVIOUS
    <3> HIDE DEF T
    <3> QED
      BY <2>1, <2>2, <3>1, Climb
  <2>4. N + 1 \in T
    BY <1>1, <2>3
  <2> QED
    BY <1>1, <1>2, <2>4
<1>4. PICK k \in 0..N : lev[k + 1] = lev[k]
  BY <1>3
<1>5. k \in Nat
  BY <1>1
<1>6. \A n \in Nat : k <= n => lev[n] = lev[k]
  BY <1>4, <1>5, Stays
<1>7. \A n \in Nat : n <= k => lev[n] \subseteq lev[k]
  <2>1. k \in Nat
    BY <1>1
  <2> QED
    BY <2>1, Monotone
<1>8. k \in Nat /\ lev[N] = lev[k]
  BY <1>1, <1>6
<1>9. \A n \in Nat : lev[n] \subseteq lev[N]
  <2> SUFFICES ASSUME NEW n \in Nat PROVE lev[n] \subseteq lev[N]
    OBVIOUS
  <2>1. n <= k \/ k <= n
    BY <1>8
  <2> QED
    BY <1>6, <1>7, <1>8, <2>1
<1>10. \A n \in Nat : N <= n => lev[n] = lev[N]
  <2> SUFFICES ASSUME NEW n \in Nat, N <= n PROVE lev[n] = lev[N]
    OBVIOUS
  <2>1. k <= n
    BY <1>1, <1>8
  <2> QED
    BY <1>6, <1>8, <2>1
<1> QED
  BY <1>1, <1>9, <1>10 DEF N

LEMMA LevelFacts ==
  ASSUME NEW kind, NEW From, NEW X, NEW lev, Grows(kind, From, X, lev)
  PROVE  /\ \A n \in Nat : lev[n] \subseteq Objects /\ lev[n] \subseteq lev[n + 1]
         /\ \A m, n \in Nat : m <= n => lev[m] \subseteq lev[n]
         /\ \A n \in Nat : lev[n] \cap X = {}
         /\ \A n \in Nat : \A o \in lev[n] : \A r \in ContentRefs(kind, o) \ X : r \in lev[n + 1]
         /\ \A n \in Nat : lev[n + 1] = lev[n] => lev[(n + 1) + 1] = lev[n + 1]
         /\ Cardinality(Objects) \in Nat
         /\ \A n \in Nat : lev[n] \subseteq lev[Cardinality(Objects)]
         /\ \A n \in Nat : Cardinality(Objects) <= n => lev[n] = lev[Cardinality(Objects)]
<1> DEFINE more(S) == (UNION {ContentRefs(kind, o) : o \in S}) \ X
<1>1. lev \in [Nat -> SUBSET Objects] /\ lev[0] = From \ X
      /\ \A n \in Nat : lev[n + 1] = lev[n] \cup more(lev[n])
  BY DEF Grows
<1>2. ASSUME NEW S
      PROVE  more(S) \cap X = {}
  OBVIOUS
<1>3. ASSUME NEW n \in Nat, NEW o \in lev[n], NEW r \in ContentRefs(kind, o) \ X
      PROVE  r \in lev[n + 1]
  <2>1. r \in more(lev[n])
    OBVIOUS
  <2> HIDE DEF more
  <2> QED
    BY <1>1, <2>1
<1> HIDE DEF more
<1>4. \A n \in Nat : lev[n] \subseteq lev[n + 1]
  BY <1>1
<1>5. \A m, n \in Nat : m <= n => lev[m] \subseteq lev[n]
  BY <1>4, Monotone
<1>6. \A n \in Nat : lev[n] \cap X = {}
  <2> DEFINE T == {n \in Nat : lev[n] \cap X = {}}
  <2>1. 0 \in T
    BY <1>1
  <2>2. \A n \in T : n + 1 \in T
    BY <1>1, <1>2
  <2>3. T \in SUBSET Nat
    OBVIOUS
  <2> HIDE DEF T
  <2>4. T = Nat
    BY <2>1, <2>2, <2>3, Climb
  <2> QED
    BY <2>4 DEF T
<1>7. \A n \in Nat : lev[n + 1] = lev[n] => lev[(n + 1) + 1] = lev[n + 1]
  <2> SUFFICES ASSUME NEW n \in Nat, lev[n + 1] = lev[n]
               PROVE  lev[(n + 1) + 1] = lev[n + 1]
    OBVIOUS
  <2>1. lev[n + 1] = lev[n] \cup more(lev[n])
    BY <1>1
  <2>2. lev[(n + 1) + 1] = lev[n + 1] \cup more(lev[n + 1])
    BY <1>1
  <2> QED
    BY <2>1, <2>2
<1>8. /\ Cardinality(Objects) \in Nat
      /\ \A n \in Nat : lev[n] \subseteq lev[Cardinality(Objects)]
      /\ \A n \in Nat : Cardinality(Objects) <= n => lev[n] = lev[Cardinality(Objects)]
  BY <1>1, <1>4, <1>7, Settles, ObjectIteratorAssumption
<1> QED
  BY <1>1, <1>3, <1>4, <1>5, <1>6, <1>7, <1>8

-----------------------------------------------------------------------------
(* A walk: what a round of it does, and that it ends. *)

Entries == Objects \X Nat

LEMMA WalkTypes ==
  ASSUME NEW w \in Walks
  PROVE  /\ w.kind \in {"all", "commit"} /\ w.maxDepth \in Nat
         /\ w.queue \in Seq(Entries) /\ w.out \in Seq(Entries)
         /\ w.excludes \in SUBSET Objects /\ w.failed \in BOOLEAN
         /\ \A i \in DOMAIN w.queue : w.queue[i][1] \in Objects /\ w.queue[i][2] \in Nat
                                      /\ w.queue[i] = <<w.queue[i][1], w.queue[i][2]>>
BY DEF Walks, Entries

Queues(L, S, excludes, maxDepth, depth) ==
  /\ L \in Seq(Entries)
  /\ \A i \in DOMAIN L : /\ L[i][1] \in S \ excludes /\ L[i][2] = depth
                         /\ maxDepth > 0 => depth <= maxDepth
  /\ \A o \in S \ excludes : \/ maxDepth > 0 /\ depth > maxDepth
                             \/ \E i \in DOMAIN L : L[i][1] = o

LEMMA IncludeAllFacts ==
  ASSUME NEW w \in Walks, NEW S \in SUBSET Objects, NEW depth \in Nat
  PROVE  LET v == IncludeAll(w, S, depth)
         IN  /\ v \in Walks
             /\ v.kind = w.kind /\ v.maxDepth = w.maxDepth /\ v.out = w.out
             /\ v.excludes = w.excludes /\ v.failed = w.failed
             /\ \E L : Queues(L, S, w.excludes, w.maxDepth, depth) /\ v.queue = w.queue \o L
<1> DEFINE kept == IF w.maxDepth > 0 /\ depth > w.maxDepth THEN {} ELSE S \ w.excludes
           oids == SetToSeq(kept)
           L == [i \in DOMAIN oids |-> <<oids[i], depth>>]
           q == w.queue \o L
           v == IncludeAll(w, S, depth)
<1>1. IsFiniteSet(kept) /\ kept \subseteq Objects
  <2>1. kept \in SUBSET Objects
    OBVIOUS
  <2> HIDE DEF kept
  <2> QED
    BY <2>1, FS_Subset, ObjectIteratorAssumption
<1>2. oids \in Seq(kept) /\ \A x : x \in kept <=> \E i \in DOMAIN oids : oids[i] = x
  <2> HIDE DEF kept
  <2> QED
    BY <1>1, SetToSeqFacts
<1>3. v = [w EXCEPT !.queue = q]
  BY DEF IncludeAll
<1> HIDE DEF oids
<1>4. L \in Seq(Entries) /\ DOMAIN L = DOMAIN oids
  <2>1. \A i \in DOMAIN oids : oids[i] \in Objects
    BY <1>1, <1>2
  <2>2. DOMAIN oids = 1..Len(oids) /\ Len(oids) \in Nat
    BY <1>2
  <2>3. L \in [1..Len(oids) -> Entries]
    BY <2>1, <2>2 DEF Entries
  <2> QED
    BY <2>2, <2>3
<1>5. Queues(L, S, w.excludes, w.maxDepth, depth)
  <2>1. ASSUME NEW i \in DOMAIN L
        PROVE  L[i][1] \in kept /\ L[i][2] = depth
    BY <1>2, <1>4
  <2>2. \A o \in kept : \E i \in DOMAIN L : L[i][1] = o
    BY <1>2, <1>4
  <2>3. w.maxDepth \in Nat
    BY WalkTypes
  <2> HIDE DEF L
  <2> QED
    BY <1>4, <2>1, <2>2, <2>3 DEF Queues
<1>6. q \in Seq(Entries)
  <2> HIDE DEF L
  <2> QED
    BY <1>4, WalkTypes, ConcatProperties
<1> HIDE DEF q
<1>7. v \in Walks
  BY <1>3, <1>6 DEF Walks, Entries
<1>8. /\ v.kind = w.kind /\ v.maxDepth = w.maxDepth /\ v.out = w.out
      /\ v.excludes = w.excludes /\ v.failed = w.failed /\ v.queue = q
  BY <1>3 DEF Walks
<1> HIDE DEF v, L
<1> QED
  BY <1>5, <1>7, <1>8 DEF q, v

LEMMA StepFacts ==
  ASSUME NEW w \in Walks, w.queue # <<>>, NEW store
  PROVE  LET o == w.queue[1][1]
             depth == w.queue[1][2]
             v == Step(w, store)
             returned == w.kind = "all" \/ o \in Commits
         IN  /\ o \in Objects /\ depth \in Nat /\ Tail(w.queue) \in Seq(Entries)
             /\ v \in Walks /\ v.kind = w.kind /\ v.maxDepth = w.maxDepth
             /\ o \in w.excludes =>
                  /\ v.excludes = w.excludes /\ v.out = w.out /\ v.failed = w.failed
                  /\ v.queue = Tail(w.queue)
             /\ o \notin w.excludes /\ o \notin store =>
                  /\ v.excludes = w.excludes /\ v.out = w.out /\ v.failed
                  /\ v.queue = <<>>
             /\ o \notin w.excludes /\ o \in store =>
                  /\ v.excludes = w.excludes \cup {o} /\ v.failed = w.failed
                  /\ v.out = IF returned THEN Append(w.out, <<o, depth>>) ELSE w.out
                  /\ \E L : /\ Queues(L, ContentRefs(w.kind, o), w.excludes \cup {o},
                                      w.maxDepth, depth + 1)
                            /\ v.queue = Tail(w.queue) \o L
<1> DEFINE o == w.queue[1][1]
           depth == w.queue[1][2]
           returned == w.kind = "all" \/ o \in Commits
           tail == Tail(w.queue)
           popped == [w EXCEPT !.queue = Tail(@)]
           out == IF returned THEN Append(w.out, <<o, depth>>) ELSE w.out
           visited == [popped EXCEPT !.excludes = @ \cup {o},
                         !.out = IF returned THEN Append(@, <<o, depth>>) ELSE @]
           failed == [popped EXCEPT !.queue = <<>>, !.failed = TRUE]
           v == Step(w, store)
<1>1. /\ w.queue \in Seq(Entries) /\ w.out \in Seq(Entries) /\ w.excludes \in SUBSET Objects
      /\ w.kind \in {"all", "commit"} /\ w.maxDepth \in Nat /\ w.failed \in BOOLEAN
  BY WalkTypes
<1>2. 1 \in DOMAIN w.queue
  BY <1>1
<1>3. o \in Objects /\ depth \in Nat
  BY <1>2, WalkTypes
<1>4. tail \in Seq(Entries)
  BY <1>1
<1> HIDE DEF tail
<1>5. popped = [w EXCEPT !.queue = tail]
  BY DEF tail
<1>6. /\ popped \in Walks /\ popped.kind = w.kind /\ popped.maxDepth = w.maxDepth
      /\ popped.excludes = w.excludes /\ popped.out = w.out /\ popped.failed = w.failed
      /\ popped.queue = tail
  <2> HIDE DEF popped
  <2>1. /\ popped.kind = w.kind /\ popped.maxDepth = w.maxDepth
        /\ popped.excludes = w.excludes /\ popped.out = w.out /\ popped.failed = w.failed
        /\ popped.queue = tail
    BY <1>5 DEF Walks
  <2>2. popped \in Walks
    BY <1>4, <1>5 DEF Walks, Entries
  <2> QED
    BY <2>1, <2>2
<1> HIDE DEF popped
<1>7. v = IF o \in w.excludes THEN popped
          ELSE IF o \notin store THEN failed
          ELSE IncludeAll(visited, ContentRefs(w.kind, o), depth + 1)
  BY DEF Step, popped
<1> HIDE DEF o, depth, v
<1>8. CASE o \in w.excludes
  <2>1. v = popped
    BY <1>7, <1>8
  <2> QED
    BY <1>3, <1>4, <1>6, <1>8, <2>1 DEF o, depth, v, tail
<1>9. CASE o \notin w.excludes /\ o \notin store
  <2>1. v = failed
    BY <1>7, <1>9
  <2>2. /\ v.kind = w.kind /\ v.maxDepth = w.maxDepth
        /\ v.excludes = w.excludes /\ v.out = w.out /\ v.failed /\ v.queue = <<>>
    BY <1>6, <2>1 DEF Walks
  <2>3. v \in Walks
    <3>1. <<>> \in Seq(Objects \X Nat)
      OBVIOUS
    <3>2. [popped EXCEPT !.queue = <<>>] \in Walks
      BY <1>6, <3>1 DEF Walks
    <3> DEFINE p == [popped EXCEPT !.queue = <<>>]
    <3>3. v = [p EXCEPT !.failed = TRUE]
      BY <1>6, <2>1 DEF Walks
    <3> HIDE DEF p
    <3> QED
      BY <3>2, <3>3 DEF Walks, p
  <2> QED
    BY <1>3, <1>4, <1>9, <2>2, <2>3 DEF o, depth, v, tail
<1>10. CASE o \notin w.excludes /\ o \in store
  <2>1. out \in Seq(Entries)
    <3>1. <<o, depth>> \in Entries
      BY <1>3 DEF Entries
    <3> QED
      BY <1>1, <3>1
  <2>2. visited = [popped EXCEPT !.excludes = w.excludes \cup {o}, !.out = out]
    BY <1>6
  <2> HIDE DEF out
  <2>3. /\ visited.kind = w.kind /\ visited.maxDepth = w.maxDepth
        /\ visited.excludes = w.excludes \cup {o} /\ visited.out = out
        /\ visited.failed = w.failed /\ visited.queue = tail
    <3> HIDE DEF visited
    <3> QED
      BY <1>6, <2>2 DEF Walks
  <2>4. visited \in Walks
    <3> HIDE DEF visited
    <3>1. w.excludes \cup {o} \in SUBSET Objects
      BY <1>1, <1>3
    <3> QED
      BY <1>6, <2>1, <2>2, <3>1 DEF Walks, Entries
  <2> DEFINE refs1 == ContentRefs(w.kind, o)
             below == depth + 1
  <2>5. refs1 \in SUBSET Objects /\ below \in Nat
    BY <1>3, GraphTypes
  <2>6. v = IncludeAll(visited, refs1, below)
    BY <1>7, <1>10
  <2> HIDE DEF visited, refs1, below
  <2>7. /\ v \in Walks
        /\ v.kind = visited.kind /\ v.maxDepth = visited.maxDepth /\ v.out = visited.out
        /\ v.excludes = visited.excludes /\ v.failed = visited.failed
        /\ \E L : /\ Queues(L, refs1, visited.excludes, visited.maxDepth, below)
                  /\ v.queue = visited.queue \o L
    <3> DEFINE u == IncludeAll(visited, refs1, below)
    <3>1. /\ u \in Walks
          /\ u.kind = visited.kind /\ u.maxDepth = visited.maxDepth /\ u.out = visited.out
          /\ u.excludes = visited.excludes /\ u.failed = visited.failed
          /\ \E L : /\ Queues(L, refs1, visited.excludes, visited.maxDepth, below)
                    /\ u.queue = visited.queue \o L
      BY <2>4, <2>5, IncludeAllFacts
    <3> HIDE DEF u
    <3>2. v = u
      BY <2>6 DEF u
    <3> QED
      BY <3>1, <3>2
  <2>8. \E L : /\ Queues(L, refs1, w.excludes \cup {o}, w.maxDepth, below)
               /\ v.queue = tail \o L
    BY <2>3, <2>7
  <2>9. v.excludes = w.excludes \cup {o} /\ v.failed = w.failed /\ v.out = out
    BY <2>3, <2>7
  <2>10. v \in Walks /\ v.kind = w.kind /\ v.maxDepth = w.maxDepth
    BY <2>3, <2>7
  <2> QED
    BY <1>3, <1>4, <1>10, <2>8, <2>9, <2>10, Zenon DEF o, depth, v, tail, out, refs1, below
<1> QED
  BY <1>8, <1>9, <1>10

(* Every round that does not take an entry from the queue marks one more   *)
(* object.                                                                 *)
LEMMA StepShrinks ==
  ASSUME NEW w \in Walks, w.queue # <<>>, NEW store
  PROVE  LET left(u) == Cardinality(Objects \ u.excludes)
             v == Step(w, store)
         IN  /\ left(w) \in Nat /\ left(v) \in Nat
             /\ left(v) < left(w) \/ (left(v) = left(w) /\ Len(v.queue) < Len(w.queue))
<1> DEFINE v == Step(w, store)
           o == w.queue[1][1]
           A == Objects \ w.excludes
<1>1. v \in Walks /\ o \in Objects /\ w.queue \in Seq(Entries)
  BY StepFacts, WalkTypes
<1>2. \A S \in SUBSET Objects : IsFiniteSet(S) /\ Cardinality(S) \in Nat
  BY FS_Subset, FS_CardinalityType, ObjectIteratorAssumption
<1>3. /\ A \in SUBSET Objects /\ Objects \ v.excludes \in SUBSET Objects
  OBVIOUS
<1>4. CASE o \in w.excludes \/ o \notin store
  <2>1. v.excludes = w.excludes /\ (v.queue = Tail(w.queue) \/ v.queue = <<>>)
    BY <1>4, StepFacts
  <2>2. Len(v.queue) < Len(w.queue)
    <3> DEFINE q == w.queue
    <3>1. q \in Seq(Entries) /\ q # <<>> /\ (v.queue = Tail(q) \/ v.queue = <<>>)
      BY <1>1, <2>1
    <3> HIDE DEF q, v
    <3>2. Len(v.queue) < Len(q)
      BY <3>1
    <3> QED
      BY <3>2 DEF q
  <2> QED
    BY <1>2, <1>3, <2>1, <2>2
<1>5. CASE o \notin w.excludes /\ o \in store
  <2>1. v.excludes = w.excludes \cup {o}
    BY <1>5, StepFacts
  <2>2. Objects \ v.excludes = A \ {o} /\ o \in A
    BY <1>1, <1>5, <2>1
  <2>3. Cardinality(A \ {o}) = Cardinality(A) - 1
    <3>1. IsFiniteSet(A)
      BY <1>2
    <3> HIDE DEF A, o
    <3> QED
      BY <2>2, <3>1, FS_RemoveElement
  <2>4. Cardinality(A) \in Nat /\ Cardinality(A \ {o}) \in Nat
    BY <1>2
  <2> HIDE DEF A
  <2>5. Cardinality(A \ {o}) < Cardinality(A)
    BY <2>3, <2>4
  <2> QED
    BY <2>2, <2>4, <2>5 DEF A
<1> QED
  BY <1>4, <1>5

LEMMA WalkEnds ==
  ASSUME NEW store, NEW T \in SUBSET Walks, T # {},
         \A v \in T : v.queue # <<>> => Step(v, store) \in T
  PROVE  \E v \in T : v.queue = <<>>
<1> SUFFICES ASSUME \A v \in T : v.queue # <<>> PROVE FALSE
  OBVIOUS
<1> DEFINE left(u) == Cardinality(Objects \ u.excludes)
<1>1. ASSUME NEW u \in T
      PROVE  LET v == Step(u, store)
             IN  /\ v \in T /\ left(u) \in Nat /\ left(v) \in Nat
                 /\ Len(u.queue) \in Nat /\ Len(v.queue) \in Nat
                 /\ left(v) < left(u) \/ (left(v) = left(u) /\ Len(v.queue) < Len(u.queue))
  <2>1. Step(u, store) \in T
    OBVIOUS
  <2>2. Len(u.queue) \in Nat /\ Len(Step(u, store).queue) \in Nat
    BY <2>1, WalkTypes, LenProperties
  <2> QED
    BY <2>1, <2>2, StepShrinks
<1> HIDE DEF left
<1> DEFINE Lefts == {n \in Nat : \E u \in T : left(u) = n}
<1>2. Lefts \in SUBSET Nat /\ Lefts # {}
  BY <1>1
<1>3. PICK n \in Lefts : \A m \in Lefts : n <= m
  <2> HIDE DEF Lefts
  <2> QED
    BY <1>2, LeastNumber
<1> DEFINE Lens == {k \in Nat : \E u \in T : left(u) = n /\ Len(u.queue) = k}
<1>4. Lens \in SUBSET Nat /\ Lens # {}
  BY <1>1
<1>5. PICK k \in Lens : \A m \in Lens : k <= m
  <2> HIDE DEF Lens
  <2> QED
    BY <1>4, LeastNumber
<1>6. PICK u \in T : left(u) = n /\ Len(u.queue) = k
  BY <1>5
<1> DEFINE v == Step(u, store)
<1>7. /\ v \in T /\ left(u) \in Nat /\ left(v) \in Nat
      /\ Len(u.queue) \in Nat /\ Len(v.queue) \in Nat
      /\ left(v) < left(u) \/ (left(v) = left(u) /\ Len(v.queue) < Len(u.queue))
  BY <1>1
<1> HIDE DEF v
<1>8. left(v) \in Lefts
  BY <1>7
<1>9. left(v) = left(u) /\ Len(v.queue) < Len(u.queue)
  BY <1>3, <1>6, <1>7, <1>8
<1>10. Len(v.queue) \in Lens
  BY <1>6, <1>7, <1>9
<1> QED
  BY <1>5, <1>6, <1>7, <1>9, <1>10

LEMMA WalkedUnfold ==
  ASSUME NEW store, NEW w \in Walks
  PROVE  Walked(w, store) = IF w.queue = <<>> THEN w ELSE Walked(Step(w, store), store)
<1> DEFINE
    ClosedBy(T) == \A v \in T : v.queue # <<>> => Step(v, store) \in T
    After(u) == {v \in Walks : \A T \in SUBSET Walks : u \in T /\ ClosedBy(T) => v \in T}
    Ends(u) == {v \in After(u) : v.queue = <<>>}
    end == [u \in Walks |-> CHOOSE v : v \in Ends(u)]
    Solves(run) == run = [u \in Walks |-> IF u.queue = <<>> THEN u ELSE run[Step(u, store)]]
<1>1. ASSUME NEW u \in Walks
      PROVE  u \in After(u) /\ ClosedBy(After(u)) /\ After(u) \in SUBSET Walks
  <2>1. u \in After(u) /\ After(u) \in SUBSET Walks
    OBVIOUS
  <2>2. ASSUME NEW v \in After(u), v.queue # <<>> PROVE Step(v, store) \in After(u)
    <3>1. Step(v, store) \in Walks
      BY <2>2, StepFacts
    <3>2. ASSUME NEW T \in SUBSET Walks, u \in T, ClosedBy(T) PROVE Step(v, store) \in T
      BY <2>2, <3>2
    <3> QED
      BY <3>1, <3>2
  <2> QED
    BY <2>1, <2>2
<1>2. ASSUME NEW u \in Walks, u.queue = <<>>
      PROVE  end[u] = u
  <2>1. ClosedBy({u}) /\ {u} \in SUBSET Walks
    BY <1>2
  <2>2. After(u) \subseteq {u}
    BY <2>1
  <2>3. u \in After(u)
    BY <1>1
  <2> HIDE DEF After
  <2>4. Ends(u) = {u}
    BY <1>2, <2>2, <2>3
  <2> HIDE DEF Ends
  <2>5. (CHOOSE v : v \in Ends(u)) = u
    BY <2>4
  <2> QED
    BY <2>5
<1>3. ASSUME NEW u \in Walks, u.queue # <<>>
      PROVE  end[u] = end[Step(u, store)]
  <2> DEFINE s == Step(u, store)
  <2>1. s \in Walks
    BY <1>3, StepFacts
  <2>2. After(s) \subseteq After(u)
    BY <1>3
  <2>3. After(u) \subseteq {u} \cup After(s)
    <3> DEFINE T == {u} \cup After(s)
    <3>1. T \in SUBSET Walks
      OBVIOUS
    <3>2. ClosedBy(T)
      BY <1>1, <2>1
    <3> HIDE DEF ClosedBy, s
    <3> QED
      BY <3>1, <3>2
  <2> HIDE DEF After, s
  <2>4. Ends(u) = Ends(s)
    BY <1>3, <2>2, <2>3
  <2> HIDE DEF Ends
  <2>5. end[u] = CHOOSE v : v \in Ends(u)
    OBVIOUS
  <2>6. end[s] = CHOOSE v : v \in Ends(s)
    BY <2>1
  <2>7. end[u] = end[s]
    BY <2>4, <2>5, <2>6
  <2> QED
    BY <2>7 DEF s
<1>4. Solves(end)
  <2>1. \A u \in Walks : end[u] = IF u.queue = <<>> THEN u ELSE end[Step(u, store)]
    <3> HIDE DEF end
    <3> QED
      BY <1>2, <1>3
  <2>2. end = [u \in Walks |-> end[u]]
    OBVIOUS
  <2> HIDE DEF end
  <2> QED
    BY <2>1, <2>2
<1> DEFINE run == CHOOSE run : Solves(run)
<1>5. Solves(run)
  <2> HIDE DEF end, Solves
  <2> QED
    BY <1>4, Zenon
<1>6. \A u : Walked(u, store) = run[u]
  BY Zenon DEF Walked
<1> HIDE DEF run
<1>7. \A u \in Walks : run[u] = IF u.queue = <<>> THEN u ELSE run[Step(u, store)]
  BY <1>5
<1> QED
  BY <1>6, <1>7

(* What every round of a walk keeps holds where it ends. *)
LEMMA WalkInduction ==
  ASSUME NEW store, NEW T \in SUBSET Walks, NEW w \in T,
         \A v \in T : v.queue # <<>> => Step(v, store) \in T
  PROVE  Walked(w, store) \in T /\ Walked(w, store).queue = <<>>
<1> DEFINE S == {v \in T : Walked(v, store) = Walked(w, store)}
<1>1. S \in SUBSET Walks /\ w \in S
  OBVIOUS
<1>2. \A v \in S : v.queue # <<>> => Step(v, store) \in S
  BY WalkedUnfold
<1>3. PICK v \in S : v.queue = <<>>
  <2> HIDE DEF S
  <2> QED
    BY <1>1, <1>2, WalkEnds
<1>4. Walked(v, store) = v
  BY <1>3, WalkedUnfold
<1> QED
  BY <1>3, <1>4

-----------------------------------------------------------------------------
(* A walk goes from level to level. *)

LEMMA TailThen ==
  ASSUME NEW q \in Seq(Entries), q # <<>>, NEW L \in Seq(Entries)
  PROVE  LET p == Tail(q) \o L
         IN  /\ p \in Seq(Entries)
             /\ \A i \in DOMAIN p : \/ \E j \in DOMAIN q : p[i] = q[j]
                                    \/ \E j \in DOMAIN L : p[i] = L[j]
             /\ \A j \in DOMAIN q : j # 1 => \E i \in DOMAIN p : p[i] = q[j]
             /\ \A j \in DOMAIN L : \E i \in DOMAIN p : p[i] = L[j]
             /\ (/\ \A i, j \in DOMAIN q : i <= j => q[i][2] <= q[j][2]
                 /\ \A i, j \in DOMAIN L : L[i][2] <= L[j][2]
                 /\ \A i \in DOMAIN q : \A j \in DOMAIN L : q[i][2] <= L[j][2])
                => \A i, j \in DOMAIN p : i <= j => p[i][2] <= p[j][2]
<1> DEFINE p == Tail(q) \o L
           t == Tail(q)
<1>1. /\ t \in Seq(Entries) /\ Len(t) = Len(q) - 1 /\ Len(q) \in Nat /\ Len(q) > 0
      /\ \A i \in 1..Len(t) : t[i] = q[i + 1]
  BY HeadTailProperties, LenProperties
<1>2. Len(L) \in Nat /\ Len(t) \in Nat /\ DOMAIN L = 1..Len(L) /\ DOMAIN q = 1..Len(q)
  BY <1>1, LenProperties
<1> HIDE DEF t
<1>3. /\ t \o L \in Seq(Entries) /\ Len(t \o L) = Len(t) + Len(L)
      /\ \A i \in 1..(Len(t) + Len(L)) :
           (t \o L)[i] = IF i <= Len(t) THEN t[i] ELSE L[i - Len(t)]
  BY <1>1, ConcatProperties
<1>4. p = t \o L
  BY DEF t
<1> HIDE DEF p
<1>5. p \in Seq(Entries) /\ DOMAIN p = 1..(Len(q) - 1 + Len(L))
  BY <1>1, <1>2, <1>3, <1>4, LenProperties
<1>6. \A i \in DOMAIN p : i < Len(q) => i + 1 \in DOMAIN q /\ p[i] = q[i + 1]
  <2> SUFFICES ASSUME NEW i \in DOMAIN p, i < Len(q)
               PROVE  i + 1 \in DOMAIN q /\ p[i] = q[i + 1]
    OBVIOUS
  <2>1. i \in 1..Len(t) /\ i \in 1..(Len(t) + Len(L))
    BY <1>1, <1>2, <1>5
  <2> QED
    BY <1>1, <1>2, <1>3, <1>4, <2>1
<1>7. \A i \in DOMAIN p : i >= Len(q) => (i - Len(q)) + 1 \in DOMAIN L /\ p[i] = L[(i - Len(q)) + 1]
  <2> SUFFICES ASSUME NEW i \in DOMAIN p, i >= Len(q)
               PROVE  (i - Len(q)) + 1 \in DOMAIN L /\ p[i] = L[(i - Len(q)) + 1]
    OBVIOUS
  <2>1. i \in 1..(Len(t) + Len(L)) /\ ~(i <= Len(t)) /\ i - Len(t) = (i - Len(q)) + 1
    BY <1>1, <1>2, <1>5
  <2>2. p[i] = L[i - Len(t)]
    BY <1>3, <1>4, <2>1
  <2> QED
    BY <1>1, <1>2, <2>1, <2>2
<1>8. \A j \in DOMAIN q : j # 1 => j - 1 \in DOMAIN p /\ p[j - 1] = q[j]
  <2> SUFFICES ASSUME NEW j \in DOMAIN q, j # 1
               PROVE  j - 1 \in DOMAIN p /\ p[j - 1] = q[j]
    OBVIOUS
  <2>1. j - 1 \in DOMAIN p /\ j - 1 < Len(q) /\ (j - 1) + 1 = j
    BY <1>1, <1>2, <1>5
  <2> QED
    BY <1>6, <2>1
<1>9. \A j \in DOMAIN L : (Len(q) - 1) + j \in DOMAIN p /\ p[(Len(q) - 1) + j] = L[j]
  <2> SUFFICES ASSUME NEW j \in DOMAIN L
               PROVE  (Len(q) - 1) + j \in DOMAIN p /\ p[(Len(q) - 1) + j] = L[j]
    OBVIOUS
  <2>1. (Len(q) - 1) + j \in DOMAIN p /\ (Len(q) - 1) + j >= Len(q)
        /\ ((Len(q) - 1) + j - Len(q)) + 1 = j
    BY <1>1, <1>2, <1>5
  <2> QED
    BY <1>7, <2>1
<1>10. \A i \in DOMAIN p : i \in Nat /\ (i < Len(q) \/ i >= Len(q))
  BY <1>1, <1>2, <1>5
<1>11. ASSUME \A i, j \in DOMAIN q : i <= j => q[i][2] <= q[j][2],
              \A i, j \in DOMAIN L : L[i][2] <= L[j][2],
              \A i \in DOMAIN q : \A j \in DOMAIN L : q[i][2] <= L[j][2],
              NEW i \in DOMAIN p, NEW j \in DOMAIN p, i <= j
       PROVE  p[i][2] <= p[j][2]
  <2>1. CASE j < Len(q)
    <3>1. i < Len(q) /\ i + 1 <= j + 1
      BY <1>1, <1>10, <1>11, <2>1
    <3> QED
      BY <1>6, <1>11, <2>1, <3>1
  <2>2. CASE i < Len(q) /\ j >= Len(q)
    BY <1>6, <1>7, <1>11, <2>2
  <2>3. CASE i >= Len(q)
    <3>1. j >= Len(q)
      BY <1>1, <1>10, <1>11, <2>3
    <3> QED
      BY <1>7, <1>11, <2>3, <3>1
  <2> QED
    BY <1>10, <2>1, <2>2, <2>3
<1>12. \A i \in DOMAIN p : \/ \E j \in DOMAIN q : p[i] = q[j]
                           \/ \E j \in DOMAIN L : p[i] = L[j]
  BY <1>6, <1>7, <1>10
<1> QED
  BY <1>5, <1>8, <1>9, <1>11, <1>12 DEF p

Allowed(m, e) == m > 0 => e <= m

(* The queue holds objects of the level d, then of the next. *)
QueueAt(q, V, m, lev, d) ==
  /\ \A i \in DOMAIN q : /\ q[i][2] \in {d, d + 1} /\ q[i][1] \in lev[q[i][2]]
                         /\ Allowed(m, q[i][2])
  /\ \A i, j \in DOMAIN q : i <= j => q[i][2] <= q[j][2]
  /\ \A o \in lev[d] \ V : \E i \in DOMAIN q : q[i][1] = o /\ q[i][2] = d

(* V are the objects the walk has visited: all nearer than d, and what     *)
(* they refer to is visited, queued or too deep.                           *)
AtLevel(q, V, kind, m, X, lev, d) ==
  /\ d \in Nat /\ Allowed(m, d)
  /\ QueueAt(q, V, m, lev, d)
  /\ V \subseteq lev[d]
  /\ \A n \in Nat : n < d => lev[n] \subseteq V
  /\ \A o \in V : \A r \in ContentRefs(kind, o) \ X :
       \/ r \in V \/ ~Allowed(m, d + 1)
       \/ \E i \in DOMAIN q : q[i][1] = r

LEMMA NextLevel ==
  ASSUME NEW kind, NEW From, NEW X, NEW lev, Grows(kind, From, X, lev),
         NEW m \in Nat, NEW q \in Seq(Entries), q # <<>>,
         NEW V, NEW d, AtLevel(q, V, kind, m, X, lev, d)
  PROVE  AtLevel(q, V, kind, m, X, lev, q[1][2])
<1> DEFINE e == q[1][2]
<1>1. 1 \in DOMAIN q /\ DOMAIN q = 1..Len(q)
  OBVIOUS
<1>2. e \in {d, d + 1} /\ d \in Nat /\ Allowed(m, e)
  BY <1>1 DEF AtLevel, QueueAt
<1>3. CASE e = d
  BY <1>3
<1>4. CASE e = d + 1
  <2>1. \A i \in DOMAIN q : 1 <= i /\ i \in Nat
    BY <1>1
  <2>2. ASSUME NEW i \in DOMAIN q
        PROVE  q[i][2] = d + 1
    <3>1. q[1][2] <= q[i][2]
      BY <1>1, <2>1 DEF AtLevel, QueueAt
    <3>2. q[i][2] \in {d, d + 1}
      BY DEF AtLevel, QueueAt
    <3> QED
      BY <1>2, <1>4, <3>1, <3>2
  <2>3. lev[d] \subseteq V
    <3>1. d # d + 1
      BY <1>2
    <3> QED
      BY <2>2, <3>1 DEF AtLevel, QueueAt
  <2>4. V = lev[d]
    BY <2>3 DEF AtLevel
  <2>5. V \subseteq lev[e]
    BY <1>2, <1>4, <2>4, LevelFacts
  <2>6. \A n \in Nat : n < e => lev[n] \subseteq V
    <3> SUFFICES ASSUME NEW n \in Nat, n < e PROVE lev[n] \subseteq V
      OBVIOUS
    <3>1. n <= d
      BY <1>2, <1>4
    <3> QED
      BY <1>2, <2>4, <3>1, LevelFacts
  <2>7. ASSUME NEW o \in lev[e] \ V
        PROVE  \E i \in DOMAIN q : q[i][1] = o /\ q[i][2] = e
    <3>1. PICK p \in V : o \in ContentRefs(kind, p) \ X
      <4>1. lev[d + 1] = lev[d] \cup ((UNION {ContentRefs(kind, p) : p \in lev[d]}) \ X)
        BY <1>2 DEF Grows
      <4> QED
        BY <1>4, <2>4, <2>7, <4>1
    <3>2. Allowed(m, d + 1)
      BY <1>2, <1>4
    <3>3. PICK i \in DOMAIN q : q[i][1] = o
      BY <2>7, <3>1, <3>2 DEF AtLevel
    <3> QED
      BY <1>4, <2>2, <3>3
  <2>8. QueueAt(q, V, m, lev, e)
    <3>1. \A i, j \in DOMAIN q : i <= j => q[i][2] <= q[j][2]
      BY DEF AtLevel, QueueAt
    <3>2. \A i \in DOMAIN q : q[i][2] = e
      BY <1>4, <2>2
    <3>3. \A i \in DOMAIN q : q[i][1] \in lev[q[i][2]] /\ Allowed(m, q[i][2])
      BY DEF AtLevel, QueueAt
    <3> HIDE DEF e
    <3> QED
      BY <2>7, <3>1, <3>2, <3>3 DEF QueueAt
  <2>9. \A o \in V : \A r \in ContentRefs(kind, o) \ X :
          r \in V \/ \E i \in DOMAIN q : q[i][1] = r
    BY <1>2, <1>4 DEF AtLevel
  <2>10. e \in Nat
    BY <1>2, <1>4
  <2> HIDE DEF e
  <2> QED
    BY <1>2, <2>5, <2>6, <2>8, <2>9, <2>10 DEF AtLevel, e
<1> QED
  BY <1>2, <1>3, <1>4

LEMMA DropAtLevel ==
  ASSUME NEW kind, NEW m, NEW X, NEW lev, NEW V, NEW q \in Seq(Entries), q # <<>>,
         AtLevel(q, V, kind, m, X, lev, q[1][2]), q[1][1] \in V
  PROVE  AtLevel(Tail(q), V, kind, m, X, lev, q[1][2])
<1> DEFINE L == <<>>
           p == Tail(q) \o L
           d == q[1][2]
           o == q[1][1]
<1>1. Tail(q) \in Seq(Entries) /\ L \in Seq(Entries) /\ DOMAIN L = {}
  BY HeadTailProperties
<1>2. p = Tail(q)
  BY <1>1, ConcatEmptySeq
<1> HIDE DEF L
<1>3. /\ \A i \in DOMAIN p : \E j \in DOMAIN q : p[i] = q[j]
      /\ \A j \in DOMAIN q : j # 1 => \E i \in DOMAIN p : p[i] = q[j]
  <2>1. /\ \A i \in DOMAIN p : \/ \E j \in DOMAIN q : p[i] = q[j]
                               \/ \E j \in DOMAIN L : p[i] = L[j]
        /\ \A j \in DOMAIN q : j # 1 => \E i \in DOMAIN p : p[i] = q[j]
    BY <1>1, TailThen
  <2> HIDE DEF p
  <2> QED
    BY <1>1, <2>1
<1>4. \A i, j \in DOMAIN q : i <= j => q[i][2] <= q[j][2]
  BY DEF AtLevel, QueueAt
<1>5. \A i, j \in DOMAIN p : i <= j => p[i][2] <= p[j][2]
  BY <1>1, <1>4, TailThen
<1> HIDE DEF p, d, o
<1>6. AtLevel(q, V, kind, m, X, lev, d) /\ o \in V /\ q[1][2] = d /\ q[1][1] = o
  BY DEF d, o
<1>7. ASSUME NEW i \in DOMAIN p
      PROVE  p[i][2] \in {d, d + 1} /\ p[i][1] \in lev[p[i][2]] /\ Allowed(m, p[i][2])
  <2>1. PICK j \in DOMAIN q : p[i] = q[j]
    BY <1>3
  <2> QED
    BY <1>6, <2>1 DEF AtLevel, QueueAt
<1>8. ASSUME NEW x \in lev[d] \ V
      PROVE  \E i \in DOMAIN p : p[i][1] = x /\ p[i][2] = d
  <2>1. PICK j \in DOMAIN q : q[j][1] = x /\ q[j][2] = d
    BY <1>6 DEF AtLevel, QueueAt
  <2>2. j # 1
    BY <1>6, <2>1
  <2> QED
    BY <1>3, <2>1, <2>2
<1>9. ASSUME NEW x \in V, NEW r \in ContentRefs(kind, x) \ X,
             r \notin V, Allowed(m, d + 1)
      PROVE  \E i \in DOMAIN p : p[i][1] = r
  <2>1. PICK j \in DOMAIN q : q[j][1] = r
    BY <1>6, <1>9 DEF AtLevel
  <2>2. j # 1
    BY <1>6, <1>9, <2>1
  <2> QED
    BY <1>3, <2>1, <2>2
<1>10. QueueAt(p, V, m, lev, d)
  BY <1>5, <1>7, <1>8 DEF QueueAt
<1>11. AtLevel(p, V, kind, m, X, lev, d)
  BY <1>6, <1>9, <1>10 DEF AtLevel
<1> QED
  BY <1>2, <1>11 DEF d

LEMMA VisitAtLevel ==
  ASSUME NEW kind, NEW From, NEW X, NEW lev, Grows(kind, From, X, lev),
         NEW m \in Nat, NEW V, NEW q \in Seq(Entries), q # <<>>, NEW L, NEW excludes,
         AtLevel(q, V, kind, m, X, lev, q[1][2]),
         excludes = X \cup V,
         Queues(L, ContentRefs(kind, q[1][1]), excludes \cup {q[1][1]}, m, q[1][2] + 1)
  PROVE  AtLevel(Tail(q) \o L, V \cup {q[1][1]}, kind, m, X, lev, q[1][2])
<1> DEFINE p == Tail(q) \o L
           d == q[1][2]
           o == q[1][1]
           W == V \cup {o}
<1>0. d \in Nat /\ 1 \in DOMAIN q
  BY DEF AtLevel
<1>1. L \in Seq(Entries)
  BY DEF Queues
<1>2. /\ \A i \in DOMAIN p : \/ \E j \in DOMAIN q : p[i] = q[j]
                             \/ \E j \in DOMAIN L : p[i] = L[j]
      /\ \A j \in DOMAIN q : j # 1 => \E i \in DOMAIN p : p[i] = q[j]
      /\ \A j \in DOMAIN L : \E i \in DOMAIN p : p[i] = L[j]
  BY <1>1, TailThen
<1>3. /\ \A i, j \in DOMAIN q : i <= j => q[i][2] <= q[j][2]
      /\ \A i \in DOMAIN q : q[i][2] \in {d, d + 1}
      /\ \A i \in DOMAIN L : L[i][2] = d + 1
  BY DEF AtLevel, QueueAt, Queues
<1>4. \A i, j \in DOMAIN p : i <= j => p[i][2] <= p[j][2]
  <2>1. \A i, j \in DOMAIN L : L[i][2] <= L[j][2]
    BY <1>0, <1>3
  <2>2. \A i \in DOMAIN q : \A j \in DOMAIN L : q[i][2] <= L[j][2]
    <3> HIDE DEF d
    <3> QED
      BY <1>0, <1>3
  <2> QED
    BY <1>1, <1>3, <2>1, <2>2, TailThen
<1> HIDE DEF p, d, o
<1>5. /\ AtLevel(q, V, kind, m, X, lev, d) /\ q[1][2] = d /\ q[1][1] = o
      /\ Queues(L, ContentRefs(kind, o), excludes \cup {o}, m, d + 1)
  BY DEF d, o
<1>6. o \in lev[d] /\ Allowed(m, d)
  BY <1>0, <1>5 DEF AtLevel, QueueAt
<1>7. ASSUME NEW i \in DOMAIN p
      PROVE  p[i][2] \in {d, d + 1} /\ p[i][1] \in lev[p[i][2]] /\ Allowed(m, p[i][2])
  <2>1. CASE \E j \in DOMAIN q : p[i] = q[j]
    BY <1>5, <2>1 DEF AtLevel, QueueAt
  <2>2. CASE \E j \in DOMAIN L : p[i] = L[j]
    <3>1. PICK j \in DOMAIN L : p[i] = L[j]
      BY <2>2
    <3>2. L[j][2] = d + 1 /\ L[j][1] \in ContentRefs(kind, o) \ X /\ Allowed(m, d + 1)
      BY <1>5 DEF Queues, Allowed
    <3>3. L[j][1] \in lev[d + 1]
      <4>1. PICK r : r = L[j][1]
        OBVIOUS
      <4>2. r \in ContentRefs(kind, o) \ X /\ o \in lev[d] /\ d \in Nat
        BY <1>0, <1>6, <3>2, <4>1
      <4>3. r \in lev[d + 1]
        BY <4>2, LevelFacts
      <4> QED
        BY <4>1, <4>3
    <3> QED
      BY <3>1, <3>2, <3>3
  <2> QED
    BY <1>2, <2>1, <2>2
<1>8. ASSUME NEW x \in lev[d] \ W
      PROVE  \E i \in DOMAIN p : p[i][1] = x /\ p[i][2] = d
  <2>1. PICK j \in DOMAIN q : q[j][1] = x /\ q[j][2] = d
    BY <1>5 DEF AtLevel, QueueAt
  <2>2. j # 1
    BY <1>5, <2>1
  <2> QED
    BY <1>2, <2>1, <2>2
<1>9. ASSUME NEW x \in W, NEW r \in ContentRefs(kind, x) \ X,
             r \notin W, Allowed(m, d + 1)
      PROVE  \E i \in DOMAIN p : p[i][1] = r
  <2>1. CASE x = o
    <3>1. r \in ContentRefs(kind, o) \ (excludes \cup {o})
      BY <1>9, <2>1
    <3>2. ~(m > 0 /\ d + 1 > m)
      BY <1>0, <1>9 DEF Allowed
    <3>3. PICK j \in DOMAIN L : L[j][1] = r
      BY <1>5, <3>1, <3>2 DEF Queues
    <3> QED
      BY <1>2, <3>3
  <2>2. CASE x \in V
    <3>1. PICK j \in DOMAIN q : q[j][1] = r
      BY <1>5, <1>9, <2>2 DEF AtLevel
    <3>2. j # 1
      BY <1>5, <1>9, <3>1
    <3> QED
      BY <1>2, <3>1, <3>2
  <2> QED
    BY <2>1, <2>2
<1>10. QueueAt(p, W, m, lev, d)
  BY <1>4, <1>7, <1>8 DEF QueueAt
<1>11. W \subseteq lev[d] /\ \A n \in Nat : n < d => lev[n] \subseteq W
  BY <1>5, <1>6 DEF AtLevel
<1>12. AtLevel(p, W, kind, m, X, lev, d)
  <2> HIDE DEF W
  <2> QED
    BY <1>0, <1>6, <1>9, <1>10, <1>11 DEF AtLevel
<1> QED
  BY <1>12 DEF p, d, o

(* What has been returned: every visited object of the kind, once, with    *)
(* the number of its level.                                                *)
OutExact(out, V, kind, lev) ==
  /\ \A i \in DOMAIN out :
       /\ out[i][1] \in V /\ out[i][2] \in Nat /\ out[i][1] \in lev[out[i][2]]
       /\ \A n \in Nat : n < out[i][2] => out[i][1] \notin lev[n]
       /\ kind = "all" \/ out[i][1] \in Commits
       /\ \A j \in DOMAIN out : out[i][1] = out[j][1] => i = j
  /\ \A o \in V : (kind = "all" \/ o \in Commits) => \E i \in DOMAIN out : out[i][1] = o

LEMMA AppendOut ==
  ASSUME NEW out \in Seq(Entries), NEW V, NEW kind, NEW lev, OutExact(out, V, kind, lev),
         NEW o \in Objects, NEW d \in Nat, o \notin V, o \in lev[d],
         \A n \in Nat : n < d => o \notin lev[n]
  PROVE  OutExact(IF kind = "all" \/ o \in Commits THEN Append(out, <<o, d>>) ELSE out,
                  V \cup {o}, kind, lev)
<1>1. CASE ~(kind = "all" \/ o \in Commits)
  BY <1>1 DEF OutExact
<1>2. CASE kind = "all" \/ o \in Commits
  <2> DEFINE entry == <<o, d>>
             new == Append(out, entry)
             W == V \cup {o}
  <2>1. entry \in Entries /\ entry[1] = o /\ entry[2] = d
    BY DEF Entries
  <2> HIDE DEF entry
  <2>2. /\ Len(out) \in Nat /\ DOMAIN out = 1..Len(out) /\ DOMAIN new = 1..(Len(out) + 1)
        /\ new[Len(out) + 1] = entry
        /\ \A i \in DOMAIN out : new[i] = out[i]
    BY <2>1, AppendProperties, LenProperties
  <2> HIDE DEF new
  <2>3. \A i \in DOMAIN new : i \in DOMAIN out \/ i = Len(out) + 1
    BY <2>2
  <2>4. \A i \in DOMAIN out : out[i][1] # o
    BY DEF OutExact
  <2>5. ASSUME NEW i \in DOMAIN new
        PROVE  /\ new[i][1] \in W /\ new[i][2] \in Nat /\ new[i][1] \in lev[new[i][2]]
               /\ \A n \in Nat : n < new[i][2] => new[i][1] \notin lev[n]
               /\ kind = "all" \/ new[i][1] \in Commits
               /\ \A j \in DOMAIN new : new[i][1] = new[j][1] => i = j
    <3>1. CASE i \in DOMAIN out
      <4>1. \A j \in DOMAIN new : new[i][1] = new[j][1] => i = j
        BY <2>1, <2>2, <2>3, <2>4, <3>1 DEF OutExact
      <4> QED
        BY <2>2, <3>1, <4>1 DEF OutExact
    <3>2. CASE i = Len(out) + 1
      <4>1. \A j \in DOMAIN new : new[i][1] = new[j][1] => i = j
        BY <2>1, <2>2, <2>3, <2>4, <3>2
      <4> QED
        BY <1>2, <2>1, <2>2, <3>2, <4>1
    <3> QED
      BY <2>3, <3>1, <3>2
  <2>6. ASSUME NEW x \in W, kind = "all" \/ x \in Commits
        PROVE  \E i \in DOMAIN new : new[i][1] = x
    <3>1. CASE x = o
      <4>1. Len(out) + 1 \in DOMAIN new
        BY <2>2
      <4> QED
        BY <2>1, <2>2, <3>1, <4>1
    <3>2. CASE x \in V
      <4>1. PICK i \in DOMAIN out : out[i][1] = x
        BY <2>6, <3>2 DEF OutExact
      <4>2. i \in DOMAIN new
        BY <2>2
      <4> QED
        BY <2>2, <4>1, <4>2
    <3> QED
      BY <3>1, <3>2
  <2>7. OutExact(new, W, kind, lev)
    BY <2>5, <2>6 DEF OutExact
  <2> QED
    BY <1>2, <2>7 DEF new, entry
<1> QED
  BY <1>1, <1>2

WalkInv(w, kind, m, X, store, lev) ==
  LET V == w.excludes \ X
  IN  /\ w.kind = kind /\ w.maxDepth = m
      /\ X \subseteq w.excludes /\ V \subseteq store
      /\ OutExact(w.out, V, kind, lev)
      /\ w.failed => w.queue = <<>> /\ \E e \in Nat : Allowed(m, e) /\ ~(lev[e] \subseteq store)
      /\ ~w.failed => \E d : AtLevel(w.queue, V, kind, m, X, lev, d)

LEMMA WalkKeeps ==
  ASSUME NEW kind, NEW From, NEW X, NEW lev, Grows(kind, From, X, lev),
         NEW m \in Nat, NEW store, NEW w \in Walks, w.queue # <<>>,
         WalkInv(w, kind, m, X, store, lev)
  PROVE  WalkInv(Step(w, store), kind, m, X, store, lev)
<1> DEFINE q == w.queue
           o == w.queue[1][1]
           d == w.queue[1][2]
           v == Step(w, store)
           V == w.excludes \ X
<1>1. /\ w.kind = kind /\ w.maxDepth = m /\ ~w.failed
      /\ X \subseteq w.excludes /\ V \subseteq store
      /\ OutExact(w.out, V, kind, lev)
  BY DEF WalkInv
<1>2. PICK c : AtLevel(q, V, kind, m, X, lev, c)
  BY <1>1 DEF WalkInv
<1>3. q \in Seq(Entries) /\ w.out \in Seq(Entries) /\ 1 \in DOMAIN q
  BY WalkTypes
<1> HIDE DEF V
<1>4. AtLevel(q, V, kind, m, X, lev, q[1][2])
  <2> HIDE DEF q
  <2> QED
    BY <1>2, <1>3, NextLevel DEF q
<1>5. d \in Nat /\ Allowed(m, d) /\ o \in lev[d] /\ \A n \in Nat : n < d => lev[n] \subseteq V
  BY <1>3, <1>4 DEF AtLevel, QueueAt
<1>6. o \notin X /\ o \in Objects
  BY <1>5, LevelFacts
<1>7. v.kind = kind /\ v.maxDepth = m
  BY <1>1, StepFacts
<1>8. CASE o \in w.excludes
  <2>1. v.excludes = w.excludes /\ v.out = w.out /\ ~v.failed /\ v.queue = Tail(q)
    BY <1>1, <1>8, StepFacts
  <2>2. o \in V
    BY <1>6, <1>8 DEF V
  <2>3. AtLevel(Tail(q), V, kind, m, X, lev, d)
    <3> HIDE DEF q
    <3>1. q[1][1] \in V /\ q # <<>>
      BY <2>2 DEF q
    <3>2. AtLevel(Tail(q), V, kind, m, X, lev, q[1][2])
      BY <1>3, <1>4, <3>1, DropAtLevel
    <3> QED
      BY <3>2 DEF q
  <2> HIDE DEF v, q
  <2>4. AtLevel(v.queue, V, kind, m, X, lev, d)
    BY <2>1, <2>3
  <2> HIDE DEF d
  <2>5. v.excludes \ X = V
    BY <2>1 DEF V
  <2>6. WalkInv(v, kind, m, X, store, lev)
    BY <1>1, <1>7, <2>1, <2>4, <2>5 DEF WalkInv
  <2> QED
    BY <2>6 DEF v
<1>9. CASE o \notin w.excludes /\ o \notin store
  <2>1. v.excludes = w.excludes /\ v.out = w.out /\ v.failed /\ v.queue = <<>>
    <3>1. w \in Walks /\ w.queue # <<>> /\ v = Step(w, store) /\ o = w.queue[1][1]
      OBVIOUS
    <3> HIDE DEF v, o
    <3> QED
      BY <1>9, <3>1, StepFacts
  <2>2. ~(lev[d] \subseteq store)
    BY <1>5, <1>9
  <2> HIDE DEF v, d
  <2>3. v.excludes \ X = V
    BY <2>1 DEF V
  <2>4. WalkInv(v, kind, m, X, store, lev)
    BY <1>1, <1>5, <1>7, <2>1, <2>2, <2>3 DEF WalkInv
  <2> QED
    BY <2>4 DEF v
<1>10. CASE o \notin w.excludes /\ o \in store
  <2> DEFINE W == V \cup {o}
  <2>1. /\ v.excludes = w.excludes \cup {o} /\ ~v.failed
        /\ v.out = IF kind = "all" \/ o \in Commits THEN Append(w.out, <<o, d>>) ELSE w.out
    BY <1>1, <1>10, StepFacts
  <2>2. PICK L : /\ Queues(L, ContentRefs(kind, o), w.excludes \cup {o}, m, d + 1)
                 /\ v.queue = Tail(q) \o L
    <3>1. \E L : /\ Queues(L, ContentRefs(w.kind, o), w.excludes \cup {o}, w.maxDepth, d + 1)
                 /\ v.queue = Tail(q) \o L
      BY <1>10, StepFacts
    <3> QED
      BY <1>1, <3>1
  <2>3. w.excludes = X \cup V /\ o \notin V
    BY <1>1, <1>10 DEF V
  <2>4. AtLevel(Tail(q) \o L, W, kind, m, X, lev, d)
    <3> DEFINE E == w.excludes
    <3> HIDE DEF q, E
    <3>1. E = X \cup V /\ q # <<>>
      BY <2>3 DEF E, q
    <3>2. Queues(L, ContentRefs(kind, q[1][1]), E \cup {q[1][1]}, m, q[1][2] + 1)
      BY <2>2 DEF q, E
    <3>3. AtLevel(Tail(q) \o L, V \cup {q[1][1]}, kind, m, X, lev, q[1][2])
      BY <1>3, <1>4, <3>1, <3>2, VisitAtLevel
    <3> QED
      BY <3>3 DEF q
  <2>5. \A n \in Nat : n < d => o \notin lev[n]
    BY <1>5, <2>3
  <2>6. OutExact(v.out, W, kind, lev)
    <3> HIDE DEF o, d
    <3>1. OutExact(IF kind = "all" \/ o \in Commits THEN Append(w.out, <<o, d>>) ELSE w.out,
                   W, kind, lev)
      BY <1>1, <1>3, <1>5, <1>6, <2>3, <2>5, AppendOut
    <3> QED
      BY <2>1, <3>1
  <2>7. v.excludes \ X = W /\ X \subseteq v.excludes /\ W \subseteq store
    BY <1>1, <1>6, <1>10, <2>1 DEF V
  <2> HIDE DEF W, d, v, q
  <2>8. AtLevel(v.queue, W, kind, m, X, lev, d)
    BY <2>2, <2>4
  <2>9. WalkInv(v, kind, m, X, store, lev)
    BY <1>7, <2>1, <2>6, <2>7, <2>8 DEF WalkInv
  <2> QED
    BY <2>9 DEF v
<1> QED
  BY <1>8, <1>9, <1>10

Deepest(m) == IF m = 0 THEN Cardinality(Objects) ELSE m

(* A walk that has not begun, and what becomes of it.                      *)
Fresh(start, kind, m, X) ==
  /\ start \in Walks /\ start.kind = kind /\ start.maxDepth = m
  /\ start.queue = <<>> /\ start.excludes = X /\ start.out = <<>> /\ ~start.failed

WalkGives(v, kind, m, X, store, lev) ==
  /\ v \in Walks /\ X \subseteq v.excludes /\ v.excludes \ X \subseteq store
  /\ OutExact(v.out, v.excludes \ X, kind, lev)
  /\ v.failed <=> ~(lev[Deepest(m)] \subseteq store)
  /\ ~v.failed => v.excludes \ X = lev[Deepest(m)]

(* What a walk returns: it fails if an object it would visit is missing,   *)
(* and otherwise visits those of the deepest level.                        *)
LEMMA WalkResult ==
  ASSUME NEW kind, NEW From \in SUBSET Objects, NEW X \in SUBSET Objects,
         NEW lev, Grows(kind, From, X, lev), NEW m \in Nat, NEW store,
         NEW start, Fresh(start, kind, m, X)
  PROVE  WalkGives(Walked(IncludeAll(start, From, 0), store), kind, m, X, store, lev)
<1> SUFFICES ASSUME start \in Walks, start.kind = kind, start.maxDepth = m,
                    start.queue = <<>>, start.excludes = X, start.out = <<>>,
                    ~start.failed,
                    NEW v, v = Walked(IncludeAll(start, From, 0), store)
             PROVE  /\ v \in Walks /\ X \subseteq v.excludes /\ v.excludes \ X \subseteq store
                    /\ OutExact(v.out, v.excludes \ X, kind, lev)
                    /\ v.failed <=> ~(lev[Deepest(m)] \subseteq store)
                    /\ ~v.failed => v.excludes \ X = lev[Deepest(m)]
  BY DEF Fresh, WalkGives
<1> DEFINE w == IncludeAll(start, From, 0)
           T == {u \in Walks : WalkInv(u, kind, m, X, store, lev)}
<1>1. w \in T
  <2>1. /\ w \in Walks /\ w.kind = kind /\ w.maxDepth = m /\ w.out = <<>>
        /\ w.excludes = X /\ ~w.failed
        /\ \E L : Queues(L, From, X, m, 0) /\ w.queue = <<>> \o L
    <3>1. 0 \in Nat
      OBVIOUS
    <3>2. /\ w \in Walks /\ w.kind = start.kind /\ w.maxDepth = start.maxDepth
          /\ w.out = start.out /\ w.excludes = start.excludes /\ w.failed = start.failed
          /\ \E L : /\ Queues(L, From, start.excludes, start.maxDepth, 0)
                    /\ w.queue = start.queue \o L
      BY <3>1, IncludeAllFacts
    <3> HIDE DEF w
    <3> QED
      BY <3>2
  <2> HIDE DEF w
  <2>2. PICK q : Queues(q, From, X, m, 0) /\ w.queue = q
    <3>1. PICK L : Queues(L, From, X, m, 0) /\ w.queue = <<>> \o L
      BY <2>1
    <3>2. L \in Seq(Entries)
      BY <3>1 DEF Queues
    <3>3. <<>> \o L = L
      BY <3>2, ConcatEmptySeq
    <3> QED
      BY <3>1, <3>3
  <2>3. lev[0] = From \ X
    BY DEF Grows
  <2>4. \A i \in DOMAIN q : q[i][1] \in lev[0] /\ q[i][2] = 0
    BY <2>2, <2>3 DEF Queues
  <2>5. \A o \in lev[0] : \E i \in DOMAIN q : q[i][1] = o /\ q[i][2] = 0
    BY <2>2, <2>3, <2>4 DEF Queues
  <2>6. Allowed(m, 0)
    BY DEF Allowed
  <2>7. QueueAt(q, {}, m, lev, 0)
    BY <2>4, <2>5, <2>6 DEF QueueAt
  <2>8. AtLevel(q, {}, kind, m, X, lev, 0)
    BY <2>6, <2>7 DEF AtLevel
  <2>9. OutExact(<<>>, {}, kind, lev)
    BY DEF OutExact
  <2>10. w.excludes \ X = {} /\ X \subseteq w.excludes /\ AtLevel(w.queue, {}, kind, m, X, lev, 0)
    BY <2>1, <2>2, <2>8
  <2>11. WalkInv(w, kind, m, X, store, lev)
    BY <2>1, <2>9, <2>10 DEF WalkInv
  <2> QED
    BY <2>1, <2>11
<1>2. \A u \in T : u.queue # <<>> => Step(u, store) \in T
  BY WalkKeeps, StepFacts
<1>3. v \in T /\ v.queue = <<>>
  <2>1. T \in SUBSET Walks
    OBVIOUS
  <2>2. v = Walked(w, store)
    OBVIOUS
  <2> HIDE DEF T, w
  <2>3. Walked(w, store) \in T /\ Walked(w, store).queue = <<>>
    BY <1>1, <1>2, <2>1, WalkInduction
  <2> QED
    BY <2>2, <2>3
<1> DEFINE V == v.excludes \ X
<1>4. /\ v \in Walks /\ X \subseteq v.excludes /\ V \subseteq store
      /\ OutExact(v.out, V, kind, lev)
  BY <1>3 DEF WalkInv
<1> HIDE DEF V
<1>5. CASE v.failed
  <2>1. PICK e \in Nat : Allowed(m, e) /\ ~(lev[e] \subseteq store)
    BY <1>3, <1>5 DEF WalkInv
  <2>2. lev[e] \subseteq lev[Deepest(m)]
    <3>1. CASE m = 0
      BY <3>1, LevelFacts DEF Deepest
    <3>2. CASE m # 0
      <4>1. e <= m
        BY <2>1, <3>2 DEF Allowed
      <4> QED
        BY <3>2, <4>1, LevelFacts DEF Deepest
    <3> QED
      BY <3>1, <3>2
  <2> QED
    BY <1>4, <1>5, <2>1, <2>2 DEF V
<1>6. CASE ~v.failed
  <2>1. PICK d : AtLevel(<<>>, V, kind, m, X, lev, d)
    BY <1>3, <1>6 DEF WalkInv, V
  <2>2. d \in Nat /\ Allowed(m, d) /\ V = lev[d]
    <3>1. DOMAIN <<>> = {}
      OBVIOUS
    <3>2. d \in Nat /\ Allowed(m, d) /\ V \subseteq lev[d]
      BY <2>1 DEF AtLevel
    <3>3. \A o \in lev[d] \ V : \E i \in DOMAIN <<>> : TRUE
      BY <2>1 DEF AtLevel, QueueAt
    <3> QED
      BY <3>1, <3>2, <3>3
  <2>3. Allowed(m, d + 1) => \A n \in Nat : d <= n => lev[n] = lev[d]
    <3> SUFFICES ASSUME Allowed(m, d + 1) PROVE \A n \in Nat : d <= n => lev[n] = lev[d]
      OBVIOUS
    <3>1. \A o \in V : \A r \in ContentRefs(kind, o) \ X : r \in V
      BY <2>1 DEF AtLevel
    <3>2. lev[d + 1] = lev[d] \cup ((UNION {ContentRefs(kind, o) : o \in lev[d]}) \ X)
      BY <2>2 DEF Grows
    <3>3. lev[d + 1] = lev[d]
      BY <2>2, <3>1, <3>2
    <3>4. \A n \in Nat : lev[n + 1] = lev[n] => lev[(n + 1) + 1] = lev[n + 1]
      BY LevelFacts
    <3> QED
      BY <2>2, <3>3, <3>4, Stays
  <2>4. V = lev[Deepest(m)]
    <3>1. CASE m = 0
      <4> DEFINE N == Cardinality(Objects)
      <4>1. N \in Nat /\ lev[d] \subseteq lev[N] /\ \A i, j \in Nat : i <= j => lev[i] \subseteq lev[j]
        BY <2>2, LevelFacts
      <4>2. Allowed(m, d + 1)
        BY <3>1 DEF Allowed
      <4> HIDE DEF N
      <4>3. lev[N] = lev[d]
        <5>1. N <= d \/ d <= N
          BY <2>2, <4>1
        <5> QED
          BY <2>2, <2>3, <4>1, <4>2, <5>1
      <4> QED
        BY <2>2, <3>1, <4>3 DEF Deepest, N
    <3>2. CASE m # 0
      <4>1. d <= m
        BY <2>2, <3>2 DEF Allowed
      <4>2. d = m \/ Allowed(m, d + 1)
        BY <2>2, <4>1 DEF Allowed
      <4> QED
        BY <2>2, <2>3, <3>2, <4>1, <4>2 DEF Deepest
    <3> QED
      BY <3>1, <3>2
  <2> QED
    BY <1>4, <1>6, <2>4 DEF V
<1> QED
  BY <1>5, <1>6

LEMMA NewIteratorFacts ==
  ASSUME NEW kind \in {"all", "commit"}, NEW m \in Nat, NEW X \in SUBSET Objects
  PROVE  Fresh([NewObjectIterator(kind, m) EXCEPT !.excludes = X], kind, m, X)
<1>1. <<>> \in Seq(Objects \X Nat)
  OBVIOUS
<1> QED
  BY <1>1 DEF NewObjectIterator, Walks, Fresh

LEMMA NewIteratorIsFresh ==
  ASSUME NEW kind \in {"all", "commit"}, NEW m \in Nat
  PROVE  Fresh(NewObjectIterator(kind, m), kind, m, {})
<1>1. <<>> \in Seq(Objects \X Nat)
  OBVIOUS
<1> QED
  BY <1>1 DEF NewObjectIterator, Walks, Fresh

(* Every walk is exact, whatever it starts from, avoids and finds.         *)
LEMMA EveryWalkIsExact ==
  ASSUME NEW kind \in {"all", "commit"}, NEW m \in Nat,
         NEW From \in SUBSET Objects, NEW Without \in SUBSET Objects, NEW store
  PROVE  WalkIsExact(kind, m, From, Without, store)
<1> DEFINE deepest == IF m = 0 THEN Cardinality(Objects) ELSE m
<1>1. PICK X \in SUBSET Objects : X = UNION {ExcludedBy(kind, o) : o \in Without}
  <2> SUFFICES ASSUME NEW o \in Without PROVE ExcludedBy(kind, o) \subseteq Objects
    OBVIOUS
  <2>1. Links[o] \subseteq Objects /\ (o \in Commits => Parents[o] \subseteq Objects)
    BY GraphTypes, ObjectGraphAssumption
  <2>2. \A t \in Objects : Reach[t] \subseteq Objects
    BY DEF Reach, Closure
  <2> QED
    BY <2>1, <2>2 DEF ExcludedBy
<1> DEFINE within == Within(kind, From, X, deepest)
           returned == IF kind = "all" THEN within[deepest] ELSE within[deepest] \cap Commits
<1>2. PICK start : /\ start = [NewObjectIterator(kind, m) EXCEPT !.excludes = X]
                   /\ start = Exclude(NewObjectIterator(kind, m), Without)
  BY <1>1 DEF Exclude, NewObjectIterator
<1>3. PICK lev : Grows(kind, From, X, lev)
  BY LevelsExist
<1>4. deepest \in Nat /\ deepest = Deepest(m)
  BY FS_CardinalityType, ObjectIteratorAssumption DEF Deepest
<1>5. DOMAIN within = 0..deepest /\ \A n \in 0..deepest : within[n] = lev[n]
  <2> HIDE DEF deepest
  <2> QED
    BY <1>3, <1>4, WithinIsLevels
<1>6. Fresh(start, kind, m, X)
  BY <1>1, <1>2, NewIteratorFacts
<1>13. PICK v : v = Walked(IncludeAll(start, From, 0), store)
  OBVIOUS
<1>7. /\ v \in Walks
      /\ OutExact(v.out, v.excludes \ X, kind, lev)
      /\ v.failed <=> ~(lev[Deepest(m)] \subseteq store)
      /\ ~v.failed => v.excludes \ X = lev[Deepest(m)]
  <2> HIDE DEF within, deepest
  <2>1. WalkGives(v, kind, m, X, store, lev)
    BY <1>1, <1>3, <1>6, <1>13, WalkResult, ZenonT(30)
  <2> QED
    BY <2>1 DEF WalkGives
<1> HIDE DEF deepest, within
<1>8. deepest \in 0..deepest
  BY <1>4
<1>9. v.failed <=> ~(within[deepest] \subseteq store)
  BY <1>4, <1>5, <1>7, <1>8
<1>10. ~v.failed => Returned(v) = returned
  <2> SUFFICES ASSUME ~v.failed PROVE \A o : o \in Returned(v) <=> o \in returned
    OBVIOUS
  <2>1. v.excludes \ X = within[deepest]
    BY <1>4, <1>5, <1>7, <1>8
  <2>2. \A o : o \in returned <=> o \in within[deepest] /\ (kind = "all" \/ o \in Commits)
    OBVIOUS
  <2>3. \A o : o \in Returned(v) <=> \E i \in DOMAIN v.out : v.out[i][1] = o
    BY DEF Returned
  <2> HIDE DEF returned
  <2> QED
    BY <1>7, <2>1, <2>2, <2>3 DEF OutExact
<1>11. ASSUME NEW i \in DOMAIN v.out
       PROVE  /\ \A j \in DOMAIN v.out : v.out[i][1] = v.out[j][1] => i = j
              /\ \A n \in DOMAIN within : v.out[i][1] \in within[n] <=> n >= v.out[i][2]
  <2>1. /\ v.out[i][2] \in Nat /\ v.out[i][1] \in lev[v.out[i][2]]
        /\ \A n \in Nat : n < v.out[i][2] => v.out[i][1] \notin lev[n]
        /\ \A j \in DOMAIN v.out : v.out[i][1] = v.out[j][1] => i = j
    BY <1>7 DEF OutExact
  <2>2. ASSUME NEW n \in DOMAIN within
        PROVE  v.out[i][1] \in within[n] <=> n >= v.out[i][2]
    <3>1. n \in Nat /\ within[n] = lev[n]
      BY <1>4, <1>5
    <3>2. n >= v.out[i][2] => lev[v.out[i][2]] \subseteq lev[n]
      BY <1>3, <2>1, <3>1, LevelFacts
    <3>3. n >= v.out[i][2] \/ n < v.out[i][2]
      BY <2>1, <3>1
    <3> QED
      BY <2>1, <3>1, <3>2, <3>3
  <2> QED
    BY <2>1, <2>2
<1>12. Exactly(v, kind, within, deepest, store)
  BY <1>9, <1>10, <1>11 DEF Exactly
<1> QED
  BY <1>1, <1>2, <1>12, <1>13 DEF WalkIsExact, within, deepest

-----------------------------------------------------------------------------
(* Walks over the store, which is closed, and the histories they return.   *)

(* What holds the start and what each member refers to holds every level.  *)
LEMMA LevelsStayIn ==
  ASSUME NEW kind, NEW From, NEW X, NEW lev, Grows(kind, From, X, lev),
         NEW T, From \subseteq T, \A o \in T : ContentRefs(kind, o) \subseteq T
  PROVE  \A n \in Nat : lev[n] \subseteq T
<1> DEFINE S == {n \in Nat : lev[n] \subseteq T}
<1>1. S \in SUBSET Nat /\ 0 \in S
  BY DEF Grows
<1>2. ASSUME NEW n \in S
      PROVE  n + 1 \in S
  <2>1. lev[n + 1] = lev[n] \cup ((UNION {ContentRefs(kind, o) : o \in lev[n]}) \ X)
    BY DEF Grows
  <2> QED
    BY <2>1
<1>3. S = Nat
  <2> HIDE DEF S
  <2> QED
    BY <1>1, <1>2, Climb
<1> QED
  BY <1>3

(* After as many levels as there are objects nothing is added.             *)
LEMMA Saturated ==
  ASSUME NEW kind, NEW From, NEW X, NEW lev, Grows(kind, From, X, lev)
  PROVE  /\ Deepest(0) \in Nat
         /\ From \ X \subseteq lev[Deepest(0)] /\ lev[Deepest(0)] \subseteq Objects
         /\ \A o \in lev[Deepest(0)] : ContentRefs(kind, o) \ X \subseteq lev[Deepest(0)]
<1> DEFINE N == Deepest(0)
<1>1. N = Cardinality(Objects)
  BY DEF Deepest
<1>2. N \in Nat /\ \A n \in Nat : lev[n] \subseteq Objects /\ lev[n] \subseteq lev[N]
  BY <1>1, LevelFacts
<1>3. \A o \in lev[N] : \A r \in ContentRefs(kind, o) \ X : r \in lev[N + 1]
  BY <1>2, LevelFacts
<1>4. lev[0] = From \ X /\ 0 \in Nat /\ N + 1 \in Nat
  BY <1>2 DEF Grows
<1> HIDE DEF N
<1>5. lev[N + 1] \subseteq lev[N]
  BY <1>2, <1>4
<1>6. N \in Nat /\ From \ X \subseteq lev[N] /\ lev[N] \subseteq Objects
      /\ \A o \in lev[N] : ContentRefs(kind, o) \ X \subseteq lev[N]
  BY <1>2, <1>3, <1>4, <1>5
<1> QED
  BY <1>6 DEF N

LEMMA StoreIsClosed ==
  ASSUME NEW kind, NEW o \in Store
  PROVE  ContentRefs(kind, o) \subseteq Store /\ Store \subseteq Objects
<1>1. Store \subseteq Objects /\ Links[o] \subseteq Store
  BY UploadPackAssumption DEF Closed
<1>2. o \in Commits => Parents[o] \subseteq Links[o]
  BY ObjectGraphAssumption
<1> QED
  BY <1>1, <1>2 DEF ContentRefs

(* What a walk over the store from R that avoids X has marked and returns. *)
Walk(w, kind, m, R, X, lev) ==
  /\ Grows(kind, R, X, lev) /\ \A n \in Nat : lev[n] \subseteq Store
  /\ Deepest(m) \in Nat /\ w \in Walks
  /\ X \subseteq w.excludes /\ w.excludes \ X = lev[Deepest(m)]
  /\ OutExact(w.out, lev[Deepest(m)], kind, lev)
  /\ \A o : o \in Returned(w) <=>
              o \in lev[Deepest(m)] /\ (kind = "all" \/ o \in Commits)

LEMMA StoreWalk ==
  ASSUME NEW kind \in {"all", "commit"}, NEW m \in Nat, NEW R \in SUBSET Store,
         NEW X \in SUBSET Objects, NEW start, Fresh(start, kind, m, X),
         NEW w, w = Walked(IncludeAll(start, R, 0), Store)
  PROVE  \E lev : Walk(w, kind, m, R, X, lev)
<1>2. R \in SUBSET Objects
  BY UploadPackAssumption
<1>1. PICK lev : Grows(kind, R, X, lev)
  BY <1>2, LevelsExist
<1>3. \A n \in Nat : lev[n] \subseteq Store
  BY <1>1, StoreIsClosed, LevelsStayIn
<1>4. Deepest(m) \in Nat
  BY FS_CardinalityType, ObjectIteratorAssumption DEF Deepest
<1>5. WalkGives(w, kind, m, X, Store, lev)
  BY <1>1, <1>2, WalkResult, ZenonT(30)
<1>6. /\ w \in Walks /\ X \subseteq w.excludes /\ w.excludes \ X = lev[Deepest(m)]
      /\ OutExact(w.out, lev[Deepest(m)], kind, lev)
  <2>1. /\ w \in Walks /\ X \subseteq w.excludes
        /\ OutExact(w.out, w.excludes \ X, kind, lev)
        /\ w.failed <=> ~(lev[Deepest(m)] \subseteq Store)
        /\ ~w.failed => w.excludes \ X = lev[Deepest(m)]
    BY <1>5 DEF WalkGives
  <2>2. ~w.failed
    BY <1>3, <1>4, <2>1
  <2> QED
    BY <2>1, <2>2
<1>7. \A o : o \in Returned(w) <=>
               o \in lev[Deepest(m)] /\ (kind = "all" \/ o \in Commits)
  <2>1. \A o : o \in Returned(w) <=> \E i \in DOMAIN w.out : w.out[i][1] = o
    BY DEF Returned
  <2> QED
    BY <1>6, <2>1 DEF OutExact
<1> QED
  BY <1>1, <1>3, <1>4, <1>6, <1>7 DEF Walk

LEMMA AncestryFacts ==
  ASSUME NEW c \in Commits
  PROVE  /\ c \in Ancestry[c] /\ Ancestry[c] \subseteq Commits
         /\ \A d \in Ancestry[c] : Parents[d] \subseteq Ancestry[c]
         /\ \A T \in SUBSET Commits : c \in T /\ (\A e \in T : Parents[e] \subseteq T)
              => Ancestry[c] \subseteq T
<1>1. Ancestry[c] = AncestorsOf(c)
  BY DEF Ancestry
<1>2. \A d \in Commits : Parents[d] \subseteq Commits
  BY ObjectGraphAssumption
<1> QED
  BY <1>1, <1>2 DEF AncestorsOf

LEMMA NamedFacts ==
  ASSUME NEW o \in Objects
  PROVE  /\ o \in Named(o) /\ Named(o) \subseteq Objects
         /\ \A v \in Named(o) \cap Annotated : Links[v] \subseteq Named(o)
         /\ \A T \in SUBSET Objects : o \in T /\ (\A v \in T \cap Annotated : Links[v] \subseteq T)
              => Named(o) \subseteq T
<1>1. \A v \in Objects : Links[v] \subseteq Objects
  BY ObjectGraphAssumption
<1> QED
  BY <1>1 DEF Named

(* The history of an object is the least set of commits that holds those   *)
(* it names and their parents.                                             *)
LEMMA HistoryFacts ==
  ASSUME NEW o \in Objects
  PROVE  /\ HistoryOf[o] \subseteq Commits /\ Named(o) \cap Commits \subseteq HistoryOf[o]
         /\ o \in Commits => o \in HistoryOf[o]
         /\ \A c \in HistoryOf[o] : Parents[c] \subseteq HistoryOf[o]
         /\ \A T \in SUBSET Objects : o \in T /\ (\A t \in T : ContentRefs("commit", t) \subseteq T)
              => HistoryOf[o] \subseteq T
<1>1. HistoryOf[o] = UNION {Ancestry[c] : c \in Named(o) \cap Commits}
  BY DEF HistoryOf
<1>2. \A c \in Named(o) \cap Commits :
        /\ c \in Ancestry[c] /\ Ancestry[c] \subseteq Commits
        /\ \A d \in Ancestry[c] : Parents[d] \subseteq Ancestry[c]
  BY AncestryFacts
<1>3. /\ HistoryOf[o] \subseteq Commits /\ Named(o) \cap Commits \subseteq HistoryOf[o]
      /\ \A c \in HistoryOf[o] : Parents[c] \subseteq HistoryOf[o]
  BY <1>1, <1>2
<1>4. o \in Commits => o \in HistoryOf[o]
  BY <1>3, NamedFacts
<1>5. ASSUME NEW T \in SUBSET Objects, o \in T, \A t \in T : ContentRefs("commit", t) \subseteq T
      PROVE  HistoryOf[o] \subseteq T
  <2>1. \A v \in T \cap Annotated : Links[v] \subseteq T
    BY <1>5 DEF ContentRefs
  <2>2. Named(o) \subseteq T
    BY <1>5, <2>1, NamedFacts
  <2>3. \A c \in T \cap Commits : Parents[c] \subseteq T \cap Commits
    <3>1. \A c \in Commits : c \notin Annotated /\ Parents[c] \subseteq Commits
      BY ObjectGraphAssumption, ObjectIteratorAssumption
    <3> QED
      BY <1>5, <3>1 DEF ContentRefs
  <2>4. ASSUME NEW c \in Named(o) \cap Commits
        PROVE  Ancestry[c] \subseteq T \cap Commits
    <3>1. T \cap Commits \in SUBSET Commits /\ c \in T \cap Commits
      BY <2>2
    <3> QED
      BY <2>3, <3>1, AncestryFacts
  <2> QED
    BY <1>1, <2>4
<1> QED
  BY <1>3, <1>4, <1>5

(* A walk over commits with no limit returns the histories of what it      *)
(* starts from, and marks no other commits.                                *)
LEMMA CommitsFromAll ==
  ASSUME NEW R \in SUBSET Store
  PROVE  /\ \A c : c \in Returned(CommitsFrom(0, R)) <=> \E o \in R : c \in HistoryOf[o]
         /\ \A c \in Commits :
              c \in CommitsFrom(0, R).excludes <=> \E o \in R : c \in HistoryOf[o]
         /\ CommitsFrom(0, R).excludes \subseteq Store
<1> DEFINE start == NewObjectIterator("commit", 0)
           w == CommitsFrom(0, R)
<1>1. Fresh(start, "commit", 0, {})
  BY NewIteratorIsFresh
<1>2. w = Walked(IncludeAll(start, R, 0), Store)
  BY DEF CommitsFrom
<1> HIDE DEF start, w
<1>3. PICK lev : Walk(w, "commit", 0, R, {}, lev)
  <2>1. "commit" \in {"all", "commit"} /\ 0 \in Nat /\ {} \in SUBSET Objects
    OBVIOUS
  <2> QED
    BY <1>1, <1>2, <2>1, StoreWalk, Zenon
<1> DEFINE L == lev[Deepest(0)]
<1>4. /\ R \subseteq L /\ L \subseteq Objects
      /\ \A o \in L : ContentRefs("commit", o) \subseteq L
  <2>1. /\ R \ {} \subseteq L /\ L \subseteq Objects
        /\ \A o \in L : ContentRefs("commit", o) \ {} \subseteq L
    BY <1>3, Saturated DEF Walk
  <2> HIDE DEF L
  <2> QED
    BY <2>1
<1>5. \A o \in R : HistoryOf[o] \subseteq L
  <2> HIDE DEF L
  <2> QED
    BY <1>4, HistoryFacts
<1> DEFINE T == UNION {Named(o) \cup HistoryOf[o] : o \in R}
<1>6. L \subseteq T
  <2>1. ASSUME NEW o \in R
        PROVE  /\ o \in Named(o)
               /\ \A v \in Named(o) \cap Annotated : Links[v] \subseteq Named(o)
               /\ HistoryOf[o] \subseteq Commits /\ Named(o) \cap Commits \subseteq HistoryOf[o]
               /\ \A c \in HistoryOf[o] : Parents[c] \subseteq HistoryOf[o]
    <3>1. o \in Objects
      BY UploadPackAssumption
    <3> QED
      BY <3>1, NamedFacts, HistoryFacts
  <2>2. R \subseteq T
    BY <2>1
  <2>3. ASSUME NEW t \in T
        PROVE  ContentRefs("commit", t) \subseteq T
    <3>1. PICK o \in R : t \in Named(o) \/ t \in HistoryOf[o]
      OBVIOUS
    <3>2. t \in Annotated => t \notin Commits
      BY ObjectIteratorAssumption
    <3>3. ContentRefs("commit", t) \subseteq Named(o) \cup HistoryOf[o]
      BY <2>1, <3>1, <3>2 DEF ContentRefs
    <3> QED
      BY <3>3
  <2> HIDE DEF T
  <2> QED
    BY <1>3, <2>2, <2>3, LevelsStayIn DEF Walk
<1>7. ASSUME NEW c \in Commits
      PROVE  c \in L <=> \E o \in R : c \in HistoryOf[o]
  <2>1. \A o \in R : Named(o) \cap Commits \subseteq HistoryOf[o]
    BY UploadPackAssumption, HistoryFacts
  <2>2. c \in T <=> \E o \in R : c \in HistoryOf[o]
    BY <2>1
  <2> HIDE DEF T, L
  <2> QED
    BY <1>5, <1>6, <2>2
<1>8. \A o \in R : HistoryOf[o] \subseteq Commits
  BY UploadPackAssumption, HistoryFacts
<1>9. /\ \A c : c \in Returned(w) <=> \E o \in R : c \in HistoryOf[o]
      /\ \A c \in Commits : c \in w.excludes <=> \E o \in R : c \in HistoryOf[o]
      /\ w.excludes \subseteq Store
  <2>1. w.excludes = L /\ L \subseteq Store /\ \A o : o \in Returned(w) <=> o \in L /\ o \in Commits
    BY <1>3 DEF Walk
  <2> HIDE DEF L
  <2> QED
    BY <1>7, <1>8, <2>1
<1> QED
  BY <1>9 DEF w

(* The histories of what is wanted hold all it takes to be ready.          *)
LEMMA WantsMet ==
  ASSUME NEW ws \in SUBSET Store, NEW hs, AllWantsReachable(ws, hs)
  PROVE  hs # <<>> /\ \A o \in ws : ({o} \cup HistoryOf[o]) \cap HaveSet(hs) # {}
<1> SUFFICES ASSUME NEW o \in ws PROVE ({o} \cup HistoryOf[o]) \cap HaveSet(hs) # {}
  BY DEF AllWantsReachable
<1>1. ({o} \cup Behind[o]) \cap HaveSet(hs) # {}
  BY DEF AllWantsReachable
<1>2. Behind[o] = Returned(CommitsFrom(0, {o}))
  BY DEF Behind
<1>3. {o} \in SUBSET Store
  OBVIOUS
<1>4. \A c : c \in Returned(CommitsFrom(0, {o})) <=> \E p \in {o} : c \in HistoryOf[p]
  BY <1>3, CommitsFromAll
<1> QED
  BY <1>1, <1>2, <1>4

LEMMA PackFacts ==
  ASSUME NEW ws \in SUBSET Store
  PROVE  PackOf(ws) \subseteq Store /\ \A o \in ws : Reach[o] \subseteq PackOf(ws)
<1> DEFINE start == NewObjectIterator("all", 0)
           w == Walked(IncludeAll(start, ws, 0), Store)
<1>1. Fresh(start, "all", 0, {})
  BY NewIteratorIsFresh
<1>2. PackOf(ws) = Returned(w)
  BY DEF PackOf
<1> HIDE DEF start
<1>3. PICK lev : Walk(w, "all", 0, ws, {}, lev)
  <2> DEFINE v == w
  <2>1. v = Walked(IncludeAll(start, ws, 0), Store)
    OBVIOUS
  <2> HIDE DEF v
  <2>2. "all" \in {"all", "commit"} /\ 0 \in Nat /\ {} \in SUBSET Objects
    OBVIOUS
  <2>3. \E lev : Walk(v, "all", 0, ws, {}, lev)
    BY <1>1, <2>1, <2>2, StoreWalk, Zenon
  <2> QED
    BY <2>3 DEF v
<1> HIDE DEF w
<1> DEFINE L == lev[Deepest(0)]
<1>4. L \subseteq Store /\ \A o : o \in Returned(w) <=> o \in L
  BY <1>3 DEF Walk
<1>5. /\ ws \ {} \subseteq L /\ L \subseteq Objects
      /\ \A o \in L : ContentRefs("all", o) \ {} \subseteq L
  BY <1>3, Saturated DEF Walk
<1> HIDE DEF L
<1>6. L \in SUBSET Objects /\ ws \subseteq L /\ Closed(L)
  BY <1>5 DEF Closed, ContentRefs
<1>7. ASSUME NEW o \in ws PROVE Reach[o] \subseteq L
  <2>1. o \in Objects /\ {o} \subseteq L
    BY <1>6
  <2> QED
    BY <1>6, <2>1 DEF Reach, Closure
<1> QED
  BY <1>2, <1>4, <1>7

-----------------------------------------------------------------------------
(* What a client sees, level by level.  Sinks(roots, cut, f): f[n] is what *)
(* it sees n steps below the roots.                                        *)
Sinks(roots, cut, f) ==
  /\ f \in [Nat -> SUBSET Commits]
  /\ f[0] = roots
  /\ \A n \in Nat : f[n + 1] = f[n] \cup UNION {Parents[c] : c \in f[n] \ cut}

LEMMA SinksExist ==
  ASSUME NEW roots \in SUBSET Commits, NEW cut
  PROVE  \E f : Sinks(roots, cut, f)
<1> DEFINE further(S) == S \cup UNION {Parents[c] : c \in S \ cut}
           step == [S \in SUBSET Commits |-> further(S)]
<1>1. \A S \in SUBSET Commits : further(S) \in SUBSET Commits
  BY ObjectGraphAssumption
<1>2. step \in [SUBSET Commits -> SUBSET Commits]
  BY <1>1
<1>3. \A S \in SUBSET Commits : step[S] = further(S)
  OBVIOUS
<1> HIDE DEF step, further
<1>4. PICK f \in [Nat -> SUBSET Commits] :
        f[0] = roots /\ \A n \in Nat : f[n + 1] = step[f[n]]
  <2> DEFINE S == SUBSET Commits
  <2>1. roots \in S /\ step \in [S -> S]
    BY <1>2
  <2> HIDE DEF S
  <2>2. \E f \in [Nat -> S] : f[0] = roots /\ \A n \in Nat : f[n + 1] = step[f[n]]
    BY <2>1, Iterates
  <2> QED
    BY <2>2 DEF S
<1>5. \A n \in Nat : f[n + 1] = further(f[n])
  BY <1>3, <1>4
<1> USE DEF further
<1>6. Sinks(roots, cut, f)
  BY <1>4, <1>5, Zenon DEF Sinks
<1> QED
  BY <1>6

LEMMA LevelIsSink ==
  ASSUME NEW roots, NEW cut, NEW f, Sinks(roots, cut, f), NEW N \in Nat
  PROVE  Level(roots, cut, N) = f[N]
<1> DEFINE further(S) == S \cup UNION {Parents[c] : c \in S \ cut}
           Solves(l) == l = [i \in 0..N |-> IF i = 0 THEN roots ELSE further(l[i - 1])]
           g == [n \in 0..N |-> f[n]]
           w == CHOOSE l : Solves(l)
<1>1. Solves(g)
  <2>1. \A n \in 0..N : n # 0 => n - 1 \in 0..N /\ (n - 1) + 1 = n /\ n - 1 \in Nat
    OBVIOUS
  <2>2. \A n \in 0..N : n # 0 => f[n] = further(g[n - 1])
    BY <2>1 DEF Sinks
  <2>3. f[0] = roots
    BY DEF Sinks
  <2> HIDE DEF further
  <2>4. \A n \in 0..N : g[n] = IF n = 0 THEN roots ELSE further(g[n - 1])
    BY <2>2, <2>3
  <2> QED
    BY <2>4
<1>2. Solves(w)
  <2> HIDE DEF Solves, g
  <2> QED
    BY <1>1, Zenon
<1>3. Level(roots, cut, N) = w[N]
  BY Zenon DEF Level
<1> HIDE DEF w
<1>4. \A n \in 0..N : w[n] = IF n = 0 THEN roots ELSE further(w[n - 1])
  <2> HIDE DEF further
  <2> QED
    BY <1>2
<1> DEFINE Bad == {n \in 0..N : w[n] # f[n]}
<1>5. Bad = {}
  <2> SUFFICES ASSUME Bad # {} PROVE FALSE
    OBVIOUS
  <2>1. PICK n \in Bad : \A m \in Bad : n <= m
    <3>1. Bad \in SUBSET Nat
      OBVIOUS
    <3> HIDE DEF Bad
    <3> QED
      BY <3>1, LeastNumber
  <2>2. n # 0
    BY <1>4 DEF Sinks
  <2>3. n - 1 \in 0..N /\ n - 1 \in Nat /\ (n - 1) + 1 = n
    BY <2>2
  <2>4. w[n - 1] = f[n - 1]
    BY <2>1, <2>3
  <2>5. w[n] = further(w[n - 1])
    BY <1>4, <2>2
  <2>6. f[(n - 1) + 1] = further(f[n - 1])
    BY <2>3 DEF Sinks
  <2> HIDE DEF further
  <2> QED
    BY <2>3, <2>4, <2>5, <2>6
<1> QED
  BY <1>3, <1>5

(* Below a cut that spares the levels before d and is crossed by none of   *)
(* the commits of level d, the client sees what is d steps away.           *)
LEMMA CutIsSeen ==
  ASSUME NEW roots \in SUBSET Commits, NEW cut, NEW d \in Nat,
         NEW lev, Sinks(roots, {}, lev),
         \A n \in Nat : n < d => lev[n] \cap cut = {},
         \A c \in lev[d] \ cut : Parents[c] \subseteq lev[d]
  PROVE  Level(roots, cut, Cardinality(Commits)) = Level(roots, {}, d)
<1>1. PICK f : Sinks(roots, cut, f)
  BY SinksExist
<1> DEFINE more(S) == UNION {Parents[c] : c \in S \ cut}
           all(S) == UNION {Parents[c] : c \in S \ {}}
           N == Cardinality(Commits)
<1>2. /\ f \in [Nat -> SUBSET Commits] /\ f[0] = roots
      /\ \A n \in Nat : f[n + 1] = f[n] \cup more(f[n])
  BY <1>1 DEF Sinks
<1>3. lev[0] = roots /\ \A n \in Nat : lev[n + 1] = lev[n] \cup all(lev[n])
  BY DEF Sinks
<1>4. \A S : S \cap cut = {} => more(S) = all(S)
  <2> SUFFICES ASSUME NEW S, S \cap cut = {} PROVE S \ cut = S \ {}
    BY Zenon
  <2> QED
    OBVIOUS
<1>5. more(lev[d]) \subseteq lev[d]
  OBVIOUS
<1>6. IsFiniteSet(Commits)
  BY FS_Subset, ObjectGraphAssumption, ObjectIteratorAssumption
<1> HIDE DEF more, all
<1>7. \A n \in Nat : n <= d => f[n] = lev[n]
  <2> DEFINE T == {n \in Nat : n <= d => f[n] = lev[n]}
  <2>1. T \in SUBSET Nat /\ 0 \in T
    BY <1>2, <1>3
  <2>2. ASSUME NEW n \in T
        PROVE  n + 1 \in T
    <3> SUFFICES ASSUME n + 1 <= d PROVE f[n + 1] = lev[n + 1]
      OBVIOUS
    <3>1. n < d /\ n <= d /\ n \in Nat
      OBVIOUS
    <3>2. f[n] = lev[n] /\ more(lev[n]) = all(lev[n])
      BY <1>4, <3>1
    <3> QED
      BY <1>2, <1>3, <3>1, <3>2
  <2> HIDE DEF T
  <2>3. T = Nat
    BY <2>1, <2>2, Climb
  <2> QED
    BY <2>3 DEF T
<1>8. f[d + 1] = f[d]
  <2>1. f[d] = lev[d]
    BY <1>7
  <2>2. f[d + 1] = f[d] \cup more(f[d])
    BY <1>2
  <2>3. more(f[d]) \subseteq f[d]
    BY <1>5, <2>1
  <2> QED
    BY <2>2, <2>3
<1>9. \A n \in Nat : f[n] \subseteq f[n + 1]
  BY <1>2
<1>10. \A n \in Nat : f[n + 1] = f[n] => f[(n + 1) + 1] = f[n + 1]
  <2> SUFFICES ASSUME NEW n \in Nat, f[n + 1] = f[n] PROVE f[(n + 1) + 1] = f[n + 1]
    OBVIOUS
  <2>1. f[n + 1] = f[n] \cup more(f[n]) /\ f[(n + 1) + 1] = f[n + 1] \cup more(f[n + 1])
    BY <1>2
  <2> QED
    BY <2>1
<1>11. \A n \in Nat : d <= n => f[n] = f[d]
  BY <1>8, <1>10, Stays
<1>12. N \in Nat /\ \A n \in Nat : N <= n => f[n] = f[N]
  BY <1>2, <1>6, <1>9, <1>10, Settles
<1> HIDE DEF N
<1>13. N + d \in Nat /\ d <= N + d /\ N <= N + d
  BY <1>12
<1>14. f[N] = lev[d]
  BY <1>7, <1>11, <1>12, <1>13
<1>15. Level(roots, cut, N) = f[N]
  BY <1>1, <1>12, LevelIsSink
<1>16. Level(roots, {}, d) = lev[d]
  BY LevelIsSink
<1> QED
  BY <1>14, <1>15, <1>16 DEF N

-----------------------------------------------------------------------------
(* Deepening. *)

(* Each commit of a walk of limited depth is boundary or whole, as its     *)
(* distance from the roots is the limit or not.                            *)
Splits(list, d, lev) ==
  /\ \A c : c \in list.boundary \cup list.whole <=> c \in Commits /\ c \in lev[Deepest(d)]
  /\ \A c \in list.boundary : c \in lev[d] /\ \A k \in Nat : k < d => c \notin lev[k]
  /\ \A c \in list.whole :
       \E k \in Nat : k # d /\ c \in lev[k] /\ \A j \in Nat : j < k => c \notin lev[j]

LEMMA DeepenedSplits ==
  ASSUME NEW n, NEW ours, NEW roots \in SUBSET Store, roots = DeepenRoots(n, ours),
         NEW d \in Nat, d = DeepenLevel(n)
  PROVE  \E lev : /\ Walk(CommitsFrom(d, roots), "commit", d, roots, {}, lev)
                  /\ Splits(DeepenedToLevel(n, ours), d, lev)
<1> DEFINE start == NewObjectIterator("commit", d)
           w == CommitsFrom(d, roots)
           list == DeepenedToLevel(n, ours)
<1>1. Fresh(start, "commit", d, {})
  BY NewIteratorIsFresh
<1>2. w = Walked(IncludeAll(start, roots, 0), Store)
  BY DEF CommitsFrom
<1>3. /\ \A c : c \in list.boundary <=> \E i \in DOMAIN w.out : w.out[i][1] = c /\ w.out[i][2] = d
      /\ \A c : c \in list.whole <=> \E i \in DOMAIN w.out : w.out[i][1] = c /\ w.out[i][2] # d
  <2> DEFINE out == w.out
             oids(S) == {e[1] : e \in S}
             bounds == {e \in Range(out) : e[2] = d}
             others == {e \in Range(out) : e[2] # d}
  <2>1. list.boundary = oids(bounds) /\ list.whole = oids(others)
    BY Zenon DEF DeepenedToLevel
  <2> HIDE DEF list, w
  <2>2. \A c : c \in oids(bounds) <=> \E i \in DOMAIN out : out[i][1] = c /\ out[i][2] = d
    BY DEF Range
  <2>3. \A c : c \in oids(others) <=> \E i \in DOMAIN out : out[i][1] = c /\ out[i][2] # d
    BY DEF Range
  <2> QED
    BY <2>1, <2>2, <2>3
<1> HIDE DEF start, w, list
<1>4. PICK lev : Walk(w, "commit", d, roots, {}, lev)
  <2>1. "commit" \in {"all", "commit"} /\ {} \in SUBSET Objects
    OBVIOUS
  <2> QED
    BY <1>1, <1>2, <2>1, StoreWalk, Zenon
<1>5. /\ \A i \in DOMAIN w.out :
           /\ w.out[i][1] \in lev[Deepest(d)] /\ w.out[i][2] \in Nat
           /\ w.out[i][1] \in lev[w.out[i][2]] /\ w.out[i][1] \in Commits
           /\ \A k \in Nat : k < w.out[i][2] => w.out[i][1] \notin lev[k]
      /\ \A o \in lev[Deepest(d)] : o \in Commits => \E i \in DOMAIN w.out : w.out[i][1] = o
  BY <1>4 DEF Walk, OutExact
<1>6. Splits(list, d, lev)
  <2>1. \A c : c \in list.boundary \cup list.whole <=> c \in Commits /\ c \in lev[Deepest(d)]
    BY <1>3, <1>5
  <2>2. \A c \in list.boundary : c \in lev[d] /\ \A k \in Nat : k < d => c \notin lev[k]
    BY <1>3, <1>5
  <2>3. \A c \in list.whole :
          \E k \in Nat : k # d /\ c \in lev[k] /\ \A j \in Nat : j < k => c \notin lev[j]
    BY <1>3, <1>5
  <2> QED
    BY <2>1, <2>2, <2>3 DEF Splits
<1> QED
  BY <1>4, <1>6 DEF w, list

(* What is shallow for a client after an answer to one that held shallow.  *)
CutBy(shallow, list) ==
  (shallow \cup (list.boundary \ shallow)) \ (shallow \cap list.whole)

LEMMA DepthIsSeen ==
  ASSUME NEW n, NEW ours, NEW roots \in SUBSET (Store \cap Commits),
         roots = DeepenRoots(n, ours), NEW d \in Nat, d = DeepenLevel(n),
         NEW shallow, NEW cut, cut = CutBy(shallow, DeepenedToLevel(n, ours))
  PROVE  Level(roots, cut, Cardinality(Commits)) = Level(roots, {}, d)
<1> DEFINE list == DeepenedToLevel(n, ours)
<1>1. PICK lev : /\ Walk(CommitsFrom(d, roots), "commit", d, roots, {}, lev)
                 /\ Splits(list, d, lev)
  <2>1. roots \in SUBSET Store
    OBVIOUS
  <2> QED
    BY <2>1, DeepenedSplits
<1>2. cut = (shallow \cup (list.boundary \ shallow)) \ (shallow \cap list.whole)
  BY DEF CutBy
<1> HIDE DEF list
<1>3. Grows("commit", roots, {}, lev)
  BY <1>1 DEF Walk
<1>4. \A c \in Commits : ContentRefs("commit", c) = Parents[c] /\ Parents[c] \subseteq Commits
  BY ObjectGraphAssumption, ObjectIteratorAssumption DEF ContentRefs
<1>5. \A k \in Nat : lev[k] \subseteq Commits
  <2>1. roots \subseteq Commits /\ \A c \in Commits : ContentRefs("commit", c) \subseteq Commits
    BY <1>4
  <2> QED
    BY <1>3, <2>1, LevelsStayIn
<1>6. Sinks(roots, {}, lev)
  <2>1. lev \in [Nat -> SUBSET Objects] /\ lev[0] = roots
    BY <1>3 DEF Grows
  <2>2. \A k \in Nat : lev[k + 1] = lev[k] \cup UNION {Parents[c] : c \in lev[k] \ {}}
    <3> SUFFICES ASSUME NEW k \in Nat
                 PROVE  lev[k + 1] = lev[k] \cup UNION {Parents[c] : c \in lev[k] \ {}}
      OBVIOUS
    <3>1. lev[k + 1] = lev[k] \cup ((UNION {ContentRefs("commit", c) : c \in lev[k]}) \ {})
      BY <1>3 DEF Grows
    <3>2. \A c \in lev[k] : ContentRefs("commit", c) = Parents[c]
      BY <1>4, <1>5
    <3> QED
      BY <3>1, <3>2
  <2> QED
    BY <1>5, <2>1, <2>2 DEF Sinks
<1>7. /\ \A c : c \in list.boundary \cup list.whole <=> c \in Commits /\ c \in lev[Deepest(d)]
      /\ \A c \in list.boundary : c \in lev[d] /\ \A k \in Nat : k < d => c \notin lev[k]
      /\ \A c \in list.whole :
           \E k \in Nat : k # d /\ c \in lev[k] /\ \A j \in Nat : j < k => c \notin lev[j]
  BY <1>1 DEF Splits
<1>8. /\ \A i, k \in Nat : i <= k => lev[i] \subseteq lev[k]
      /\ lev[d] \subseteq lev[Deepest(d)]
      /\ \A k \in Nat : \A o \in lev[k] : \A r \in ContentRefs("commit", o) \ {} : r \in lev[k + 1]
  BY <1>3, LevelFacts DEF Deepest
<1>9. ASSUME NEW k \in Nat, k < d
      PROVE  lev[k] \cap cut = {}
  <2> SUFFICES ASSUME NEW c \in lev[k], c \in cut PROVE FALSE
    OBVIOUS
  <2>1. c \in Commits /\ c \in lev[d]
    BY <1>5, <1>8, <1>9
  <2>2. c \in list.boundary \cup list.whole /\ c \notin list.boundary
    BY <1>7, <1>8, <1>9, <2>1
  <2> QED
    BY <1>2, <2>2
<1>10. ASSUME NEW c \in lev[d] \ cut
       PROVE  Parents[c] \subseteq lev[d]
  <2>1. c \in Commits /\ c \in list.boundary \cup list.whole
    BY <1>5, <1>7, <1>8
  <2>2. c \in list.whole
    BY <1>2, <2>1
  <2>3. PICK k \in Nat : k # d /\ c \in lev[k] /\ \A j \in Nat : j < k => c \notin lev[j]
    BY <1>7, <2>2
  <2>4. k < d
    BY <2>3
  <2>5. k + 1 \in Nat /\ k + 1 <= d
    BY <2>4
  <2>6. Parents[c] \subseteq lev[k + 1]
    BY <1>4, <1>8, <2>1, <2>3
  <2> QED
    BY <1>8, <2>5, <2>6
<1> QED
  BY <1>6, <1>9, <1>10, CutIsSeen

(* Where nothing is cut, more levels than there are commits add nothing.   *)
LEMMA AllIsSeen ==
  ASSUME NEW roots \in SUBSET Commits, NEW d \in Nat, Cardinality(Commits) <= d
  PROVE  Level(roots, {}, Cardinality(Commits)) = Level(roots, {}, d)
<1> DEFINE all(S) == UNION {Parents[c] : c \in S \ {}}
           N == Cardinality(Commits)
<1>1. PICK f : Sinks(roots, {}, f)
  BY SinksExist
<1>2. f \in [Nat -> SUBSET Commits] /\ \A n \in Nat : f[n + 1] = f[n] \cup all(f[n])
  BY <1>1 DEF Sinks
<1> HIDE DEF all
<1>3. \A n \in Nat : f[n] \subseteq f[n + 1]
  BY <1>2
<1>4. \A n \in Nat : f[n + 1] = f[n] => f[(n + 1) + 1] = f[n + 1]
  <2> SUFFICES ASSUME NEW n \in Nat, f[n + 1] = f[n] PROVE f[(n + 1) + 1] = f[n + 1]
    OBVIOUS
  <2>1. f[n + 1] = f[n] \cup all(f[n]) /\ f[(n + 1) + 1] = f[n + 1] \cup all(f[n + 1])
    BY <1>2
  <2> QED
    BY <2>1
<1>5. IsFiniteSet(Commits)
  BY FS_Subset, ObjectGraphAssumption, ObjectIteratorAssumption
<1>6. N \in Nat /\ \A n \in Nat : N <= n => f[n] = f[N]
  BY <1>2, <1>3, <1>4, <1>5, Settles
<1>7. Level(roots, {}, N) = f[N] /\ Level(roots, {}, d) = f[d]
  BY <1>1, <1>6, LevelIsSink
<1> QED
  BY <1>6, <1>7

(* The commits recent enough are those of a walk that stops at what the    *)
(* refs left out reach.                                                    *)
LEMMA RecentFacts ==
  ASSUME NEW n, n.wants \in SUBSET Store, n.nots \in SUBSET (Store \cup {None})
  PROVE  /\ \A c \in Recent(n) :
              /\ c \in Commits /\ c \in Store /\ Time[c] >= n.since
              /\ \A o \in n.nots \ {None} : c \notin HistoryOf[o]
         /\ \A c \in n.wants \cap Commits :
              Time[c] >= n.since /\ (\A o \in n.nots \ {None} : c \notin HistoryOf[o])
                => c \in Recent(n)
<1> DEFINE R == n.nots \ {None}
           unwanted == CommitsFrom(0, R)
           X == unwanted.excludes
           start == [NewObjectIterator("commit", 0) EXCEPT !.excludes = X]
           w == Walked(IncludeAll(start, n.wants, 0), Store)
<1>1. \A c : c \in Recent(n) <=> c \in Returned(w) /\ Time[c] >= n.since
  BY DEF Recent
<1>2. R \in SUBSET Store
  OBVIOUS
<1> HIDE DEF R
<1>3. /\ \A c \in Commits : c \in X <=> \E o \in R : c \in HistoryOf[o]
      /\ X \in SUBSET Objects
  <2>1. X \subseteq Store
    BY <1>2, CommitsFromAll
  <2>2. \A c \in Commits : c \in X <=> \E o \in R : c \in HistoryOf[o]
    BY <1>2, CommitsFromAll
  <2> QED
    BY <2>1, <2>2, UploadPackAssumption
<1> HIDE DEF unwanted, X
<1>4. Fresh(start, "commit", 0, X)
  BY <1>3, NewIteratorFacts
<1> HIDE DEF start
<1>5. w = Walked(IncludeAll(start, n.wants, 0), Store)
  OBVIOUS
<1> HIDE DEF w
<1>6. PICK lev : Walk(w, "commit", 0, n.wants, X, lev)
  <2>1. "commit" \in {"all", "commit"} /\ 0 \in Nat
    OBVIOUS
  <2> QED
    BY <1>3, <1>4, <1>5, <2>1, StoreWalk, Zenon
<1> DEFINE L == lev[Deepest(0)]
<1>7. /\ \A c : c \in Returned(w) <=> c \in L /\ c \in Commits
      /\ L \subseteq Store /\ L \cap X = {}
  <2>1. Grows("commit", n.wants, X, lev) /\ Deepest(0) \in Nat
    BY <1>6 DEF Walk
  <2>2. L \cap X = {}
    BY <2>1, LevelFacts
  <2> QED
    BY <1>6, <2>2 DEF Walk
<1>8. n.wants \ X \subseteq L
  BY <1>6, Saturated DEF Walk
<1> HIDE DEF L
<1>9. \A c \in Recent(n) :
        /\ c \in Commits /\ c \in Store /\ Time[c] >= n.since
        /\ \A o \in R : c \notin HistoryOf[o]
  BY <1>1, <1>3, <1>7
<1>10. \A c \in n.wants \cap Commits :
         Time[c] >= n.since /\ (\A o \in R : c \notin HistoryOf[o]) => c \in Recent(n)
  BY <1>1, <1>3, <1>7, <1>8
<1> QED
  BY <1>9, <1>10 DEF R

(* Below recent commits the client sees only recent ones.                  *)
LEMMA RecentIsSeen ==
  ASSUME NEW recent \in SUBSET Commits, NEW roots \in SUBSET recent,
         NEW shallow, NEW cut, NEW N \in Nat,
         cut = (shallow \cup (Frontier(recent) \ shallow))
                 \ (shallow \cap (recent \ Frontier(recent)))
  PROVE  Level(roots, cut, N) \subseteq recent
<1>1. PICK f : Sinks(roots, cut, f)
  BY SinksExist
<1>2. \A c \in recent \ cut : Parents[c] \subseteq recent
  BY DEF Frontier
<1> DEFINE T == {n \in Nat : f[n] \subseteq recent}
<1>3. T \in SUBSET Nat /\ 0 \in T
  BY <1>1 DEF Sinks
<1>4. ASSUME NEW n \in T
      PROVE  n + 1 \in T
  <2>1. f[n + 1] = f[n] \cup UNION {Parents[c] : c \in f[n] \ cut}
    BY <1>1 DEF Sinks
  <2> QED
    BY <1>2, <2>1
<1> HIDE DEF T
<1>5. T = Nat
  BY <1>3, <1>4, Climb
<1>6. f[N] \subseteq recent
  BY <1>5 DEF T
<1> QED
  BY <1>1, <1>6, LevelIsSink

-----------------------------------------------------------------------------
(* Lists the server makes entry by entry. *)

LEMMA PeeledType ==
  ASSUME NEW o \in Objects
  PROVE  Peeled(o) \in Objects
<1> DEFINE next(p) == IF p \in Annotated \cap Store THEN CHOOSE t \in Links[p] : TRUE ELSE p
           step == [p \in Objects |-> next(p)]
           Solves(l) == l = [i \in 0..64 |-> IF i = 0 THEN o ELSE next(l[i - 1])]
           w == CHOOSE l : Solves(l)
<1>1. \A p \in Objects : next(p) \in Objects
  <2> SUFFICES ASSUME NEW p \in Objects, p \in Annotated
               PROVE  (CHOOSE t \in Links[p] : TRUE) \in Objects
    OBVIOUS
  <2>1. PICK t \in Objects : Links[p] = {t}
    BY ObjectIteratorAssumption
  <2> QED
    BY <2>1
<1>2. step \in [Objects -> Objects] /\ \A p \in Objects : step[p] = next(p)
  BY <1>1
<1> HIDE DEF step, next
<1>3. PICK f \in [Nat -> Objects] : f[0] = o /\ \A n \in Nat : f[n + 1] = step[f[n]]
  <2>2. o \in Objects /\ step \in [Objects -> Objects]
    BY <1>2
  <2>1. \E f \in [Nat -> Objects] : f[0] = o /\ \A n \in Nat : f[n + 1] = step[f[n]]
    BY <2>2, Iterates
  <2> QED
    BY <2>1
<1> DEFINE g == [i \in 0..64 |-> f[i]]
<1>4. Solves(g)
  <2>1. \A i \in 0..64 : i # 0 => i - 1 \in 0..64 /\ (i - 1) + 1 = i /\ i - 1 \in Nat
    OBVIOUS
  <2>2. \A i \in 0..64 : i # 0 => f[i] = next(g[i - 1])
    BY <1>2, <1>3, <2>1
  <2>3. \A i \in 0..64 : g[i] = IF i = 0 THEN o ELSE next(g[i - 1])
    BY <1>3, <2>2
  <2> QED
    BY <2>3
<1>5. Solves(w)
  <2> HIDE DEF Solves, g
  <2> QED
    BY <1>4, Zenon
<1>6. Peeled(o) = w[64]
  BY Zenon DEF Peeled, next
<1> HIDE DEF w
<1>7. \A i \in 0..64 : w[i] = IF i = 0 THEN o ELSE next(w[i - 1])
  BY <1>5
<1> DEFINE Bad == {i \in 0..64 : w[i] \notin Objects}
<1>8. Bad = {}
  <2> SUFFICES ASSUME Bad # {} PROVE FALSE
    OBVIOUS
  <2>1. PICK n \in Bad : \A m \in Bad : n <= m
    <3>1. Bad \in SUBSET Nat
      OBVIOUS
    <3> HIDE DEF Bad
    <3> QED
      BY <3>1, LeastNumber
  <2>2. n # 0
    BY <1>7
  <2>3. n - 1 \in 0..64 /\ n - 1 < n
    BY <2>2
  <2>4. w[n - 1] \in Objects
    BY <2>1, <2>3
  <2> QED
    BY <1>1, <1>7, <2>1, <2>2, <2>4
<1> QED
  BY <1>6, <1>8

(* The haves here among the first k of a request, for every k. *)
LEMMA NamedUpTo ==
  ASSUME NEW n
  PROVE  \E h \in [Nat -> Seq(Store)] :
           /\ h[0] = <<>>
           /\ \A k \in Nat : h[k + 1] = IF Known(n.haves[k + 1])
                                      THEN Append(h[k], n.haves[k + 1]) ELSE h[k]
<1> DEFINE S == Nat \X Seq(Store)
           next(s, i) == IF Known(n.haves[i]) THEN Append(s, n.haves[i]) ELSE s
           step == [p \in S |-> <<p[1] + 1, next(p[2], p[1] + 1)>>]
           base == <<0, <<>>>>
<1>1. \A s \in Seq(Store), i \in Nat : next(s, i) \in Seq(Store)
  BY DEF Known
<1> HIDE DEF next
<1>2. <<>> \in Seq(Store)
  OBVIOUS
<1>3. step \in [S -> S]
  <2> SUFFICES ASSUME NEW p \in S PROVE <<p[1] + 1, next(p[2], p[1] + 1)>> \in S
    OBVIOUS
  <2>1. p[1] + 1 \in Nat /\ p[2] \in Seq(Store)
    OBVIOUS
  <2>2. next(p[2], p[1] + 1) \in Seq(Store)
    BY <1>1, <2>1
  <2> QED
    BY <2>1, <2>2
<1>4. base \in S
  BY <1>2
<1>5. \A p \in S : step[p] = <<p[1] + 1, next(p[2], p[1] + 1)>>
  OBVIOUS
<1> HIDE DEF S, step, base
<1>6. PICK f \in [Nat -> S] : f[0] = base /\ \A k \in Nat : f[k + 1] = step[f[k]]
  <2>1. base \in S /\ step \in [S -> S]
    BY <1>3, <1>4
  <2>2. \E f \in [Nat -> S] : f[0] = base /\ \A k \in Nat : f[k + 1] = step[f[k]]
    BY <2>1, Iterates
  <2> QED
    BY <2>2
<1>7. \A k \in Nat : f[k] \in S /\ f[k + 1] = <<f[k][1] + 1, next(f[k][2], f[k][1] + 1)>>
  BY <1>5, <1>6
<1>8. \A k \in Nat : f[k][1] = k
  <2> DEFINE T == {k \in Nat : f[k][1] = k}
  <2>1. T \in SUBSET Nat /\ 0 \in T
    BY <1>6 DEF base
  <2>2. \A k \in T : k + 1 \in T
    BY <1>7
  <2> HIDE DEF T
  <2>3. T = Nat
    BY <2>1, <2>2, Climb
  <2> QED
    BY <2>3 DEF T
<1> DEFINE h == [k \in Nat |-> f[k][2]]
<1>9. h \in [Nat -> Seq(Store)]
  BY <1>7 DEF S
<1>10. h[0] = <<>>
  BY <1>6 DEF base
<1>11. \A k \in Nat : h[k + 1] = next(h[k], k + 1)
  BY <1>7, <1>8
<1> HIDE DEF h
<1> QED
  BY <1>9, <1>10, <1>11 DEF next

LEMMA NamedHavesType ==
  ASSUME NEW n, Len(n.haves) \in Nat
  PROVE  NamedHaves(n) \in Seq(Store)
<1> DEFINE N == Len(n.haves)
           next(s, i) == IF Known(n.haves[i]) THEN Append(s, n.haves[i]) ELSE s
           Solves(l) == l = [i \in 0..N |->
                               IF i = 0 THEN <<>>
                               ELSE IF Known(n.haves[i]) THEN Append(l[i - 1], n.haves[i])
                               ELSE l[i - 1]]
           w == CHOOSE l : Solves(l)
<1>1. PICK h \in [Nat -> Seq(Store)] :
        h[0] = <<>> /\ \A k \in Nat : h[k + 1] = next(h[k], k + 1)
  BY NamedUpTo
<1>2. \A s \in Seq(Store), i \in Nat : next(s, i) \in Seq(Store)
  BY DEF Known
<1>3. <<>> \in Seq(Store) /\ N \in Nat
  OBVIOUS
<1> HIDE DEF next, N
<1> DEFINE g == [i \in 0..N |-> h[i]]
<1>4. Solves(g)
  <2>1. \A i \in 0..N : i # 0 => i - 1 \in 0..N /\ (i - 1) + 1 = i /\ i - 1 \in Nat
    BY <1>3
  <2>2. ASSUME NEW i \in 0..N, i # 0
        PROVE  h[i] = next(g[i - 1], i)
    <3>1. i - 1 \in Nat /\ (i - 1) + 1 = i /\ g[i - 1] = h[i - 1]
      BY <2>1, <2>2
    <3>2. h[(i - 1) + 1] = next(h[i - 1], (i - 1) + 1)
      BY <1>1, <3>1
    <3> QED
      BY <3>1, <3>2
  <2>3. \A i \in 0..N : g[i] = IF i = 0 THEN <<>> ELSE next(g[i - 1], i)
    BY <1>1, <2>2
  <2>4. g = [i \in 0..N |-> IF i = 0 THEN <<>> ELSE next(g[i - 1], i)]
    BY <2>3
  <2> HIDE DEF g
  <2> QED
    BY <2>4, Zenon DEF next
<1>5. Solves(w)
  <2> HIDE DEF Solves, g
  <2> QED
    BY <1>4, Zenon
<1>6. NamedHaves(n) = w[N]
  BY Zenon DEF NamedHaves, N
<1> HIDE DEF w
<1>7. \A i \in 0..N : w[i] = IF i = 0 THEN <<>> ELSE next(w[i - 1], i)
  BY <1>5 DEF next
<1> DEFINE Kept == Seq(Store)
           Bad == {i \in 0..N : w[i] \notin Kept}
<1>10. <<>> \in Kept /\ \A s \in Kept, i \in Nat : next(s, i) \in Kept
  BY <1>2, <1>3
<1> HIDE DEF Kept
<1>11. N \in Nat /\ N \in 0..N
  BY <1>3
<1>8. Bad = {}
  <2> SUFFICES ASSUME Bad # {} PROVE FALSE
    OBVIOUS
  <2>1. PICK k \in Bad : \A m \in Bad : k <= m
    <3>1. Bad \in SUBSET Nat
      BY <1>3
    <3> HIDE DEF Bad
    <3> QED
      BY <3>1, LeastNumber
  <2>2. k # 0
    <3>1. k = 0 => w[k] = <<>>
      BY <1>7
    <3> QED
      BY <1>10, <3>1
  <2>3. k \in Nat /\ k - 1 \in 0..N /\ k - 1 < k
    BY <1>3, <2>2
  <2>4. w[k - 1] \in Kept
    <3>1. k - 1 \notin Bad
      <4> HIDE DEF Bad
      <4> QED
        BY <2>1, <2>3
    <3> QED
      BY <2>3, <3>1
  <2>5. w[k] = next(w[k - 1], k)
    BY <1>7, <2>2
  <2> QED
    BY <1>10, <2>1, <2>3, <2>4, <2>5
<1>9. w[N] \in Kept
  BY <1>8, <1>11
<1> QED
  BY <1>6, <1>9 DEF Kept

-----------------------------------------------------------------------------
(* What the server says. *)

(* A line is about an object or none; one that acknowledges is about an    *)
(* object that is here.                                                    *)
Kinds ==
  {"ref", "capabilities", "unborn", "flush", "size", "info", "no info", "not our ref",
   "ACK", "ACK common", "ACK continue", "ACK ready", "NAK", "acknowledgments", "ready",
   "wanted-refs", "shallow-info", "packfile"}

Said ==
  {l \in [kind : Kinds, oid : Objects \cup {None}, peeled : Objects \cup {None}] :
     l.kind \in {"ACK", "ACK common"} => l.oid \in Store}

LEMMA LineIsSaid ==
  ASSUME NEW kind \in Kinds, NEW o \in Objects \cup {None},
         kind \in {"ACK", "ACK common"} => o \in Store
  PROVE  Line(kind, o) \in Said
BY DEF Line, Said

LEMMA OneLine ==
  ASSUME NEW l \in Said
  PROVE  <<l>> \in Seq(Said)
OBVIOUS

LEMMA RefLinesSaid ==
  ASSUME refs \in Setups, NEW names, NEW peel
  PROVE  RefLines(names, peel) \in Seq(Said)
<1> DEFINE S == Listed \cap names
           listed == SetToSeq(S)
           values == [i \in DOMAIN listed |-> refs.value[listed[i]]]
           head == IF "HEAD" \in names /\ HeadOid # None THEN <<HeadOid>> ELSE <<>>
           oids == ListedOids(names)
<1>1. /\ refs.head \in RefNames /\ refs.value \in [RefNames -> Store \cup {None}]
      /\ Store \subseteq Objects /\ IsFiniteSet(RefNames)
  BY UploadPackAssumption
<1>2. S \subseteq RefNames /\ \A r \in S : refs.value[r] \in Store
  BY <1>1 DEF Listed
<1>3. IsFiniteSet(S)
  BY <1>1, <1>2, FS_Subset
<1>4. oids = head \o values
  BY DEF ListedOids
<1> HIDE DEF S
<1>5. values \in Seq(Store)
  <2>1. listed \in Seq(S)
    BY <1>3, SetToSeqFacts
  <2> HIDE DEF listed
  <2>2. DOMAIN listed = 1..Len(listed) /\ Len(listed) \in Nat /\ \A i \in DOMAIN listed : listed[i] \in S
    BY <2>1
  <2> QED
    BY <1>2, <2>2
<1>6. head \in Seq(Store)
  <2>1. HeadOid # None => HeadOid \in Store
    BY <1>1 DEF HeadOid
  <2> QED
    BY <2>1
<1> HIDE DEF values, head
<1>7. oids \in Seq(Store)
  BY <1>4, <1>5, <1>6
<1> HIDE DEF oids
<1>8. DOMAIN oids = 1..Len(oids) /\ Len(oids) \in Nat /\ \A i \in DOMAIN oids : oids[i] \in Store
  BY <1>7
<1> DEFINE line(o) == [Line("ref", o) EXCEPT
                         !.peeled = IF peel /\ Peeled(o) # o THEN Peeled(o) ELSE None]
<1>9. \A o \in Store : line(o) \in Said
  <2> SUFFICES ASSUME NEW o \in Store PROVE line(o) \in Said
    OBVIOUS
  <2>1. Peeled(o) \in Objects /\ o \in Objects
    BY <1>1, PeeledType
  <2>2. PICK p \in Objects \cup {None} :
          p = IF peel /\ Peeled(o) # o THEN Peeled(o) ELSE None
    BY <2>1
  <2>3. [Line("ref", o) EXCEPT !.peeled = p] = [kind |-> "ref", oid |-> o, peeled |-> p]
    BY DEF Line
  <2>4. [kind |-> "ref", oid |-> o, peeled |-> p] \in Said
    BY <2>1 DEF Said, Kinds
  <2> QED
    BY <2>2, <2>3, <2>4
<1>10. RefLines(names, peel) = [i \in DOMAIN oids |-> line(oids[i])]
  BY DEF RefLines, oids
<1> HIDE DEF line
<1>11. [i \in 1..Len(oids) |-> line(oids[i])] \in Seq(Said)
  BY <1>8, <1>9
<1> QED
  BY <1>8, <1>10, <1>11

LEMMA AcknowledgmentsSaid ==
  ASSUME NEW n, NamedHaves(n) \in Seq(Store)
  PROVE  Acknowledgments(n) \in Seq(Said)
<1> DEFINE hs == NamedHaves(n)
           acks == [i \in DOMAIN hs |-> Line("ACK", hs[i])]
<1>1. Line("acknowledgments", None) \in Said /\ Line("NAK", None) \in Said
  BY LineIsSaid DEF Kinds
<1>2. \A o \in Store : Line("ACK", o) \in Said
  BY UploadPackAssumption, LineIsSaid DEF Kinds
<1>3. Acknowledgments(n) = <<Line("acknowledgments", None)>>
                             \o (IF hs = <<>> THEN <<Line("NAK", None)>> ELSE acks)
  BY DEF Acknowledgments
<1>4. acks \in Seq(Said)
  <2> HIDE DEF hs
  <2>1. DOMAIN hs = 1..Len(hs) /\ Len(hs) \in Nat /\ \A i \in DOMAIN hs : hs[i] \in Store
    BY DEF hs
  <2> QED
    BY <1>2, <2>1
<1> HIDE DEF acks, hs
<1>5. (IF hs = <<>> THEN <<Line("NAK", None)>> ELSE acks) \in Seq(Said)
  BY <1>1, <1>4
<1> QED
  BY <1>1, <1>3, <1>5

-----------------------------------------------------------------------------
(* The inductive invariant. *)

Requests ==
  [wants : SUBSET (Objects \cup {None}), wantRefs : SUBSET RefNames,
   shallow : SUBSET (Store \cap Commits), depth : Nat, since : Nat,
   nots : SUBSET (Store \cup {None}), relative : BOOLEAN, sideband : BOOLEAN,
   multiAck : {"none", "basic", "detailed"}, noDone : BOOLEAN, stateless : BOOLEAN,
   done : BOOLEAN, waitForDone : BOOLEAN, haves : Seq(Objects)]

Typed ==
  /\ refs \in Setups /\ version \in {"v0", "v2"} /\ phase \in Phases
  /\ need \in Requests
  /\ wants \in SUBSET Store /\ haves \in Seq(Store)
  /\ gotCommon \in BOOLEAN /\ gotOther \in BOOLEAN /\ ready \in BOOLEAN
  /\ boundary \in SUBSET (Commits \cap Store) /\ opened \in SUBSET (Commits \cap Store)
  /\ reply \in Seq(Said) /\ pack \in SUBSET Store /\ lines \in 0..Lines

(* What the phase says: v0 has one request and sends its pack last; v2 has *)
(* no phases of negotiation.                                               *)
InPhase ==
  /\ version = "v0" /\ phase \in {"start", "needs"} => ~ready
  /\ version = "v0" /\ phase \in {"start", "needs", "peek", "negotiate", "pack"} => pack = {}
  /\ version = "v2" => phase \in {"start", "needs", "packed", "closed", "error"}
  /\ version = "v2" /\ phase = "start" => pack = {}

(* What is wanted when a session is ready, all of it met by a have.        *)
Met(ws, hs) == hs # <<>> /\ \A o \in ws : ({o} \cup HistoryOf[o]) \cap HaveSet(hs) # {}

ReadyIsMet == ready => Met(IF version = "v0" THEN wants ELSE need.wants, haves)

(* Once a request is granted, all it wants is here, and what is wanted are *)
(* these objects and the parents that were hidden.                         *)
Granted ==
  phase \in {"peek", "negotiate", "pack", "packed"} =>
    need.wants \subseteq Store /\ wants = need.wants \cup WantedToo(opened)

PackIsMade == phase = "packed" => pack = PackOf(wants)

(* The list that was announced is that of the request.                     *)
Ours == IF version = "v0" THEN OurRefs ELSE {}

ListIsSent ==
  Answered =>
    /\ boundary = ShallowList(need, Ours).boundary \ need.shallow
    /\ opened = need.shallow \cap ShallowList(need, Ours).whole

UploadInv == Typed /\ InPhase /\ ReadyIsMet /\ Granted /\ PackIsMade /\ ListIsSent

LEMMA RefsAreInStore ==
  ASSUME refs \in Setups
  PROVE  OurRefs \subseteq Store /\ Ours \subseteq Store
BY UploadPackAssumption DEF OurRefs, Ours, Listed

LEMMA DeepeningTypes ==
  ASSUME NEW n \in Requests, n.depth > 0, NEW ours \in SUBSET Store, n.wants \subseteq Store
  PROVE  DeepenRoots(n, ours) \in SUBSET Store /\ DeepenLevel(n) \in Nat
<1>1. n.shallow \subseteq Store /\ n.depth \in Nat /\ n.relative \in BOOLEAN
  BY DEF Requests
<1>2. ReachableShallows(n, ours) \subseteq Store
  BY <1>1 DEF ReachableShallows
<1> QED
  BY <1>1, <1>2 DEF DeepenRoots, DeepenLevel

(* Boundary and whole commits are in the store.                            *)
LEMMA ListTypes ==
  ASSUME NEW n \in Requests, n.wants \subseteq Store, NEW ours \in SUBSET Store
  PROVE  /\ ShallowList(n, ours).boundary \in SUBSET (Commits \cap Store)
         /\ ShallowList(n, ours).whole \in SUBSET (Commits \cap Store)
<1>1. n.depth \in Nat /\ n.nots \in SUBSET (Store \cup {None}) /\ n.wants \in SUBSET Store
  BY DEF Requests
<1>5. CASE n.depth > 0 /\ ~ByRevList(n) /\ n.depth = InfiniteDepth
  <2>1. ShallowList(n, ours) = [boundary |-> {}, whole |-> n.shallow]
    BY <1>5 DEF ShallowList, Deepened
  <2> QED
    BY <2>1 DEF Requests
<1>2. CASE n.depth > 0 /\ ~ByRevList(n) /\ n.depth # InfiniteDepth
  <2>1. ShallowList(n, ours) = DeepenedToLevel(n, ours)
    BY <1>2 DEF ShallowList, Deepened
  <2>2. PICK roots, d : /\ roots \in SUBSET Store /\ roots = DeepenRoots(n, ours)
                        /\ d \in Nat /\ d = DeepenLevel(n)
    BY <1>2, DeepeningTypes
  <2>3. PICK lev : /\ Walk(CommitsFrom(d, roots), "commit", d, roots, {}, lev)
                   /\ Splits(DeepenedToLevel(n, ours), d, lev)
    BY <2>2, DeepenedSplits
  <2>4. lev[Deepest(d)] \subseteq Store
    BY <2>3 DEF Walk
  <2> QED
    BY <2>1, <2>3, <2>4 DEF Splits
<1>3. CASE n.depth = 0 /\ ByRevList(n)
  <2>1. Recent(n) \subseteq Commits \cap Store
    BY <1>1, RecentFacts
  <2>2. ShallowList(n, ours) = DeepenedByRevList(Recent(n))
    BY <1>3 DEF ShallowList
  <2> QED
    BY <2>1, <2>2 DEF DeepenedByRevList, Frontier
<1>4. CASE ~(n.depth > 0 /\ ~ByRevList(n)) /\ ~(n.depth = 0 /\ ByRevList(n))
  <2>1. ShallowList(n, ours) = NoList
    BY <1>1, <1>4 DEF ShallowList
  <2> QED
    BY <2>1 DEF NoList
<1> QED
  BY <1>2, <1>3, <1>4, <1>5

(* The answer to a request is of objects that are here.                    *)
LEMMA AnswerTypes ==
  ASSUME NEW n \in Requests, n.wants \subseteq Store, NEW ours \in SUBSET Store,
         SendShallowList(n, ours)
  PROVE  /\ boundary' \in SUBSET (Commits \cap Store)
         /\ opened' \in SUBSET (Commits \cap Store)
         /\ wants' \in SUBSET Store /\ wants' = n.wants \cup WantedToo(opened')
         /\ boundary' = ShallowList(n, ours).boundary \ n.shallow
         /\ opened' = n.shallow \cap ShallowList(n, ours).whole
<1> DEFINE list == ShallowList(n, ours)
<1>1. /\ list.boundary \in SUBSET (Commits \cap Store)
      /\ list.whole \in SUBSET (Commits \cap Store)
  BY ListTypes
<1>2. /\ boundary' = list.boundary \ n.shallow
      /\ opened' = n.shallow \cap list.whole
      /\ wants' = n.wants \cup WantedToo(n.shallow \cap list.whole)
  BY DEF SendShallowList
<1> HIDE DEF list
<1>3. \A c \in Commits \cap Store : Parents[c] \subseteq Store
  BY ObjectGraphAssumption, UploadPackAssumption DEF Closed
<1>4. /\ boundary' \in SUBSET (Commits \cap Store)
      /\ opened' \in SUBSET (Commits \cap Store)
      /\ wants' \in SUBSET Store /\ wants' = n.wants \cup WantedToo(opened')
  BY <1>1, <1>2, <1>3 DEF WantedToo
<1> QED
  BY <1>2, <1>4 DEF list

LEMMA InitUpload ==
  ASSUME Init
  PROVE  UploadInv
<1>1. NoNeed \in Requests
  <2>1. <<>> \in Seq(Objects)
    OBVIOUS
  <2> QED
    BY <2>1 DEF NoNeed, Requests
<1>2. Typed
  <2>1. <<>> \in Seq(Store) /\ <<>> \in Seq(Said) /\ 0 \in 0..Lines
    BY UploadPackAssumption
  <2> QED
    BY <1>1, <2>1 DEF Init, Typed, Phases
<1>3. InPhase /\ ReadyIsMet /\ Granted /\ PackIsMade /\ ListIsSent
  BY DEF Init, InPhase, ReadyIsMet, Granted, PackIsMade, ListIsSent, Answered
<1> QED
  BY <1>2, <1>3 DEF UploadInv

(* A step that leaves the request and its answer as they are, and leads    *)
(* into no phase that says more of them.                                   *)
Advances ==
  /\ UNCHANGED <<refs, version, need, wants, haves, boundary, opened, pack>>
  /\ phase' \in Phases /\ reply' \in Seq(Said) /\ lines' \in 0..Lines
  /\ gotCommon' \in BOOLEAN /\ gotOther' \in BOOLEAN /\ ready' \in BOOLEAN
  /\ ready' => ready \/ Met(IF version = "v0" THEN wants ELSE need.wants, haves)
  /\ phase' \in {"peek", "negotiate", "pack", "packed"} =>
       phase \in {"peek", "negotiate", "pack", "packed"}
  /\ phase' = "packed" => phase = "packed"
  /\ phase' = "peek" => phase = "peek"

LEMMA AdvancesKeeps ==
  ASSUME UploadInv, Advances, InPhase'
  PROVE  UploadInv'
<1>1. Typed'
  BY DEF UploadInv, Advances, Typed
<1>2. ReadyIsMet'
  BY DEF UploadInv, Advances, ReadyIsMet, Met, HaveSet
<1>3. Granted'
  BY DEF UploadInv, Advances, Granted
<1>4. PackIsMade'
  BY DEF UploadInv, Advances, PackIsMade
<1>5. ListIsSent'
  <2> SUFFICES ASSUME Answered'
               PROVE  /\ boundary' = ShallowList(need', Ours').boundary \ need'.shallow
                      /\ opened' = need'.shallow \cap ShallowList(need', Ours').whole
    BY DEF ListIsSent
  <2>1. Answered
    BY DEF Answered, Advances
  <2>2. Ours' = Ours /\ need' = need /\ boundary' = boundary /\ opened' = opened
    BY DEF Advances, Ours, OurRefs, Listed
  <2> QED
    BY <2>1, <2>2 DEF UploadInv, ListIsSent
<1> QED
  BY <1>1, <1>2, <1>3, <1>4, <1>5 DEF UploadInv

LEMMA MoreLines ==
  ASSUME UploadInv, More
  PROVE  lines' \in 0..Lines
BY UploadPackAssumption DEF UploadInv, Typed, More

LEMMA AdvertiseRefsKeeps ==
  ASSUME UploadInv, AdvertiseRefs
  PROVE  UploadInv'
<1>1. reply' \in Seq(Said)
  <2>1. Line("capabilities", None) \in Said
    BY LineIsSaid DEF Kinds
  <2>2. refs \in Setups
    BY DEF UploadInv, Typed
  <2>3. RefLines(AllNames, TRUE) \in Seq(Said)
    BY <2>2, RefLinesSaid
  <2>4. reply' = <<Line("capabilities", None)>> \/ reply' = RefLines(AllNames, TRUE)
    BY Zenon DEF AdvertiseRefs
  <2>5. <<Line("capabilities", None)>> \in Seq(Said)
    BY <2>1
  <2> QED
    BY <2>3, <2>4, <2>5, Zenon
<1>2. Advances
  BY <1>1 DEF UploadInv, Typed, AdvertiseRefs, Advances, Phases
<1>3. InPhase'
  BY DEF UploadInv, InPhase, AdvertiseRefs
<1> QED
  BY <1>2, <1>3, AdvancesKeeps

LEMMA AdvertiseCapabilitiesKeeps ==
  ASSUME UploadInv, AdvertiseCapabilities
  PROVE  UploadInv'
<1>1. reply' \in Seq(Said)
  <2>1. Line("capabilities", None) \in Said
    BY LineIsSaid DEF Kinds
  <2> QED
    BY <2>1 DEF AdvertiseCapabilities
<1>2. Advances
  BY <1>1 DEF UploadInv, Typed, AdvertiseCapabilities, Advances, Phases
<1>3. InPhase'
  BY DEF UploadInv, InPhase, AdvertiseCapabilities
<1> QED
  BY <1>2, <1>3, AdvancesKeeps

LEMMA EndRequestsKeeps ==
  ASSUME UploadInv, EndRequests
  PROVE  UploadInv'
<1>1. reply' \in Seq(Said)
  BY DEF EndRequests
<1>2. Advances
  BY <1>1 DEF UploadInv, Typed, EndRequests, Advances, Phases
<1>3. InPhase'
  BY DEF UploadInv, InPhase, EndRequests
<1> QED
  BY <1>2, <1>3, AdvancesKeeps

LEMMA LsRefsKeeps ==
  ASSUME UploadInv, LsRefs
  PROVE  UploadInv'
<1>1. reply' \in Seq(Said)
  <2>1. PICK names \in {AllNames, {"HEAD"}}, peel \in BOOLEAN, unborn \in BOOLEAN :
          reply' = (IF "HEAD" \in names /\ HeadOid = None /\ unborn
                    THEN <<Line("unborn", None)>> ELSE <<>>)
                   \o RefLines(names, peel) \o <<Line("flush", None)>>
    BY DEF LsRefs
  <2>2. Line("unborn", None) \in Said /\ Line("flush", None) \in Said
    BY LineIsSaid DEF Kinds
  <2>3. refs \in Setups
    BY DEF UploadInv, Typed
  <2>4. RefLines(names, peel) \in Seq(Said)
    BY <2>3, RefLinesSaid
  <2> QED
    BY <2>1, <2>2, <2>4
<1>2. More
  BY DEF LsRefs, Request
<1>3. Advances
  BY <1>1, <1>2, MoreLines DEF UploadInv, Typed, LsRefs, Advances
<1>4. InPhase'
  BY DEF UploadInv, InPhase, LsRefs
<1> QED
  BY <1>3, <1>4, AdvancesKeeps

LEMMA InfoLinesSaid ==
  ASSUME NEW oids \in SUBSET Objects, NEW size
  PROVE  [i \in DOMAIN SetToSeq(oids) |->
           Line(IF size /\ ~Known(SetToSeq(oids)[i]) THEN "no info" ELSE "info",
                SetToSeq(oids)[i])] \in Seq(Said)
<1> DEFINE asked == SetToSeq(oids)
           info(o) == Line(IF size /\ ~Known(o) THEN "no info" ELSE "info", o)
           about == [i \in DOMAIN asked |-> info(asked[i])]
<1>1. \A o \in Objects : info(o) \in Said
  BY LineIsSaid DEF Kinds
<1>2. IsFiniteSet(oids)
  BY ObjectIteratorAssumption, FS_Subset
<1>3. asked \in Seq(oids)
  BY <1>2, SetToSeqFacts
<1> HIDE DEF asked, info
<1>4. DOMAIN asked = 1..Len(asked) /\ Len(asked) \in Nat /\ \A i \in DOMAIN asked : asked[i] \in oids
  BY <1>3
<1>5. about \in Seq(Said)
  BY <1>1, <1>4
<1> QED
  BY <1>5 DEF asked, info

LEMMA ObjectInfoKeeps ==
  ASSUME UploadInv, ObjectInfo
  PROVE  UploadInv'
<1>1. reply' \in Seq(Said)
  <2>1. PICK oids \in {{}, Haves}, size \in BOOLEAN :
          reply' = IF oids = {} THEN <<>>
                   ELSE (IF size THEN <<Line("size", None)>> ELSE <<>>)
                        \o [i \in DOMAIN SetToSeq(oids) |->
                             Line(IF size /\ ~Known(SetToSeq(oids)[i]) THEN "no info" ELSE "info",
                                  SetToSeq(oids)[i])]
                        \o <<Line("flush", None)>>
    BY Zenon DEF ObjectInfo
  <2>2. PICK about : about = [i \in DOMAIN SetToSeq(oids) |->
                               Line(IF size /\ ~Known(SetToSeq(oids)[i]) THEN "no info"
                                    ELSE "info", SetToSeq(oids)[i])]
    OBVIOUS
  <2>3. about \in Seq(Said)
    <3>1. oids \in SUBSET Objects
      BY UploadPackAssumption
    <3> QED
      BY <2>2, <3>1, InfoLinesSaid
  <2>4. reply' = IF oids = {} THEN <<>>
                 ELSE (IF size THEN <<Line("size", None)>> ELSE <<>>)
                      \o about \o <<Line("flush", None)>>
    BY <2>1, <2>2, Zenon
  <2>5. Line("size", None) \in Said /\ Line("flush", None) \in Said
    BY LineIsSaid DEF Kinds
  <2>6. (IF size THEN <<Line("size", None)>> ELSE <<>>) \in Seq(Said)
    BY <2>5
  <2> QED
    BY <2>3, <2>4, <2>5, <2>6
<1>2. More
  BY DEF ObjectInfo, Request
<1>3. Advances
  BY <1>1, <1>2, MoreLines DEF UploadInv, Typed, ObjectInfo, Advances
<1>4. InPhase'
  BY DEF UploadInv, InPhase, ObjectInfo
<1> QED
  BY <1>3, <1>4, AdvancesKeeps

LEMMA PeekFlushKeeps ==
  ASSUME UploadInv, PeekFlush
  PROVE  UploadInv'
<1>1. reply' \in Seq(Said)
  BY DEF PeekFlush
<1>2. More
  BY DEF PeekFlush
<1>3. Advances
  BY <1>1, <1>2, MoreLines DEF UploadInv, Typed, PeekFlush, Advances, Phases
<1>4. InPhase'
  BY DEF UploadInv, InPhase, PeekFlush
<1> QED
  BY <1>3, <1>4, AdvancesKeeps

LEMMA HangUpKeeps ==
  ASSUME UploadInv, HangUp
  PROVE  UploadInv'
<1>1. reply' \in Seq(Said)
  BY DEF HangUp
<1>2. phase' \in {"closed", "error"}
  BY DEF HangUp
<1>3. Advances
  BY <1>1, <1>2 DEF UploadInv, Typed, HangUp, Advances, Phases
<1>4. InPhase'
  BY <1>2 DEF UploadInv, InPhase, HangUp
<1> QED
  BY <1>3, <1>4, AdvancesKeeps

(* What both sides have is there to be named last.                         *)
LEMMA LastHaveInStore ==
  ASSUME haves \in Seq(Store), haves # <<>>
  PROVE  LastHave \in Store /\ LastHave \in Objects
<1>1. LastHave \in Store
  BY DEF LastHave
<1> QED
  BY <1>1, UploadPackAssumption

LEMMA DoneKeeps ==
  ASSUME UploadInv, Done
  PROVE  UploadInv'
<1>1. reply' \in Seq(Said)
  <2>1. reply' = <<Line("NAK", None)>> \/ reply' = <<>>
        \/ (haves # <<>> /\ reply' = <<Line("ACK", LastHave)>>)
    BY DEF Done
  <2>2. Line("NAK", None) \in Said
    BY LineIsSaid DEF Kinds
  <2>3. haves # <<>> => Line("ACK", LastHave) \in Said
    BY LastHaveInStore, LineIsSaid DEF Kinds, UploadInv, Typed
  <2>4. <<Line("NAK", None)>> \in Seq(Said) /\ <<>> \in Seq(Said)
    BY <2>2
  <2>5. haves # <<>> => <<Line("ACK", LastHave)>> \in Seq(Said)
    BY <2>3
  <2> QED
    BY <2>1, <2>4, <2>5, Zenon
<1>2. More
  BY DEF Done
<1>3. Advances
  BY <1>1, <1>2, MoreLines DEF UploadInv, Typed, Done, Advances, Phases, Negotiating
<1>4. InPhase'
  BY DEF UploadInv, InPhase, Done, Negotiating
<1> QED
  BY <1>3, <1>4, AdvancesKeeps

LEMMA HaveOtherKeeps ==
  ASSUME UploadInv, NEW o \in Haves, HaveOther(o)
  PROVE  UploadInv'
<1> DEFINE enough == need.multiAck # "none" /\ AllWantsReachable(wants, haves)
<1>1. reply' \in Seq(Said)
  <2>1. reply' = <<>> \/ reply' = <<Line("ACK ready", o)>> \/ reply' = <<Line("ACK continue", o)>>
    BY Zenon DEF HaveOther
  <2>2. Line("ACK ready", o) \in Said /\ Line("ACK continue", o) \in Said
    BY UploadPackAssumption, LineIsSaid DEF Kinds
  <2>3. /\ <<Line("ACK ready", o)>> \in Seq(Said) /\ <<Line("ACK continue", o)>> \in Seq(Said)
    BY <2>2, OneLine, Zenon
  <2>4. <<>> \in Seq(Said)
    OBVIOUS
  <2> QED
    BY <2>1, <2>3, <2>4, Zenon
<1>2. enough => Met(wants, haves)
  BY WantsMet DEF UploadInv, Typed, Met
<1>3. ready' = (ready \/ (enough /\ need.multiAck = "detailed"))
  BY DEF HaveOther
<1> HIDE DEF enough
<1>4. /\ version = "v0" /\ More /\ phase \in {"peek", "negotiate"} /\ phase' = "negotiate"
      /\ UNCHANGED <<refs, version, need, wants, haves, gotCommon, boundary, opened, pack>>
      /\ gotOther' = TRUE
  BY DEF HaveOther, Negotiating
<1>5. /\ ready' \in BOOLEAN
      /\ ready' => ready \/ Met(IF version = "v0" THEN wants ELSE need.wants, haves)
  BY <1>2, <1>3, <1>4, Zenon
<1>6. Advances
  BY <1>1, <1>4, <1>5, MoreLines DEF UploadInv, Typed, Advances, Phases
<1>7. InPhase'
  BY <1>4 DEF UploadInv, InPhase
<1> QED
  BY <1>6, <1>7, AdvancesKeeps

LEMMA FlushKeeps ==
  ASSUME UploadInv, Flush
  PROVE  UploadInv'
<1> DEFINE agreed == /\ need.multiAck = "detailed" /\ gotCommon /\ ~gotOther
                     /\ AllWantsReachable(wants, haves)
           isReady == ready \/ agreed
           nak == haves = <<>> \/ need.multiAck # "none"
<1>1. /\ version = "v0" /\ phase = "negotiate" /\ More
      /\ phase' = IF need.noDone /\ isReady THEN "pack"
                  ELSE IF need.stateless THEN "error" ELSE "negotiate"
      /\ UNCHANGED <<refs, version, need, wants, haves, boundary, opened, pack>>
      /\ ready' = isReady
  BY DEF Flush
<1>2. reply' = (IF agreed THEN <<Line("ACK ready", LastHave)>> ELSE <<>>)
               \o (IF nak THEN <<Line("NAK", None)>> ELSE <<>>)
               \o (IF need.noDone /\ isReady THEN <<Line("ACK", LastHave)>> ELSE <<>>)
  BY DEF Flush
<1>3. gotCommon' \in BOOLEAN /\ gotOther' \in BOOLEAN
  BY DEF Flush, UploadInv, Typed
<1>4. agreed => Met(wants, haves)
  BY WantsMet DEF UploadInv, Typed, Met
<1> HIDE DEF agreed, nak
<1>5. isReady => Met(wants, haves)
  BY <1>1, <1>4 DEF UploadInv, ReadyIsMet
<1>6. isReady \/ agreed => LastHave \in Store /\ LastHave \in Objects
  BY <1>4, <1>5, LastHaveInStore DEF Met, UploadInv, Typed
<1>8. isReady \in BOOLEAN
  BY DEF UploadInv, Typed
<1> DEFINE first == IF agreed THEN <<Line("ACK ready", LastHave)>> ELSE <<>>
           second == IF nak THEN <<Line("NAK", None)>> ELSE <<>>
           third == IF need.noDone /\ isReady THEN <<Line("ACK", LastHave)>> ELSE <<>>
<1>9. first \in Seq(Said) /\ second \in Seq(Said) /\ third \in Seq(Said)
  <2> HIDE DEF isReady
  <2>1. Line("NAK", None) \in Said
    BY LineIsSaid DEF Kinds
  <2>2. agreed => Line("ACK ready", LastHave) \in Said
    BY <1>6, LineIsSaid DEF Kinds
  <2>3. isReady => Line("ACK", LastHave) \in Said
    BY <1>6, LineIsSaid DEF Kinds
  <2>4. /\ <<Line("NAK", None)>> \in Seq(Said)
        /\ agreed => <<Line("ACK ready", LastHave)>> \in Seq(Said)
        /\ isReady => <<Line("ACK", LastHave)>> \in Seq(Said)
    BY <2>1, <2>2, <2>3, OneLine, Zenon
  <2>5. <<>> \in Seq(Said)
    OBVIOUS
  <2> QED
    BY <2>4, <2>5, Zenon
<1>10. reply' = first \o second \o third
  BY <1>2
<1> HIDE DEF first, second, third, isReady
<1>11. reply' \in Seq(Said)
  BY <1>9, <1>10
<1>12. Advances
  BY <1>1, <1>3, <1>5, <1>8, <1>11, MoreLines DEF UploadInv, Typed, Advances, Phases
<1>13. InPhase'
  BY <1>1 DEF UploadInv, InPhase
<1> QED
  BY <1>12, <1>13, AdvancesKeeps

LEMMA HaveCommonKeeps ==
  ASSUME UploadInv, NEW o \in Haves, HaveCommon(o)
  PROVE  UploadInv'
<1>1. /\ version = "v0" /\ More /\ phase \in {"peek", "negotiate"} /\ phase' = "negotiate"
      /\ o \in Store /\ haves' = Append(haves, o) /\ gotCommon' = TRUE
      /\ UNCHANGED <<refs, version, need, wants, gotOther, ready, boundary, opened, pack>>
  BY DEF HaveCommon, Negotiating, Known
<1>2. reply' \in Seq(Said)
  <2>1. reply' = <<Line("ACK common", o)>> \/ reply' = <<Line("ACK continue", o)>>
        \/ reply' = <<Line("ACK", o)>> \/ reply' = <<>>
    BY DEF HaveCommon
  <2>2. /\ Line("ACK common", o) \in Said /\ Line("ACK continue", o) \in Said
        /\ Line("ACK", o) \in Said
    BY <1>1, UploadPackAssumption, LineIsSaid DEF Kinds
  <2>3. /\ <<Line("ACK common", o)>> \in Seq(Said) /\ <<Line("ACK continue", o)>> \in Seq(Said)
        /\ <<Line("ACK", o)>> \in Seq(Said)
    BY <2>2, OneLine, Zenon
  <2>4. <<>> \in Seq(Said)
    OBVIOUS
  <2> QED
    BY <2>1, <2>3, <2>4, Zenon
<1>3. lines' \in 0..Lines
  BY <1>1, MoreLines
<1>4. haves \in Seq(Store) /\ haves' \in Seq(Store)
  BY <1>1 DEF UploadInv, Typed
<1>5. Typed'
  BY <1>1, <1>2, <1>3, <1>4 DEF UploadInv, Typed, Phases
<1>6. InPhase'
  BY <1>1 DEF UploadInv, InPhase
<1>7. ReadyIsMet'
  <2>1. haves' # <<>> /\ HaveSet(haves) \subseteq HaveSet(haves')
    BY <1>1, <1>4 DEF HaveSet
  <2>2. ready => \A w \in wants : ({w} \cup HistoryOf[w]) \cap HaveSet(haves) # {}
    BY <1>1 DEF UploadInv, ReadyIsMet, Met
  <2>3. ready => \A w \in wants : ({w} \cup HistoryOf[w]) \cap HaveSet(haves') # {}
    BY <2>1, <2>2
  <2> QED
    BY <1>1, <2>1, <2>3 DEF ReadyIsMet, Met
<1>8. Granted'
  BY <1>1 DEF UploadInv, Granted
<1>9. PackIsMade' /\ ListIsSent'
  BY <1>1 DEF PackIsMade, ListIsSent, Answered
<1> QED
  BY <1>5, <1>6, <1>7, <1>8, <1>9 DEF UploadInv

LEMMA WritePackKeeps ==
  ASSUME UploadInv, WritePack
  PROVE  UploadInv'
<1>1. /\ version = "v0" /\ phase = "pack" /\ phase' = "packed" /\ pack' = PackOf(wants)
      /\ reply' = <<Line("flush", None)>>
      /\ UNCHANGED <<refs, version, need, wants, haves, gotCommon, gotOther, ready,
                     boundary, opened, lines>>
  BY DEF WritePack
<1>2. reply' \in Seq(Said)
  <2>1. Line("flush", None) \in Said
    BY LineIsSaid DEF Kinds
  <2> QED
    BY <1>1, <2>1
<1>3. pack' \in SUBSET Store
  BY <1>1, PackFacts DEF UploadInv, Typed
<1>4. Typed'
  BY <1>1, <1>2, <1>3 DEF UploadInv, Typed, Phases
<1>5. InPhase'
  BY <1>1 DEF UploadInv, InPhase
<1>6. ReadyIsMet'
  BY <1>1 DEF UploadInv, ReadyIsMet, Met, HaveSet
<1>7. Granted'
  BY <1>1 DEF UploadInv, Granted
<1>8. PackIsMade' /\ ListIsSent'
  BY <1>1 DEF PackIsMade, ListIsSent, Answered
<1> QED
  BY <1>4, <1>5, <1>6, <1>7, <1>8 DEF UploadInv

(* A request the session keeps: the shallow commits it knows, and the      *)
(* wanted refs by their oids.                                              *)
LEMMA AskedIsRequest ==
  ASSUME NEW n \in Asked, NEW more \in SUBSET (Objects \cup {None})
  PROVE  /\ [n EXCEPT !.shallow = @ \cap Store \cap Commits] \in Requests
         /\ [n EXCEPT !.shallow = @ \cap Store \cap Commits, !.wants = @ \cup more] \in Requests
         /\ [n EXCEPT !.shallow = @ \cap Store \cap Commits].wants = n.wants
         /\ Len(n.haves) \in Nat
         /\ [n EXCEPT !.shallow = @ \cap Store \cap Commits,
                      !.wants = @ \cup more].haves = n.haves
<1> DEFINE k == [n EXCEPT !.shallow = @ \cap Store \cap Commits]
           l == [n EXCEPT !.shallow = @ \cap Store \cap Commits, !.wants = @ \cup more]
           shallow == n.shallow \cap Store \cap Commits
           ws == n.wants \cup more
<1>1. shallow \in SUBSET (Store \cap Commits) /\ n.wants \in SUBSET (Objects \cup {None})
      /\ ws \in SUBSET (Objects \cup {None}) /\ n.haves \in Seq(Objects)
  BY DEF Asked
<1>2. k = [n EXCEPT !.shallow = shallow]
      /\ l = [[n EXCEPT !.shallow = shallow] EXCEPT !.wants = ws]
  BY DEF Asked
<1> HIDE DEF k, l, shallow, ws
<1>3. k \in Requests /\ k.wants = n.wants
  BY <1>1, <1>2 DEF Asked, Requests
<1>4. l = [k EXCEPT !.wants = ws]
  BY <1>2
<1>5. l \in Requests
  BY <1>1, <1>3, <1>4 DEF Requests
<1>6. k.haves = n.haves
  BY <1>2 DEF Asked
<1>7. l.haves = n.haves
  BY <1>3, <1>4, <1>6 DEF Requests
<1> QED
  BY <1>1, <1>3, <1>5, <1>7 DEF k, l

LEMMA ReceiveNeedsKeeps ==
  ASSUME UploadInv, ReceiveNeeds
  PROVE  UploadInv'
<1>1. PICK n \in Needs :
        LET known == [n EXCEPT !.shallow = @ \cap Store \cap Commits]
            asked == n.depth > 0 \/ ByRevList(n)
        IN  /\ need' = known
            /\ IF ~(n.wants \subseteq Store)
               THEN /\ phase' = "error" /\ reply' = <<Line("not our ref", None)>>
                    /\ UNCHANGED <<wants, boundary, opened>>
               ELSE IF ShallowListFails(known)
               THEN /\ phase' = "error" /\ reply' = <<>>
                    /\ UNCHANGED <<wants, boundary, opened>>
               ELSE /\ SendShallowList(known, OurRefs)
                    /\ phase' = IF n.sideband /\ n.wants # {} THEN "peek" ELSE "error"
                    /\ reply' = IF asked THEN <<Line("flush", None)>> ELSE <<>>
  BY Zenon DEF ReceiveNeeds
<1>2. PICK k : k = [n EXCEPT !.shallow = @ \cap Store \cap Commits]
  OBVIOUS
<1>3. k \in Requests /\ k.wants = n.wants
  <2>1. n \in Asked /\ {} \in SUBSET (Objects \cup {None})
    BY UploadPackAssumption
  <2> QED
    BY <1>2, <2>1, AskedIsRequest
<1>4. /\ version = "v0" /\ phase = "needs"
      /\ UNCHANGED <<refs, version, haves, gotCommon, gotOther, ready, pack, lines>>
  BY DEF ReceiveNeeds
<1>5. need' = k
  BY <1>1, <1>2, Zenon
<1>6. \/ phase' = "error" /\ UNCHANGED <<wants, boundary, opened>>
      \/ /\ n.wants \subseteq Store /\ SendShallowList(k, OurRefs)
         /\ phase' \in {"peek", "error"}
  <2>1. \/ phase' = "error" /\ UNCHANGED <<wants, boundary, opened>>
        \/ /\ n.wants \subseteq Store /\ SendShallowList(k, OurRefs)
           /\ phase' = IF n.sideband /\ n.wants # {} THEN "peek" ELSE "error"
    BY <1>1, <1>2, Zenon
  <2> QED
    BY <2>1
<1>7. reply' \in Seq(Said)
  <2>1. \/ reply' = <<Line("not our ref", None)>> \/ reply' = <<>>
        \/ reply' = <<Line("flush", None)>>
    BY <1>1, Zenon
  <2>2. <<Line("not our ref", None)>> \in Seq(Said) /\ <<Line("flush", None)>> \in Seq(Said)
    BY LineIsSaid, OneLine DEF Kinds
  <2>3. <<>> \in Seq(Said)
    OBVIOUS
  <2> QED
    BY <2>1, <2>2, <2>3, Zenon
<1>8. OurRefs \in SUBSET Store /\ Ours = OurRefs /\ OurRefs' = OurRefs /\ Ours' = OurRefs
  BY <1>4, RefsAreInStore DEF UploadInv, Typed, Ours, OurRefs, Listed
<1>9. CASE phase' = "error" /\ UNCHANGED <<wants, boundary, opened>>
  <2>1. Typed'
    BY <1>3, <1>4, <1>5, <1>7, <1>9 DEF UploadInv, Typed, Phases
  <2>2. InPhase' /\ ReadyIsMet'
    BY <1>4, <1>9 DEF UploadInv, InPhase, ReadyIsMet
  <2>3. Granted' /\ PackIsMade' /\ ListIsSent'
    BY <1>4, <1>9 DEF Granted, PackIsMade, ListIsSent, Answered
  <2> QED
    BY <2>1, <2>2, <2>3 DEF UploadInv
<1>10. CASE /\ n.wants \subseteq Store /\ SendShallowList(k, OurRefs)
            /\ phase' \in {"peek", "error"}
  <2>1. /\ boundary' \in SUBSET (Commits \cap Store)
        /\ opened' \in SUBSET (Commits \cap Store)
        /\ wants' \in SUBSET Store /\ wants' = k.wants \cup WantedToo(opened')
        /\ boundary' = ShallowList(k, OurRefs).boundary \ k.shallow
        /\ opened' = k.shallow \cap ShallowList(k, OurRefs).whole
    BY <1>3, <1>8, <1>10, AnswerTypes
  <2>2. Typed'
    BY <1>3, <1>4, <1>5, <1>7, <1>10, <2>1 DEF UploadInv, Typed, Phases
  <2>3. InPhase' /\ ReadyIsMet'
    BY <1>4, <1>10 DEF UploadInv, InPhase, ReadyIsMet
  <2>4. Granted'
    BY <1>3, <1>5, <1>10, <2>1 DEF Granted
  <2>5. PackIsMade'
    BY <1>10 DEF PackIsMade
  <2>6. ListIsSent'
    BY <1>5, <1>8, <2>1 DEF ListIsSent
  <2> QED
    BY <2>2, <2>3, <2>4, <2>5, <2>6 DEF UploadInv
<1> QED
  BY <1>6, <1>9, <1>10

LEMMA FetchKeeps ==
  ASSUME UploadInv, Fetch
  PROVE  UploadInv'
<1>1. PICK asked \in Fetches :
        LET n == [asked EXCEPT !.shallow = @ \cap Store \cap Commits,
                               !.wants = @ \cup {refs.value[r] : r \in asked.wantRefs}]
        IN  /\ need' = n
            /\ FetchRefused(n) \/ FetchNothing(n) \/ FetchRound(n) \/ FetchPack(n)
  BY Zenon DEF Fetch
<1>2. PICK n : n = [asked EXCEPT !.shallow = @ \cap Store \cap Commits,
                                 !.wants = @ \cup {refs.value[r] : r \in asked.wantRefs}]
  OBVIOUS
<1>3. /\ need' = n
      /\ FetchRefused(n) \/ FetchNothing(n) \/ FetchRound(n) \/ FetchPack(n)
  BY <1>1, <1>2, Zenon
<1>4. /\ version = "v2" /\ phase = "needs" /\ More
      /\ UNCHANGED <<refs, version, gotCommon, gotOther>>
  BY DEF Fetch, Request
<1>5. refs \in Setups
  BY DEF UploadInv, Typed
<1>6. n \in Requests /\ Len(n.haves) \in Nat
  <2>1. asked \in Asked
    BY UploadPackAssumption
  <2>2. PICK more : more = {refs.value[r] : r \in asked.wantRefs}
    OBVIOUS
  <2>3. more \in SUBSET (Objects \cup {None})
    <3>1. refs.value \in [RefNames -> Store \cup {None}] /\ Store \subseteq Objects
      BY <1>5, UploadPackAssumption
    <3>2. asked.wantRefs \subseteq RefNames
      BY <2>1 DEF Asked
    <3> QED
      BY <2>2, <3>1, <3>2
  <2>4. n = [asked EXCEPT !.shallow = @ \cap Store \cap Commits, !.wants = @ \cup more]
    BY <1>2, <2>2
  <2> QED
    BY <2>1, <2>3, <2>4, AskedIsRequest
<1>7. NamedHaves(n) \in Seq(Store) /\ <<>> \in Seq(Store)
  BY <1>6, NamedHavesType
<1>8. lines' \in 0..Lines
  BY <1>4, MoreLines
<1>9. Ours = {} /\ Ours' = {}
  BY <1>4 DEF Ours
<1>10. <<>> \in Seq(Said) /\ \A kind \in Kinds : kind \notin {"ACK", "ACK common"} =>
          Line(kind, None) \in Said /\ <<Line(kind, None)>> \in Seq(Said)
  <2>1. <<>> \in Seq(Said)
    OBVIOUS
  <2>2. ASSUME NEW kind \in Kinds, kind \notin {"ACK", "ACK common"}
        PROVE  Line(kind, None) \in Said
    BY <2>2, LineIsSaid
  <2> QED
    BY <2>1, <2>2, OneLine, Zenon
<1>11. Acknowledgments(n) \in Seq(Said)
  BY <1>7, AcknowledgmentsSaid
<1>12. CASE FetchRefused(n) \/ FetchNothing(n)
  <2>1. NoAnswer /\ phase' \in {"error", "needs"}
    BY <1>12 DEF FetchRefused, FetchNothing
  <2>2. reply' \in Seq(Said)
    <3>1. reply' = <<Line("not our ref", None)>> \/ reply' = <<>>
      BY <1>12 DEF FetchRefused, FetchNothing
    <3>2. <<Line("not our ref", None)>> \in Seq(Said)
      BY <1>10 DEF Kinds
    <3> QED
      BY <1>10, <3>1, <3>2, Zenon
  <2>3. Typed'
    BY <1>3, <1>4, <1>6, <1>7, <1>8, <2>1, <2>2 DEF UploadInv, Typed, NoAnswer, Phases
  <2>4. InPhase' /\ ReadyIsMet' /\ Granted' /\ PackIsMade' /\ ListIsSent'
    BY <1>4, <2>1
       DEF NoAnswer, InPhase, ReadyIsMet, Granted, PackIsMade, ListIsSent, Answered
  <2> QED
    BY <2>3, <2>4 DEF UploadInv
<1>13. CASE FetchRound(n)
  <2>1. /\ n.wants \subseteq Store /\ wants' = n.wants /\ haves' = NamedHaves(n)
        /\ ready' = FALSE /\ boundary' = {} /\ opened' = {} /\ pack' = {} /\ phase' = "needs"
        /\ reply' = Acknowledgments(n) \o <<Line("flush", None), Line("flush", None)>>
    BY <1>13 DEF FetchRound, Answers
  <2>2. reply' \in Seq(Said)
    <3>1. Line("flush", None) \in Said
      BY <1>10 DEF Kinds
    <3>2. <<Line("flush", None), Line("flush", None)>> \in Seq(Said)
      BY <3>1
    <3> QED
      BY <1>11, <2>1, <3>2
  <2>3. Typed'
    BY <1>3, <1>4, <1>6, <1>7, <1>8, <2>1, <2>2 DEF UploadInv, Typed, Phases
  <2>4. InPhase' /\ ReadyIsMet' /\ Granted' /\ PackIsMade' /\ ListIsSent'
    BY <1>4, <2>1 DEF InPhase, ReadyIsMet, Granted, PackIsMade, ListIsSent, Answered
  <2> QED
    BY <2>3, <2>4 DEF UploadInv
<1>14. CASE FetchPack(n)
  <2>1. /\ n.wants \subseteq Store /\ haves' = NamedHaves(n) /\ ready' = IsRound(n)
        /\ IsRound(n) => EnoughNamed(n)
        /\ SendShallowList(n, {}) /\ pack' = PackOf(wants') /\ phase' = "packed"
    BY <1>14 DEF FetchPack, Answers
  <2>2. /\ boundary' \in SUBSET (Commits \cap Store)
        /\ opened' \in SUBSET (Commits \cap Store)
        /\ wants' \in SUBSET Store /\ wants' = n.wants \cup WantedToo(opened')
        /\ boundary' = ShallowList(n, {}).boundary \ n.shallow
        /\ opened' = n.shallow \cap ShallowList(n, {}).whole
    <3>1. {} \in SUBSET Store
      OBVIOUS
    <3> QED
      BY <1>6, <2>1, <3>1, AnswerTypes
  <2>3. pack' \in SUBSET Store
    BY <2>1, <2>2, PackFacts
  <2>4. reply' \in Seq(Said)
    <3> DEFINE section(b, kind) == IF b THEN <<Line(kind, None)>> ELSE <<>>
    <3>1. PICK r, a, b : /\ r = IF IsRound(n) THEN Acknowledgments(n) \o <<Line("ready", None)>>
                                ELSE <<>>
                         /\ a = section(n.wantRefs # {}, "wanted-refs")
                         /\ b = section(n.depth > 0 \/ ByRevList(n) \/ n.shallow # {},
                                        "shallow-info")
      OBVIOUS
    <3>2. reply' = r \o a \o b \o <<Line("packfile", None), Line("flush", None)>>
      BY <1>14, <3>1, Zenon DEF FetchPack
    <3>3. /\ <<Line("ready", None)>> \in Seq(Said) /\ <<Line("wanted-refs", None)>> \in Seq(Said)
          /\ <<Line("shallow-info", None)>> \in Seq(Said)
          /\ Line("packfile", None) \in Said /\ Line("flush", None) \in Said
      BY <1>10 DEF Kinds
    <3>4. a \in Seq(Said) /\ b \in Seq(Said)
      BY <1>10, <3>1, <3>3, Zenon
    <3>5. Acknowledgments(n) \o <<Line("ready", None)>> \in Seq(Said)
      BY <1>11, <3>3
    <3>6. r \in Seq(Said)
      BY <1>10, <3>1, <3>5, Zenon
    <3>7. <<Line("packfile", None), Line("flush", None)>> \in Seq(Said)
      BY <3>3
    <3> QED
      BY <3>2, <3>4, <3>6, <3>7
  <2>5. ready' \in BOOLEAN
    BY <2>1 DEF IsRound
  <2>6. Typed'
    BY <1>3, <1>4, <1>6, <1>7, <1>8, <2>1, <2>2, <2>3, <2>4, <2>5 DEF UploadInv, Typed, Phases
  <2>7. InPhase'
    BY <1>4, <2>1 DEF InPhase
  <2>8. ReadyIsMet'
    <3>1. IsRound(n) => Met(n.wants, NamedHaves(n))
      <4>1. IsRound(n) => AllWantsReachable(n.wants, NamedHaves(n))
        BY <2>1 DEF EnoughNamed
      <4> QED
        BY <2>1, <4>1, WantsMet DEF Met
    <3> QED
      BY <1>3, <1>4, <2>1, <3>1 DEF ReadyIsMet
  <2>9. Granted' /\ PackIsMade'
    BY <1>3, <2>1, <2>2 DEF Granted, PackIsMade
  <2>10. ListIsSent'
    BY <1>3, <1>9, <2>2 DEF ListIsSent
  <2> QED
    BY <2>6, <2>7, <2>8, <2>9, <2>10 DEF UploadInv
<1> QED
  BY <1>3, <1>12, <1>13, <1>14

LEMMA UploadStep ==
  ASSUME UploadInv, [Next]_vars
  PROVE  UploadInv'
<1>1. CASE UNCHANGED vars
  <2>1. Advances
    BY <1>1 DEF vars, UploadInv, Typed, Advances
  <2>2. InPhase'
    BY <1>1 DEF vars, UploadInv, InPhase
  <2> QED
    BY <2>1, <2>2, AdvancesKeeps
<1>2. CASE \E o \in Haves : HaveCommon(o) \/ HaveOther(o)
  BY <1>2, HaveCommonKeeps, HaveOtherKeeps
<1> QED
  BY <1>1, <1>2, AdvertiseRefsKeeps, ReceiveNeedsKeeps, PeekFlushKeeps, HangUpKeeps,
     FlushKeeps, DoneKeeps, WritePackKeeps, AdvertiseCapabilitiesKeeps, EndRequestsKeeps,
     LsRefsKeeps, ObjectInfoKeeps, FetchKeeps DEF Next

-----------------------------------------------------------------------------
(* What the invariant says of a session. *)

LEMMA InvTypes ==
  ASSUME UploadInv
  PROVE  TypeOK
<1>1. Typed /\ InPhase
  BY DEF UploadInv
<1>2. need.wants \subseteq Objects \cup {None} /\ need.shallow \subseteq Objects
  BY <1>1, UploadPackAssumption DEF Typed, Requests
<1>3. HaveSet(haves) \subseteq Store
  BY <1>1 DEF Typed, HaveSet
<1>4. \A i \in DOMAIN reply : {reply[i].oid, reply[i].peeled} \subseteq Objects \cup {None}
  <2>1. \A i \in DOMAIN reply : reply[i] \in Said
    BY <1>1 DEF Typed
  <2> QED
    BY <2>1 DEF Said
<1>5. pack # {} => phase \in {"packed", "needs", "closed", "error"}
  BY <1>1 DEF Typed, InPhase, Phases
<1> QED
  BY <1>1, <1>2, <1>3, <1>4, <1>5 DEF Typed, TypeOK

LEMMA InvPacks ==
  ASSUME UploadInv
  PROVE  PackIsComplete
<1> SUFFICES ASSUME phase = "packed"
             PROVE  /\ \A o \in need.wants : Reach[o] \subseteq pack
                    /\ \A c \in opened : \A p \in Parents[c] : Reach[p] \subseteq pack
  BY DEF PackIsComplete
<1>1. wants \in SUBSET Store /\ wants = need.wants \cup WantedToo(opened) /\ pack = PackOf(wants)
  BY DEF UploadInv, Typed, Granted, PackIsMade
<1>2. \A o \in wants : Reach[o] \subseteq pack
  BY <1>1, PackFacts
<1> QED
  BY <1>1, <1>2 DEF WantedToo

(* What a step says is justified by the haves and wants it leaves.  A line *)
(* that acknowledges nothing always is.                                    *)
Acking == {"ACK", "ACK common", "ACK continue", "ACK ready"}

Quiet == {l \in Said : l.kind \notin Acking}

Just(ws, hs) ==
  {l \in Said :
     /\ l.kind \in Acking =>
          \/ l.oid \in Store \cap HaveSet(hs)
          \/ l.kind \in {"ACK continue", "ACK ready"} /\ Met(ws, hs)
     /\ l.kind = "ACK ready" => Met(ws, hs)}

LEMMA Singles ==
  ASSUME NEW S
  PROVE  <<>> \in Seq(S) /\ \A l \in S : <<l>> \in Seq(S)
OBVIOUS

LEMMA Joined ==
  ASSUME NEW S, NEW a \in Seq(S), NEW b \in Seq(S), NEW c \in Seq(S)
  PROVE  a \o b \o c \in Seq(S)
OBVIOUS

LEMMA QuietIsJust ==
  ASSUME NEW s \in Seq(Quiet), NEW ws, NEW hs
  PROVE  s \in Seq(Just(ws, hs))
<1>1. Quiet \subseteq Just(ws, hs)
  BY DEF Quiet, Just, Acking
<1> HIDE DEF Quiet, Just
<1>2. s \in [1..Len(s) -> Quiet] /\ Len(s) \in Nat
  OBVIOUS
<1>3. s \in [1..Len(s) -> Just(ws, hs)]
  BY <1>1, <1>2
<1> QED
  BY <1>2, <1>3

LEMMA QuietLine ==
  ASSUME NEW kind \in Kinds \ Acking, NEW o \in Objects \cup {None}
  PROVE  Line(kind, o) \in Quiet /\ <<Line(kind, o)>> \in Seq(Quiet)
<1>1. Line(kind, o) \in Said
  BY LineIsSaid DEF Acking
<1>2. Line(kind, o) \in Quiet
  BY <1>1 DEF Quiet, Line
<1> QED
  BY <1>2

(* A sequence of lines none of which acknowledges. *)
LEMMA QuietLines ==
  ASSUME NEW s \in Seq(Said), \A i \in DOMAIN s : s[i].kind \notin Acking
  PROVE  s \in Seq(Quiet)
<1>1. s \in [1..Len(s) -> Said] /\ Len(s) \in Nat /\ DOMAIN s = 1..Len(s)
  OBVIOUS
<1> HIDE DEF Said
<1>2. \A i \in 1..Len(s) : s[i] \in Quiet
  BY <1>1 DEF Quiet
<1>3. s \in [1..Len(s) -> Quiet]
  BY <1>1, <1>2
<1> HIDE DEF Quiet
<1> QED
  BY <1>1, <1>3

LEMMA RefLinesQuiet ==
  ASSUME refs \in Setups, NEW names, NEW peel
  PROVE  RefLines(names, peel) \in Seq(Quiet)
<1>1. RefLines(names, peel) \in Seq(Said)
  BY RefLinesSaid
<1>2. \A i \in DOMAIN RefLines(names, peel) : RefLines(names, peel)[i].kind = "ref"
  BY DEF RefLines, Line
<1>3. "ref" \notin Acking
  BY DEF Acking
<1> QED
  BY <1>1, <1>2, <1>3, QuietLines

LEMMA InfoLinesQuiet ==
  ASSUME NEW oids \in SUBSET Objects, NEW size
  PROVE  [i \in DOMAIN SetToSeq(oids) |->
           Line(IF size /\ ~Known(SetToSeq(oids)[i]) THEN "no info" ELSE "info",
                SetToSeq(oids)[i])] \in Seq(Quiet)
<1> DEFINE about == [i \in DOMAIN SetToSeq(oids) |->
                      Line(IF size /\ ~Known(SetToSeq(oids)[i]) THEN "no info" ELSE "info",
                           SetToSeq(oids)[i])]
<1>1. about \in Seq(Said)
  BY InfoLinesSaid
<1>2. \A i \in DOMAIN about : about[i].kind \in {"no info", "info"}
  BY DEF Line
<1>3. "no info" \notin Acking /\ "info" \notin Acking
  BY DEF Acking
<1>4. \A i \in DOMAIN about : about[i].kind \notin Acking
  BY <1>2, <1>3
<1> HIDE DEF about
<1>5. about \in Seq(Quiet)
  BY <1>1, <1>4, QuietLines
<1> QED
  BY <1>5 DEF about

(* The steps that acknowledge nothing. *)
LEMMA QuietStep ==
  ASSUME UploadInv,
         \/ AdvertiseRefs \/ ReceiveNeeds \/ PeekFlush \/ HangUp \/ WritePack
         \/ AdvertiseCapabilities \/ EndRequests \/ LsRefs \/ ObjectInfo
  PROVE  reply' \in Seq(Quiet)
<1>1. /\ <<>> \in Seq(Quiet)
      /\ <<Line("capabilities", None)>> \in Seq(Quiet)
      /\ <<Line("not our ref", None)>> \in Seq(Quiet)
      /\ <<Line("unborn", None)>> \in Seq(Quiet)
      /\ <<Line("size", None)>> \in Seq(Quiet)
      /\ <<Line("flush", None)>> \in Seq(Quiet)
  <2>1. /\ None \in Objects \cup {None}
        /\ {"capabilities", "not our ref", "unborn", "size", "flush"} \subseteq Kinds \ Acking
    BY DEF Kinds, Acking
  <2> QED
    BY <2>1, QuietLine, Singles
<1>2. refs \in Setups
  BY DEF UploadInv, Typed
<1> HIDE DEF Quiet
<1>3. CASE AdvertiseRefs
  BY <1>1, <1>2, <1>3, RefLinesQuiet DEF AdvertiseRefs
<1>4. CASE ReceiveNeeds
  <2>1. \/ reply' = <<>> \/ reply' = <<Line("not our ref", None)>>
        \/ reply' = <<Line("flush", None)>>
    BY <1>4, Zenon DEF ReceiveNeeds
  <2> QED
    BY <1>1, <2>1, Zenon
<1>5. CASE PeekFlush \/ HangUp \/ EndRequests
  BY <1>1, <1>5 DEF PeekFlush, HangUp, EndRequests
<1>6. CASE WritePack \/ AdvertiseCapabilities
  BY <1>1, <1>6 DEF WritePack, AdvertiseCapabilities
<1>7. CASE LsRefs
  <2>1. PICK names \in {AllNames, {"HEAD"}}, peel \in BOOLEAN, unborn \in BOOLEAN :
          reply' = (IF "HEAD" \in names /\ HeadOid = None /\ unborn
                    THEN <<Line("unborn", None)>> ELSE <<>>)
                   \o RefLines(names, peel) \o <<Line("flush", None)>>
    BY <1>7 DEF LsRefs
  <2>2. RefLines(names, peel) \in Seq(Quiet)
    BY <1>2, RefLinesQuiet
  <2>3. (IF "HEAD" \in names /\ HeadOid = None /\ unborn
         THEN <<Line("unborn", None)>> ELSE <<>>) \in Seq(Quiet)
    BY <1>1, Zenon
  <2> QED
    BY <1>1, <2>1, <2>2, <2>3, Joined, Zenon
<1>8. CASE ObjectInfo
  <2>1. PICK oids \in {{}, Haves}, size \in BOOLEAN :
          reply' = IF oids = {} THEN <<>>
                   ELSE (IF size THEN <<Line("size", None)>> ELSE <<>>)
                        \o [i \in DOMAIN SetToSeq(oids) |->
                             Line(IF size /\ ~Known(SetToSeq(oids)[i]) THEN "no info" ELSE "info",
                                  SetToSeq(oids)[i])]
                        \o <<Line("flush", None)>>
    BY <1>8, Zenon DEF ObjectInfo
  <2>2. PICK about : about = [i \in DOMAIN SetToSeq(oids) |->
                               Line(IF size /\ ~Known(SetToSeq(oids)[i]) THEN "no info"
                                    ELSE "info", SetToSeq(oids)[i])]
    OBVIOUS
  <2>3. about \in Seq(Quiet)
    <3>1. oids \in SUBSET Objects
      BY UploadPackAssumption
    <3> QED
      BY <2>2, <3>1, InfoLinesQuiet
  <2>4. reply' = IF oids = {} THEN <<>>
                 ELSE (IF size THEN <<Line("size", None)>> ELSE <<>>)
                      \o about \o <<Line("flush", None)>>
    BY <2>1, <2>2, Zenon
  <2>5. (IF size THEN <<Line("size", None)>> ELSE <<>>) \in Seq(Quiet)
    BY <1>1, Zenon
  <2> QED
    BY <1>1, <2>3, <2>4, <2>5, Joined, Zenon
<1> QED
  BY <1>3, <1>4, <1>5, <1>6, <1>7, <1>8

LEMMA NamedIsHere ==
  ASSUME NEW hs \in Seq(Store), NEW o \in HaveSet(hs)
  PROVE  o \in Store
<1>1. PICK i \in DOMAIN hs : o = hs[i]
  BY DEF HaveSet
<1> QED
  BY <1>1

(* A line about an object that is here and that the client has named.      *)
LEMMA NamedIsJust ==
  ASSUME NEW kind \in {"ACK", "ACK common", "ACK continue"}, NEW ws,
         NEW hs \in Seq(Store), NEW o \in HaveSet(hs)
  PROVE  Line(kind, o) \in Just(ws, hs)
<1>1. o \in Store /\ o \in Objects
  BY NamedIsHere, UploadPackAssumption
<1>2. Line(kind, o) \in Said
  BY <1>1, LineIsSaid DEF Kinds
<1> QED
  BY <1>1, <1>2 DEF Just, Line

LEMMA HaveCommonIsJust ==
  ASSUME UploadInv, NEW o \in Haves, HaveCommon(o)
  PROVE  reply' \in Seq(Just(wants', haves'))
<1>1. haves' = Append(haves, o) /\ o \in Store /\ haves \in Seq(Store)
  BY DEF HaveCommon, Known, UploadInv, Typed
<1>2. haves' \in Seq(Store) /\ o \in HaveSet(haves')
  <2>1. Len(haves) + 1 \in DOMAIN haves' /\ haves'[Len(haves) + 1] = o
    BY <1>1
  <2> QED
    BY <1>1, <2>1 DEF HaveSet
<1>3. \/ reply' = <<Line("ACK common", o)>> \/ reply' = <<Line("ACK continue", o)>>
      \/ reply' = <<Line("ACK", o)>> \/ reply' = <<>>
  BY DEF HaveCommon
<1>4. \A kind \in {"ACK", "ACK common", "ACK continue"} :
        Line(kind, o) \in Just(wants', haves')
  BY <1>2, NamedIsJust
<1> HIDE DEF Just
<1> QED
  BY <1>3, <1>4, Singles, Zenon

LEMMA HaveOtherIsJust ==
  ASSUME UploadInv, NEW o \in Haves, HaveOther(o)
  PROVE  reply' \in Seq(Just(wants', haves'))
<1> DEFINE enough == need.multiAck # "none" /\ AllWantsReachable(wants, haves)
<1>1. /\ wants' = wants /\ haves' = haves /\ wants \in SUBSET Store
      /\ reply' = IF ~enough THEN <<>>
                  ELSE IF need.multiAck = "detailed" THEN <<Line("ACK ready", o)>>
                  ELSE <<Line("ACK continue", o)>>
  BY DEF HaveOther, UploadInv, Typed
<1>2. enough => Met(wants, haves)
  BY <1>1, WantsMet DEF Met
<1>3. Line("ACK ready", o) \in Said /\ Line("ACK continue", o) \in Said
  BY UploadPackAssumption, LineIsSaid DEF Kinds
<1>4. enough => /\ Line("ACK ready", o) \in Just(wants, haves)
                /\ Line("ACK continue", o) \in Just(wants, haves)
  BY <1>2, <1>3 DEF Just, Line
<1> HIDE DEF enough
<1> QED
  BY <1>1, <1>4, Singles, Zenon

LEMMA FlushIsJust ==
  ASSUME UploadInv, Flush
  PROVE  reply' \in Seq(Just(wants', haves'))
<1> DEFINE agreed == /\ need.multiAck = "detailed" /\ gotCommon /\ ~gotOther
                     /\ AllWantsReachable(wants, haves)
           isReady == ready \/ agreed
           nak == haves = <<>> \/ need.multiAck # "none"
           first == IF agreed THEN <<Line("ACK ready", LastHave)>> ELSE <<>>
           second == IF nak THEN <<Line("NAK", None)>> ELSE <<>>
           third == IF need.noDone /\ isReady THEN <<Line("ACK", LastHave)>> ELSE <<>>
<1>1. version = "v0" /\ wants' = wants /\ haves' = haves
  BY DEF Flush
<1>2. reply' = first \o second \o third
  BY DEF Flush
<1>3. wants \in SUBSET Store /\ haves \in Seq(Store)
  BY DEF UploadInv, Typed
<1>4. agreed => Met(wants, haves)
  BY <1>3, WantsMet DEF Met
<1>5. isReady => haves # <<>>
  BY <1>1, <1>4 DEF UploadInv, ReadyIsMet, Met
<1>6. haves # <<>> => LastHave \in HaveSet(haves)
  BY <1>3 DEF LastHave, HaveSet
<1>7. agreed => Line("ACK ready", LastHave) \in Just(wants, haves)
  <2> SUFFICES ASSUME agreed PROVE Line("ACK ready", LastHave) \in Just(wants, haves)
    OBVIOUS
  <2>1. Met(wants, haves) /\ haves # <<>>
    BY <1>4, <1>5
  <2>2. Line("ACK ready", LastHave) \in Said
    BY <1>3, <2>1, LastHaveInStore, LineIsSaid DEF Kinds
  <2>3. LastHave \in Store /\ LastHave \in HaveSet(haves)
    BY <1>3, <1>6, <2>1, LastHaveInStore
  <2> QED
    BY <2>1, <2>2, <2>3 DEF Just, Line
<1>8. isReady => Line("ACK", LastHave) \in Just(wants, haves)
  BY <1>3, <1>5, <1>6, NamedIsJust
<1>9. Line("NAK", None) \in Just(wants, haves)
  <2>1. Line("NAK", None) \in Said
    BY LineIsSaid DEF Kinds
  <2> QED
    BY <2>1 DEF Just, Line, Acking
<1> HIDE DEF agreed, isReady, nak
<1>10. /\ first \in Seq(Just(wants, haves)) /\ second \in Seq(Just(wants, haves))
       /\ third \in Seq(Just(wants, haves))
  BY <1>7, <1>8, <1>9, Singles, Zenon
<1> HIDE DEF first, second, third
<1> QED
  BY <1>1, <1>2, <1>10, Joined, Zenon

LEMMA DoneIsJust ==
  ASSUME UploadInv, Done
  PROVE  reply' \in Seq(Just(wants', haves'))
<1>1. /\ wants' = wants /\ haves' = haves
      /\ reply' = <<Line("NAK", None)>> \/ reply' = <<>>
         \/ (haves # <<>> /\ reply' = <<Line("ACK", LastHave)>>)
  BY DEF Done
<1>2. haves \in Seq(Store)
  BY DEF UploadInv, Typed
<1>3. haves # <<>> => LastHave \in HaveSet(haves)
  BY <1>2 DEF LastHave, HaveSet
<1>4. haves # <<>> => Line("ACK", LastHave) \in Just(wants, haves)
  BY <1>2, <1>3, NamedIsJust
<1>5. Line("NAK", None) \in Just(wants, haves)
  <2>1. Line("NAK", None) \in Said
    BY LineIsSaid DEF Kinds
  <2> QED
    BY <2>1 DEF Just, Line, Acking
<1> QED
  BY <1>1, <1>4, <1>5, Singles, Zenon

LEMMA FetchIsJust ==
  ASSUME UploadInv, UploadInv', Fetch
  PROVE  reply' \in Seq(Just(wants', haves'))
<1>1. PICK n : FetchRefused(n) \/ FetchNothing(n) \/ FetchRound(n) \/ FetchPack(n)
  BY Zenon DEF Fetch
<1> DEFINE J == Just(wants', haves')
<1>2. \A kind \in Kinds \ Acking : <<Line(kind, None)>> \in Seq(J) /\ Line(kind, None) \in J
  <2> SUFFICES ASSUME NEW kind \in Kinds \ Acking
               PROVE  <<Line(kind, None)>> \in Seq(J) /\ Line(kind, None) \in J
    OBVIOUS
  <2>1. Line(kind, None) \in Quiet
    BY QuietLine
  <2>2. Line(kind, None) \in J
    BY <2>1 DEF Quiet, Just, Acking
  <2> HIDE DEF J
  <2> QED
    BY <2>2
<1>3. <<>> \in Seq(J)
  OBVIOUS
<1>4. CASE FetchRefused(n) \/ FetchNothing(n)
  <2>1. reply' = <<Line("not our ref", None)>> \/ reply' = <<>>
    BY <1>4 DEF FetchRefused, FetchNothing
  <2>2. "not our ref" \in Kinds \ Acking
    BY DEF Kinds, Acking
  <2> QED
    BY <1>2, <1>3, <2>1, <2>2, Zenon
<1>5. haves' = NamedHaves(n) => Acknowledgments(n) \in Seq(J)
  <2> SUFFICES ASSUME haves' = NamedHaves(n) PROVE Acknowledgments(n) \in Seq(J)
    OBVIOUS
  <2> DEFINE hs == NamedHaves(n)
             acks == [i \in DOMAIN hs |-> Line("ACK", hs[i])]
  <2>1. hs \in Seq(Store) /\ hs = haves'
    BY DEF UploadInv, Typed
  <2>2. Acknowledgments(n) = <<Line("acknowledgments", None)>>
                               \o (IF hs = <<>> THEN <<Line("NAK", None)>> ELSE acks)
    BY DEF Acknowledgments
  <2>3. acks \in Seq(J)
    <3>1. \A o \in HaveSet(haves') : Line("ACK", o) \in J
      BY <2>1, NamedIsJust
    <3> HIDE DEF hs, J
    <3>2. DOMAIN hs = 1..Len(hs) /\ Len(hs) \in Nat /\ \A i \in DOMAIN hs : hs[i] \in HaveSet(haves')
      BY <2>1 DEF HaveSet
    <3> QED
      BY <3>1, <3>2
  <2>4. "acknowledgments" \in Kinds \ Acking /\ "NAK" \in Kinds \ Acking
    BY DEF Kinds, Acking
  <2>5. <<Line("acknowledgments", None)>> \in Seq(J) /\ <<Line("NAK", None)>> \in Seq(J)
    BY <1>2, <2>4
  <2> HIDE DEF acks, hs, J
  <2>6. (IF hs = <<>> THEN <<Line("NAK", None)>> ELSE acks) \in Seq(J)
    BY <2>3, <2>5
  <2> QED
    BY <2>2, <2>5, <2>6
<1>6. {"ready", "wanted-refs", "shallow-info", "packfile", "flush"} \subseteq Kinds \ Acking
  BY DEF Kinds, Acking
<1> HIDE DEF J
<1>7. CASE FetchRound(n)
  <2>1. /\ haves' = NamedHaves(n)
        /\ reply' = Acknowledgments(n) \o <<Line("flush", None), Line("flush", None)>>
    BY <1>7 DEF FetchRound
  <2>2. <<Line("flush", None), Line("flush", None)>> \in Seq(J)
    BY <1>2, <1>6
  <2>3. reply' \in Seq(J)
    BY <1>5, <2>1, <2>2
  <2> QED
    BY <2>3 DEF J
<1>8. CASE FetchPack(n)
  <2> DEFINE section(b, kind) == IF b THEN <<Line(kind, None)>> ELSE <<>>
  <2>1. PICK r, a, b : /\ r = IF IsRound(n) THEN Acknowledgments(n) \o <<Line("ready", None)>>
                              ELSE <<>>
                       /\ a = section(n.wantRefs # {}, "wanted-refs")
                       /\ b = section(n.depth > 0 \/ ByRevList(n) \/ n.shallow # {},
                                      "shallow-info")
    OBVIOUS
  <2>2. reply' = r \o a \o b \o <<Line("packfile", None), Line("flush", None)>>
    BY <1>8, <2>1, Zenon DEF FetchPack
  <2>3. haves' = NamedHaves(n)
    BY <1>8 DEF FetchPack
  <2>4. /\ <<Line("ready", None)>> \in Seq(J) /\ <<Line("wanted-refs", None)>> \in Seq(J)
        /\ <<Line("shallow-info", None)>> \in Seq(J)
        /\ <<Line("packfile", None), Line("flush", None)>> \in Seq(J)
    BY <1>2, <1>6
  <2>5. a \in Seq(J) /\ b \in Seq(J)
    BY <1>3, <2>1, <2>4, Zenon
  <2>6. Acknowledgments(n) \o <<Line("ready", None)>> \in Seq(J)
    BY <1>5, <2>3, <2>4
  <2>7. r \in Seq(J)
    BY <1>3, <2>1, <2>6, Zenon
  <2>8. reply' \in Seq(J)
    BY <2>2, <2>4, <2>5, <2>7
  <2> QED
    BY <2>8 DEF J
<1> QED
  BY <1>1, <1>4, <1>7, <1>8

LEMMA AcksStep ==
  ASSUME UploadInv, AcksAreJustified, [Next]_vars
  PROVE  AcksAreJustified'
<1>1. CASE UNCHANGED vars
  BY <1>1 DEF vars, AcksAreJustified, HeardEnough, HaveSet
<1>2. ASSUME reply' \in Seq(Just(wants', haves'))
      PROVE  AcksAreJustified'
  <2>1. \A i \in DOMAIN reply' : reply'[i] \in Just(wants', haves')
    BY <1>2
  <2> QED
    BY <2>1 DEF AcksAreJustified, Just, Acking, Met, HeardEnough
<1>3. reply' \in Seq(Quiet) => reply' \in Seq(Just(wants', haves'))
  BY QuietIsJust
<1>4. UploadInv'
  BY UploadStep
<1> QED
  BY <1>1, <1>2, <1>3, <1>4, QuietStep, HaveCommonIsJust, HaveOtherIsJust, FlushIsJust,
     DoneIsJust, FetchIsJust DEF Next

LEMMA InvWalks ==
  ASSUME UploadInv
  PROVE  WalksAreExact
<1>1. wants \in SUBSET Objects /\ need.shallow \in SUBSET Objects
  BY UploadPackAssumption DEF UploadInv, Typed, Requests
<1> SUFFICES ASSUME NEW kind \in {"all", "commit"}, NEW depth \in 0..2,
                    NEW without \in {{}, need.shallow}
             PROVE  WalkIsExact(kind, depth, wants, without, Store)
  BY DEF WalksAreExact
<1>2. depth \in Nat /\ without \in SUBSET Objects
  BY <1>1
<1> QED
  BY <1>1, <1>2, EveryWalkIsExact

(* In an answered state the request is granted and the list is that of it. *)
LEMMA AnswerFacts ==
  ASSUME UploadInv, Answered
  PROVE  /\ need \in Requests /\ need.wants \in SUBSET Store /\ Ours \in SUBSET Store
         /\ NowShallow = (need.shallow \cup (ShallowList(need, Ours).boundary \ need.shallow))
                           \ (need.shallow \cap ShallowList(need, Ours).whole)
<1>1. need \in Requests /\ refs \in Setups /\ version \in {"v0", "v2"}
  BY DEF UploadInv, Typed
<1>2. need.wants \in SUBSET Store
  BY DEF UploadInv, Granted, Answered
<1>3. Ours \in SUBSET Store
  BY <1>1, RefsAreInStore
<1>4. /\ boundary = ShallowList(need, Ours).boundary \ need.shallow
      /\ opened = need.shallow \cap ShallowList(need, Ours).whole
  BY DEF UploadInv, ListIsSent
<1> QED
  BY <1>1, <1>2, <1>3, <1>4 DEF NowShallow

(* The old boundary a relative deepening starts from is what of it is in   *)
(* the history of the refs.                                                *)
LEMMA HeldIsReachable ==
  ASSUME need \in Requests, NEW ours \in SUBSET Store
  PROVE  ReachableShallows(need, ours) = need.shallow \cap UNION {HistoryOf[o] : o \in ours}
<1>1. need.shallow \subseteq Commits
  BY DEF Requests
<1>2. \A c : c \in Returned(CommitsFrom(0, ours)) <=> \E o \in ours : c \in HistoryOf[o]
  BY CommitsFromAll
<1>3. \A c \in ours \cap Commits : c \in HistoryOf[c]
  BY HistoryFacts, UploadPackAssumption
<1>4. \A c : c \in UNION {HistoryOf[o] : o \in ours} <=> \E o \in ours : c \in HistoryOf[o]
  OBVIOUS
<1>5. \A c : c \in ReachableShallows(need, ours) <=>
               c \in need.shallow /\ (c \in ours \/ c \in Returned(CommitsFrom(0, ours)))
  BY DEF ReachableShallows
<1>6. \A c : c \in ReachableShallows(need, ours) <=>
               c \in need.shallow /\ c \in UNION {HistoryOf[o] : o \in ours}
  BY <1>1, <1>2, <1>3, <1>4, <1>5
<1> QED
  BY <1>6

LEMMA InvDepth ==
  ASSUME UploadInv
  PROVE  DepthIsExact
<1> SUFFICES ASSUME Answered, need.depth > 0, ~ByRevList(need), need.wants \subseteq Commits
             PROVE  IF ~need.relative
                    THEN Visible(need.wants) = Level(need.wants, {}, need.depth - 1)
                    ELSE version = "v0" =>
                      LET held == need.shallow \cap UNION {HistoryOf[o] : o \in OurRefs}
                      IN  Visible(held) = Level(held, {}, need.depth)
  BY Zenon DEF DepthIsExact
<1>1. /\ need \in Requests /\ need.wants \in SUBSET Store /\ Ours \in SUBSET Store
      /\ NowShallow = (need.shallow \cup (ShallowList(need, Ours).boundary \ need.shallow))
                        \ (need.shallow \cap ShallowList(need, Ours).whole)
  BY AnswerFacts
<1>2. need.depth \in Nat /\ need.shallow \subseteq Store \cap Commits
  BY <1>1 DEF Requests
<1>3. ShallowList(need, Ours) = Deepened(need, Ours)
  BY <1>2 DEF ShallowList
<1>4. NowShallow = CutBy(need.shallow, Deepened(need, Ours))
  BY <1>1, <1>3 DEF CutBy
<1>7. ASSUME NEW roots \in SUBSET (Store \cap Commits), roots = DeepenRoots(need, Ours),
             NEW d \in Nat, d = DeepenLevel(need)
      PROVE  Level(roots, NowShallow, Cardinality(Commits)) = Level(roots, {}, d)
  <2>1. PICK n, ours, shallow, cut :
          n = need /\ ours = Ours /\ shallow = need.shallow /\ cut = NowShallow
    OBVIOUS
  <2>2. /\ roots = DeepenRoots(n, ours) /\ d = DeepenLevel(n)
        /\ cut = CutBy(shallow, Deepened(n, ours))
    BY <1>4, <1>7, <2>1
  <2>3. CASE n.depth = InfiniteDepth
    <3>1. cut = {}
      BY <2>1, <2>2, <2>3 DEF CutBy, Deepened
    <3>2. Cardinality(Commits) \in Nat
      BY FS_CardinalityType, FS_Subset, ObjectGraphAssumption, ObjectIteratorAssumption
    <3>3. Cardinality(Commits) <= d
      BY <2>2, <2>3, <3>2, UploadPackAssumption DEF DeepenLevel
    <3>4. roots \in SUBSET Commits
      OBVIOUS
    <3>5. Level(roots, {}, Cardinality(Commits)) = Level(roots, {}, d)
      BY <3>3, <3>4, AllIsSeen
    <3> QED
      BY <2>1, <3>1, <3>5
  <2>4. CASE n.depth # InfiniteDepth
    <3>1. cut = CutBy(shallow, DeepenedToLevel(n, ours))
      BY <2>2, <2>4 DEF Deepened
    <3>2. Level(roots, cut, Cardinality(Commits)) = Level(roots, {}, d)
      BY <2>2, <3>1, DepthIsSeen
    <3> QED
      BY <2>1, <3>2
  <2> QED
    BY <2>3, <2>4
<1>5. CASE ~need.relative
  <2>1. need.wants = DeepenRoots(need, Ours) /\ need.depth - 1 = DeepenLevel(need)
    BY <1>5 DEF DeepenRoots, DeepenLevel
  <2>2. need.wants \in SUBSET (Store \cap Commits) /\ need.depth - 1 \in Nat
    BY <1>1, <1>2
  <2>3. PICK d \in Nat, roots \in SUBSET (Store \cap Commits) :
          d = need.depth - 1 /\ roots = need.wants
    BY <2>2
  <2>4. roots = DeepenRoots(need, Ours) /\ d = DeepenLevel(need)
    BY <2>1, <2>3
  <2>5. Level(roots, NowShallow, Cardinality(Commits)) = Level(roots, {}, d)
    BY <1>7, <2>4
  <2> QED
    BY <1>5, <2>3, <2>5 DEF Visible
<1>6. CASE need.relative
  <2> SUFFICES ASSUME version = "v0",
                      NEW held, held = need.shallow \cap UNION {HistoryOf[o] : o \in OurRefs}
               PROVE  Visible(held) = Level(held, {}, need.depth)
    BY <1>6
  <2>1. Ours = OurRefs
    BY DEF Ours
  <2>2. held = ReachableShallows(need, Ours)
    BY <1>1, <2>1, HeldIsReachable
  <2>3. held = DeepenRoots(need, Ours) /\ need.depth = DeepenLevel(need)
    BY <1>6, <2>2 DEF DeepenRoots, DeepenLevel
  <2>4. held \in SUBSET (Store \cap Commits)
    BY <1>2
  <2>5. Level(held, NowShallow, Cardinality(Commits)) = Level(held, {}, need.depth)
    BY <1>2, <1>7, <2>3, <2>4
  <2> QED
    BY <2>5 DEF Visible
<1> QED
  BY <1>5, <1>6

LEMMA InvCut ==
  ASSUME UploadInv
  PROVE  CutIsClean
<1> DEFINE left == UNION {HistoryOf[o] : o \in need.nots \ {None}}
           fresh(c) == Time[c] >= need.since /\ c \notin left
           roots == {w \in Tips(need.wants) : fresh(w)}
<1> SUFFICES ASSUME Answered, ByRevList(need), ~ShallowListFails(need)
             PROVE  \A c \in Visible(roots) : fresh(c)
  BY Zenon DEF CutIsClean
<1>1. /\ need \in Requests /\ need.wants \in SUBSET Store
      /\ NowShallow = (need.shallow \cup (ShallowList(need, Ours).boundary \ need.shallow))
                        \ (need.shallow \cap ShallowList(need, Ours).whole)
  BY AnswerFacts
<1>2. need.depth \in Nat /\ need.nots \in SUBSET (Store \cup {None})
  BY <1>1 DEF Requests
<1>3. need.depth = 0
  BY <1>2 DEF ShallowListFails
<1> DEFINE recent == Recent(need)
<1>4. ShallowList(need, Ours) = DeepenedByRevList(recent)
  BY <1>3 DEF ShallowList
<1>5. NowShallow = (need.shallow \cup (Frontier(recent) \ need.shallow))
                     \ (need.shallow \cap (recent \ Frontier(recent)))
  BY <1>1, <1>4 DEF DeepenedByRevList
<1>6. \A c : c \in left <=> \E o \in need.nots \ {None} : c \in HistoryOf[o]
  OBVIOUS
<1> HIDE DEF left
<1>7. recent \in SUBSET Commits /\ \A c \in recent : fresh(c)
  BY <1>1, <1>2, <1>6, RecentFacts
<1>8. roots \in SUBSET recent
  BY <1>1, <1>2, <1>6, RecentFacts DEF Tips
<1>9. Cardinality(Commits) \in Nat
  BY FS_CardinalityType, FS_Subset, ObjectGraphAssumption, ObjectIteratorAssumption
<1> HIDE DEF recent, roots, fresh
<1>10. Level(roots, NowShallow, Cardinality(Commits)) \subseteq recent
  <2>1. PICK shallow, cut, N : /\ shallow = need.shallow /\ cut = NowShallow
                              /\ N = Cardinality(Commits)
    OBVIOUS
  <2>2. cut = (shallow \cup (Frontier(recent) \ shallow))
                \ (shallow \cap (recent \ Frontier(recent)))
    BY <1>5, <2>1
  <2>3. recent \in SUBSET Commits /\ roots \in SUBSET recent
    BY <1>7, <1>8
  <2>4. Level(roots, cut, N) \subseteq recent
    BY <1>9, <2>1, <2>2, <2>3, RecentIsSeen
  <2> QED
    BY <2>1, <2>4
<1> QED
  BY <1>7, <1>10 DEF Visible

-----------------------------------------------------------------------------
(* The theorems. *)

LEMMA UploadInvariant == Spec => []UploadInv
<1>1. Init => UploadInv
  BY InitUpload
<1>2. UploadInv /\ [Next]_vars => UploadInv'
  BY UploadStep
<1> QED
  BY <1>1, <1>2, PTL DEF Spec

(* The state of a session is well-typed, whatever the client sends; what   *)
(* is to be sent and what was named as common are in the store             *)
(* (receiveNeeds, appendIfExists).                                         *)
THEOREM TypeCorrect == Spec => []TypeOK
<1>1. UploadInv => TypeOK
  BY InvTypes
<1> QED
  BY <1>1, UploadInvariant, PTL

(* A pack holds everything the wanted objects and the parents of           *)
(* unshallowed commits need, for every graph of objects and every request  *)
(* (writePack, sendUnshallow).                                             *)
THEOREM PacksAreComplete == Spec => []PackIsComplete
<1>1. UploadInv => PackIsComplete
  BY InvPacks
<1> QED
  BY <1>1, UploadInvariant, PTL

(* A session is ready only when every wanted object is or has in its       *)
(* history an object both sides have (allWantsReachable).                  *)
THEOREM ReadinessIsJustified == Spec => []ReadyIsJustified
<1>1. UploadInv => ReadyIsJustified
  BY Zenon DEF UploadInv, ReadyIsMet, Met, ReadyIsJustified, HeardEnough
<1> QED
  BY <1>1, UploadInvariant, PTL

(* An object is acknowledged that both sides have or, when every wanted    *)
(* object is or has in its history one they share, to stop the client      *)
(* (appendIfExists, getCommonCommits, sendAcksV2).                         *)
THEOREM AcksAreAlwaysJustified == Spec => []AcksAreJustified
<1>1. Init => AcksAreJustified
  <2>1. Init => DOMAIN reply = {}
    BY DEF Init
  <2> QED
    BY <2>1 DEF AcksAreJustified
<1>2. UploadInv /\ AcksAreJustified /\ [Next]_vars => AcksAreJustified'
  BY AcksStep
<1> QED
  BY <1>1, <1>2, UploadInvariant, PTL DEF Spec

(* Every walk a session may take returns exactly what is reachable, each   *)
(* object once and at its distance (ObjectIterator.Next).                  *)
THEOREM EveryWalkOfASessionIsExact == Spec => []WalksAreExact
<1>1. UploadInv => WalksAreExact
  BY InvWalks
<1> QED
  BY <1>1, UploadInvariant, PTL

(* A fetch of depth n shows the client n levels of history, whatever it    *)
(* held to be shallow before (deepen, sendUnshallow).                      *)
THEOREM DepthsAreExact == Spec => []DepthIsExact
<1>1. UploadInv => DepthIsExact
  BY InvDepth
<1> QED
  BY <1>1, UploadInvariant, PTL

(* A fetch by date or by refs left out shows the client nothing that is    *)
(* too old or behind those refs, whatever the clocks said when the commits *)
(* were made (deepenByRevList).                                            *)
THEOREM CutsAreClean == Spec => []CutIsClean
<1>1. UploadInv => CutIsClean
  BY InvCut
<1> QED
  BY <1>1, UploadInvariant, PTL
=============================================================================
