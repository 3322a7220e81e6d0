------------------------ MODULE CommonAncestorProofs ------------------------
(***************************************************************************)
(* Theorems about CommonAncestor, for every commit graph, every clock and  *)
(* whatever order the heap returns entries of one time stamp in.           *)
(***************************************************************************)
EXTENDS CommonAncestor, TLAPS, WellFoundedInduction

-----------------------------------------------------------------------------
(* Ancestors. *)

LEMMA LeastNumber ==
  ASSUME NEW T \in SUBSET Nat, T # {}
  PROVE  \E x \in T : \A y \in T : x <= y
<1> DEFINE Less == OpToRel(<, Nat)
<1>1. IsWellFoundedOn(Less, Nat)
  BY NatLessThanWellFounded
<1>2. \A x, y \in Nat : <<x, y>> \in Less <=> x < y
  BY DEF OpToRel
<1> HIDE DEF Less
<1>3. PICK x \in T : \A y \in T : ~(<<y, x>> \in Less)
  BY <1>1, WFMin, Zenon
<1>4. \A y \in T : ~(y < x)
  BY <1>2, <1>3
<1> QED
  BY <1>4

LEMMA GreatestNumber ==
  ASSUME NEW n \in Nat, NEW T \in SUBSET (0..n), T # {}
  PROVE  \E x \in T : \A y \in T : y <= x
<1> DEFINE Rest == {r \in Nat : \E x \in T : r = n - x}
<1>1. Rest \in SUBSET Nat /\ Rest # {}
  <2>1. PICK x \in T : TRUE
    OBVIOUS
  <2>2. n - x \in Rest
    BY <2>1
  <2> QED
    BY <2>2
<1>2. PICK r \in Rest : \A s \in Rest : r <= s
  BY <1>1, LeastNumber
<1>3. PICK x \in T : r = n - x
  BY <1>2
<1>4. \A y \in T : n - y \in Rest
  OBVIOUS
<1>5. \A y \in T : n - x <= n - y
  BY <1>2, <1>3, <1>4
<1> QED
  BY <1>5

LEMMA ParentFacts ==
  ASSUME NEW h, IsHistory(h), NEW c \in DOMAIN h
  PROVE  /\ DOMAIN h \subseteq Nat
         /\ h[c] \in Seq(Nat)
         /\ Parents(h, c) = Range(h[c])
         /\ \A p \in Parents(h, c) : p \in DOMAIN h /\ p < c
<1>1. h \in Seq(Seq(Nat)) /\ Parents(h, c) \subseteq 1..(c - 1)
  BY DEF IsHistory
<1>2. DOMAIN h = 1..Len(h) /\ Len(h) \in Nat
  BY <1>1
<1>3. h[c] \in Seq(Nat)
  BY <1>1, <1>2
<1>4. Parents(h, c) = Range(h[c])
  BY DEF Parents, Range
<1>5. c \in Nat /\ DOMAIN h \subseteq Nat
  BY <1>2
<1>6. \A p \in Parents(h, c) : p \in 1..Len(h) /\ p < c
  BY <1>1, <1>2, <1>5
<1> QED
  BY <1>2, <1>3, <1>4, <1>5, <1>6

(* The recursion that defines Ancestors has a solution: the least sets     *)
(* closed under parents.                                                   *)
LEMMA AncestorsUnfold ==
  ASSUME NEW h, IsHistory(h)
  PROVE  /\ DOMAIN Ancestors(h) = DOMAIN h
         /\ \A c \in DOMAIN h : \A x :
              x \in Ancestors(h)[c] <=>
                x = c \/ \E p \in Parents(h, c) : x \in Ancestors(h)[p]
<1> DEFINE
    D == DOMAIN h
    Closed == {T \in SUBSET D : \A c \in T : Parents(h, c) \subseteq T}
    Least == [c \in D |-> {d \in D : \A T \in Closed : c \in T => d \in T}]
    Solves(a) == a = [c \in D |-> {c} \cup UNION {a[p] : p \in Parents(h, c)}]
<1>1. \A c \in D : Parents(h, c) \subseteq D
  BY ParentFacts
<1>2. ASSUME NEW c \in D
      PROVE  Least[c] = {c} \cup UNION {Least[p] : p \in Parents(h, c)}
  <2> DEFINE U == {c} \cup UNION {Least[p] : p \in Parents(h, c)}
  <2>1. U \subseteq Least[c]
    BY <1>1
  <2>2. U \in Closed
    <3>1. U \subseteq D
      BY <1>1
    <3>2. ASSUME NEW x \in U, NEW q \in Parents(h, x)
          PROVE  q \in U
      <4>1. CASE x = c
        <5>1. q \in Least[q]
          BY <1>1, <4>1
        <5> QED
          BY <4>1, <5>1
      <4>2. CASE x # c
        <5>1. PICK p \in Parents(h, c) : x \in Least[p]
          BY <4>2
        <5>2. q \in Least[p]
          BY <1>1, <5>1
        <5> QED
          BY <5>1, <5>2
      <4> QED
        BY <4>1, <4>2
    <3> QED
      BY <3>1, <3>2
  <2> QED
    BY <2>1, <2>2
<1>3. Solves(Least)
  BY <1>2
<1> HIDE DEF Least
<1> DEFINE Solution == CHOOSE a : Solves(a)
<1>4. Solves(Solution)
  BY <1>3, Zenon
<1>5. Ancestors(h) = Solution
  BY DEF Ancestors
<1> HIDE DEF Solution
<1>6. DOMAIN Solution = D
  BY <1>4, Zenon
<1>7. ASSUME NEW c \in D
      PROVE  Solution[c] = {c} \cup UNION {Solution[p] : p \in Parents(h, c)}
  BY <1>4, Zenon
<1>8. \A c \in D : \A x :
        x \in Solution[c] <=> x = c \/ \E p \in Parents(h, c) : x \in Solution[p]
  BY <1>7
<1> HIDE DEF Solves
<1> QED
  BY <1>5, <1>6, <1>8

(* What holds of a commit when it holds of its parents holds of all. *)
LEMMA HistoryInduction ==
  ASSUME NEW h, IsHistory(h),
         NEW S \in SUBSET DOMAIN h,
         \A c \in DOMAIN h : Parents(h, c) \subseteq S => c \in S
  PROVE  S = DOMAIN h
<1> SUFFICES ASSUME S # DOMAIN h PROVE FALSE
  OBVIOUS
<1> DEFINE Rest == DOMAIN h \ S
<1>1. Rest \in SUBSET Nat /\ Rest # {}
  BY ParentFacts
<1>2. PICK c \in Rest : \A d \in Rest : c <= d
  BY <1>1, LeastNumber
<1>3. \A p \in Parents(h, c) : p \in S
  BY <1>1, <1>2, ParentFacts
<1> QED
  BY <1>2, <1>3

(* The ancestors of a commit are no younger than it, an ancestor's are     *)
(* among them, and nothing is in them that it does not reach.              *)
LEMMA AncestorsAreOlder ==
  ASSUME NEW h, IsHistory(h)
  PROVE  \A c \in DOMAIN h : \A d \in Ancestors(h)[c] : d \in DOMAIN h /\ d <= c
<1> DEFINE
    A == Ancestors(h)
    S == {c \in DOMAIN h : \A d \in A[c] : d \in DOMAIN h /\ d <= c}
<1>1. ASSUME NEW c \in DOMAIN h, Parents(h, c) \subseteq S
      PROVE  c \in S
  <2>1. ASSUME NEW d \in A[c]
        PROVE  d \in DOMAIN h /\ d <= c
    <3>1. c \in Nat
      BY ParentFacts
    <3>2. CASE d = c
      BY <3>1, <3>2
    <3>3. ASSUME NEW p \in Parents(h, c), d \in A[p]
          PROVE  d \in DOMAIN h /\ d <= c
      <4>1. d \in DOMAIN h /\ d <= p /\ p < c /\ p \in Nat /\ d \in Nat
        BY <1>1, <3>3, ParentFacts
      <4> QED
        BY <3>1, <4>1
    <3> QED
      BY <3>2, <3>3, AncestorsUnfold
  <2> QED
    BY <2>1
<1> QED
  <2>1. S = DOMAIN h
    <3> HIDE DEF A
    <3>1. S \in SUBSET DOMAIN h
      OBVIOUS
    <3> HIDE DEF S
    <3> QED
      BY <1>1, <3>1, HistoryInduction
  <2> QED
    BY <2>1

LEMMA AncestorsCompose ==
  ASSUME NEW h, IsHistory(h)
  PROVE  \A c \in DOMAIN h : \A d \in Ancestors(h)[c] :
           Ancestors(h)[d] \subseteq Ancestors(h)[c]
<1> DEFINE
    A == Ancestors(h)
    S == {c \in DOMAIN h : \A d \in A[c] : A[d] \subseteq A[c]}
<1>1. ASSUME NEW c \in DOMAIN h, Parents(h, c) \subseteq S
      PROVE  c \in S
  <2>1. \A p \in Parents(h, c) : A[p] \subseteq A[c]
    BY AncestorsUnfold
  <2> QED
    BY <1>1, <2>1, AncestorsUnfold
<1> QED
  <2>1. S = DOMAIN h
    <3> HIDE DEF A
    <3>1. S \in SUBSET DOMAIN h
      OBVIOUS
    <3> HIDE DEF S
    <3> QED
      BY <1>1, <3>1, HistoryInduction
  <2> QED
    BY <2>1

LEMMA AncestorsLeast ==
  ASSUME NEW h, IsHistory(h),
         NEW T \in SUBSET DOMAIN h,
         \A c \in T : Parents(h, c) \subseteq T
  PROVE  \A c \in T : Ancestors(h)[c] \subseteq T
<1> DEFINE
    A == Ancestors(h)
    S == {c \in DOMAIN h : c \in T => A[c] \subseteq T}
<1>1. ASSUME NEW c \in DOMAIN h, Parents(h, c) \subseteq S
      PROVE  c \in S
  BY <1>1, AncestorsUnfold
<1> QED
  <2>1. S = DOMAIN h
    <3> HIDE DEF A
    <3>1. S \in SUBSET DOMAIN h
      OBVIOUS
    <3> HIDE DEF S
    <3> QED
      BY <1>1, <3>1, HistoryInduction
  <2> QED
    BY <2>1

-----------------------------------------------------------------------------
(* Bags: what the queues hold after an insertion or a removal. *)

LEMMA InsertFacts ==
  ASSUME NEW q, IsABag(q), NEW e
  PROVE  /\ IsABag(Insert(q, e))
         /\ \A f : f \in BagToSet(Insert(q, e)) <=> f \in BagToSet(q) \/ f = e
  BY DEF Insert, IsABag, BagToSet, SetToBag, (+)

LEMMA RemoveFacts ==
  ASSUME NEW q, IsABag(q), NEW e \in BagToSet(q)
  PROVE  /\ IsABag(Remove1(q, e))
         /\ \A f : f \in BagToSet(Remove1(q, e)) => f \in BagToSet(q)
         /\ \A f : f \in BagToSet(q) => f = e \/ f \in BagToSet(Remove1(q, e))
  BY DEF Remove1, IsABag, BagToSet, SetToBag, (-)

LEMMA PushFacts ==
  ASSUME NEW q, IsABag(q), NEW c, NEW kind
  PROVE  /\ IsABag(PushParents(q, c, kind))
         /\ \A f : f \in BagToSet(PushParents(q, c, kind)) <=>
              f \in BagToSet(q) \/ \E p \in Parents(history, c) : f = <<p, kind>>
<1> DEFINE new == {<<p, kind>> : p \in Parents(history, c)}
<1>1. PushParents(q, c, kind) = q (+) SetToBag(new)
  BY DEF PushParents
<1>2. \A f : f \in new <=> \E p \in Parents(history, c) : f = <<p, kind>>
  OBVIOUS
<1> HIDE DEF new
<1>3. IsABag(q (+) SetToBag(new))
  BY DEF IsABag, SetToBag, (+)
<1>4. BagToSet(q (+) SetToBag(new)) = BagToSet(q) \cup new
  BY DEF IsABag, BagToSet, SetToBag, (+)
<1> QED
  BY <1>1, <1>2, <1>3, <1>4

LEMMA EmptyFacts ==
  IsABag(EmptyBag) /\ BagToSet(EmptyBag) = {}
  BY DEF EmptyBag, IsABag, BagToSet, SetToBag

(* Sequences. *)
LEMMA TailFacts ==
  ASSUME NEW S, NEW s \in Seq(S), s # <<>>
  PROVE  /\ Head(s) \in S /\ Tail(s) \in Seq(S)
         /\ Head(s) \in Range(s)
         /\ \A x : x \in Range(s) <=> x = Head(s) \/ x \in Range(Tail(s))
<1>1. /\ Head(s) \in S /\ Tail(s) \in Seq(S) /\ Len(s) \in Nat \ {0}
      /\ Head(s) = s[1] /\ DOMAIN s = 1..Len(s)
      /\ DOMAIN Tail(s) = 1..(Len(s) - 1)
      /\ \A i \in 1..(Len(s) - 1) : Tail(s)[i] = s[i + 1]
  OBVIOUS
<1>2. ASSUME NEW x, x \in Range(s)
      PROVE  x = Head(s) \/ x \in Range(Tail(s))
  <2>1. PICK i \in 1..Len(s) : x = s[i]
    BY <1>1, <1>2 DEF Range
  <2>2. CASE i = 1
    BY <1>1, <2>1, <2>2
  <2>3. CASE i # 1
    <3>1. i - 1 \in 1..(Len(s) - 1) /\ x = Tail(s)[i - 1]
      BY <1>1, <2>1, <2>3
    <3> QED
      BY <1>1, <3>1 DEF Range
  <2> QED
    BY <2>2, <2>3
<1>3. ASSUME NEW x, x \in Range(Tail(s))
      PROVE  x \in Range(s)
  <2>1. PICK i \in 1..(Len(s) - 1) : x = Tail(s)[i]
    BY <1>1, <1>3 DEF Range
  <2>2. i + 1 \in 1..Len(s) /\ x = s[i + 1]
    BY <1>1, <2>1
  <2> QED
    BY <1>1, <2>2 DEF Range
<1>4. Head(s) \in Range(s)
  BY <1>1 DEF Range
<1> QED
  BY <1>1, <1>2, <1>3, <1>4

LEMMA AppendFacts ==
  ASSUME NEW S, NEW s \in Seq(S), NEW c \in S
  PROVE  /\ Append(s, c) \in Seq(S) /\ Append(s, c) # <<>>
         /\ \A x : x \in Range(Append(s, c)) <=> x \in Range(s) \/ x = c
<1>1. /\ Append(s, c) \in Seq(S) /\ Len(s) \in Nat /\ DOMAIN s = 1..Len(s)
      /\ DOMAIN Append(s, c) = 1..(Len(s) + 1)
      /\ Append(s, c)[Len(s) + 1] = c
      /\ \A i \in 1..Len(s) : Append(s, c)[i] = s[i]
  OBVIOUS
<1>2. Append(s, c) # <<>>
  BY <1>1
<1>3. c \in Range(Append(s, c))
  BY <1>1 DEF Range
<1> QED
  BY <1>1, <1>2, <1>3 DEF Range

-----------------------------------------------------------------------------
(* Types. *)

TypeInv ==
  LET Commits == DOMAIN history
  IN  /\ TypeOK
      /\ history \in Histories /\ time \in TimesOf(history)
      /\ IsABag(queue) /\ IsABag(walk)
      /\ both \in Seq(Commits) /\ todo \in Seq(Commits)
      /\ pc = "parents" =>
           /\ node \in Commits \X {"one", "two", "stale"}
           /\ Range(todo) \subseteq Parents(history, node[1])
      /\ pc \in {"fold", "walk"} => result \in Commits
      /\ pc = "walk" => pair \in Commits \X Commits /\ pair[1] = result

LEMMA HistoryFacts ==
  ASSUME TypeInv
  PROVE  IsHistory(history)
  BY CommonAncestorAssumption DEF TypeInv

(* An entry the heap returns is an entry of the queue. *)
LEMMA YoungestFacts ==
  ASSUME NEW q, NEW e \in Youngest(q)
  PROVE  e \in BagToSet(q) /\ \A f \in BagToSet(q) : time[f[1]] <= time[e[1]]
  BY DEF Youngest

LEMMA TypeStart ==
  ASSUME Init
  PROVE  TypeInv
<1> DEFINE Commits == DOMAIN history
<1>1. history \in Histories /\ time \in TimesOf(history)
  BY DEF Init
<1>2. /\ IsHistory(history) /\ time \in [Commits -> Times]
      /\ oid1 \in Commits /\ oid2 \in Commits
  <2>1. \A h \in Histories :
          /\ IsHistory(h)
          /\ TimesOf(h) \subseteq [DOMAIN h -> Times]
          /\ Queries(h) \subseteq (DOMAIN h) \X (DOMAIN h)
    BY CommonAncestorAssumption, Zenon
  <2>2. IsHistory(history)
    BY <1>1, <2>1, Zenon
  <2>3. time \in [Commits -> Times]
    BY <1>1, <2>1, Zenon
  <2>4. Queries(history) \subseteq Commits \X Commits
    BY <1>1, <2>1
  <2>5. oid1 \in Commits /\ oid2 \in Commits
    BY <2>4 DEF Init
  <2> QED
    BY <2>2, <2>3, <2>5, Zenon
<1>3. /\ IsABag(queue)
      /\ \A e \in BagToSet(queue) : e = <<oid1, "one">> \/ e = <<oid2, "two">>
  BY DEF Init, IsABag, BagToSet, SetToBag
<1>4. walk = EmptyBag /\ IsABag(walk) /\ BagToSet(walk) = {}
  BY EmptyFacts DEF Init
<1>5. both = <<>> /\ todo = <<>> /\ Range(both) = {} /\ Range(todo) = {}
  BY DEF Init, Range
<1>6. /\ seen \in [{"one", "two"} -> SUBSET Commits]
      /\ stale = {}
      /\ result \in Commits \cup {NoCommit}
      /\ pc \in {"pop", "done"}
  BY <1>2 DEF Init
<1>7. BagToSet(queue) \subseteq Commits \X {"one", "two", "stale"}
  BY <1>2, <1>3
<1>8. both \in Seq(Commits) /\ todo \in Seq(Commits)
  BY <1>5
<1> QED
  BY <1>1, <1>2, <1>3, <1>4, <1>5, <1>6, <1>7, <1>8 DEF TypeInv, TypeOK

LEMMA TypeStep ==
  ASSUME TypeInv, [Next]_vars
  PROVE  TypeInv'
<1> DEFINE Commits == DOMAIN history
<1> USE DEF graph
<1>h. IsHistory(history)
  BY HistoryFacts
<1>p. \A c \in Commits : \A p \in Parents(history, c) : p \in Commits
  BY <1>h, ParentFacts
<1>1. CASE PopOtherEnd
  <2>1. PICK e \in BagToSet(queue) : result' = e[1]
    BY <1>1 DEF PopOtherEnd, Youngest
  <2>2. result' \in Commits
    BY <2>1 DEF TypeInv, TypeOK
  <2> QED
    BY <1>1, <2>2 DEF PopOtherEnd, TypeInv, TypeOK
<1>2. CASE PopSeen
  <2>1. PICK e \in BagToSet(queue) : queue' = Remove1(queue, e)
    BY <1>2 DEF PopSeen, Youngest
  <2>2. IsABag(queue') /\ BagToSet(queue') \subseteq BagToSet(queue)
    BY <2>1, RemoveFacts DEF TypeInv
  <2> QED
    BY <1>2, <2>2 DEF PopSeen, TypeInv, TypeOK
<1>3. CASE PopExpand
  <2>1. PICK e \in BagToSet(queue) :
          /\ both' = both \/ both' = Append(both, e[1])
          /\ \/ seen' = seen
             \/ e[2] # "stale" /\ seen' = [seen EXCEPT ![e[2]] = @ \cup {e[1]}]
          /\ stale' = stale \/ stale' = stale \cup {e[1]}
          /\ queue' = Remove1(queue, e) /\ node' = e /\ todo' = history[e[1]]
    BY <1>3 DEF PopExpand, Youngest
  <2>2. e \in Commits \X {"one", "two", "stale"}
    BY <2>1 DEF TypeInv, TypeOK
  <2>3. IsABag(queue') /\ BagToSet(queue') \subseteq BagToSet(queue)
    BY <2>1, RemoveFacts DEF TypeInv
  <2>4. todo' \in Seq(Commits) /\ Range(todo') = Parents(history, e[1])
    <3>1. e[1] \in Commits
      BY <2>2
    <3>2. /\ todo' \in Seq(Nat) /\ Range(todo') = Parents(history, e[1])
          /\ Range(todo') \subseteq Commits
      BY <1>h, <1>p, <2>1, <3>1, ParentFacts
    <3> QED
      BY <3>2 DEF Range
  <2>5. both' \in Seq(Commits) /\ Range(both') \subseteq Commits
    <3>1. e[1] \in Commits /\ both \in Seq(Commits) /\ Range(both) \subseteq Commits
      BY <2>2 DEF TypeInv, TypeOK
    <3>2. CASE both' = both
      BY <3>1, <3>2
    <3>3. CASE both' = Append(both, e[1])
      <4>1. /\ Append(both, e[1]) \in Seq(Commits)
            /\ \A x : x \in Range(Append(both, e[1])) <=> x \in Range(both) \/ x = e[1]
        BY <3>1, AppendFacts
      <4> QED
        BY <3>1, <3>3, <4>1
    <3> QED
      BY <2>1, <3>2, <3>3
  <2>6. seen' \in [{"one", "two"} -> SUBSET Commits]
    BY <2>1, <2>2 DEF TypeInv, TypeOK
  <2>7. stale' \subseteq Commits
    BY <2>1, <2>2 DEF TypeInv, TypeOK
  <2>8. Range(todo') \subseteq Commits
    BY <1>p, <2>2, <2>4
  <2> QED
    BY <1>3, <2>1, <2>2, <2>3, <2>4, <2>5, <2>6, <2>7, <2>8
    DEF PopExpand, TypeInv, TypeOK
<1>4. CASE MarkStale
  <2>1. PICK e \in BagToSet(queue) :
          queue' = Insert(Remove1(queue, e), <<Head(todo), "stale">>)
    BY <1>4 DEF MarkStale, Queued
  <2>2. /\ Head(todo) \in Commits /\ Tail(todo) \in Seq(Commits)
        /\ Range(Tail(todo)) \subseteq Range(todo)
    BY <1>4, TailFacts DEF MarkStale, TypeInv
  <2>3. /\ IsABag(queue')
        /\ \A f \in BagToSet(queue') : f \in BagToSet(queue) \/ f = <<Head(todo), "stale">>
    BY <2>1, RemoveFacts, InsertFacts DEF TypeInv
  <2>4. BagToSet(queue') \subseteq Commits \X {"one", "two", "stale"}
    BY <2>2, <2>3 DEF TypeInv, TypeOK
  <2> QED
    BY <1>4, <2>2, <2>3, <2>4 DEF MarkStale, TypeInv, TypeOK
<1>5. CASE PushParent
  <2>1. /\ Head(todo) \in Commits /\ Tail(todo) \in Seq(Commits)
        /\ Range(Tail(todo)) \subseteq Range(todo)
    BY <1>5, TailFacts DEF PushParent, TypeInv
  <2>2. PICK kind \in {"one", "two", "stale"} : queue' = Insert(queue, <<Head(todo), kind>>)
    BY <1>5 DEF PushParent, TypeInv
  <2>3. /\ IsABag(queue')
        /\ \A f \in BagToSet(queue') : f \in BagToSet(queue) \/ f = <<Head(todo), kind>>
    BY <2>2, InsertFacts DEF TypeInv
  <2>4. BagToSet(queue') \subseteq Commits \X {"one", "two", "stale"}
    BY <2>1, <2>3 DEF TypeInv, TypeOK
  <2> QED
    BY <1>5, <2>1, <2>3, <2>4 DEF PushParent, TypeInv, TypeOK
<1>6. CASE EndOfParents
  BY <1>6 DEF EndOfParents, TypeInv, TypeOK
<1>7. CASE NoneFound
  BY <1>7 DEF NoneFound, TypeInv, TypeOK
<1>8. CASE FirstFound
  <2>1. /\ result' \in Commits /\ both' \in Seq(Commits)
        /\ Range(both') \subseteq Range(both)
    BY <1>8, TailFacts DEF FirstFound, TypeInv
  <2> QED
    BY <1>8, <2>1 DEF FirstFound, TypeInv, TypeOK
<1>9. CASE FoldDone
  BY <1>9 DEF FoldDone, TypeInv, TypeOK
<1>10. CASE FoldNext
  <2>1. /\ Head(both) \in Commits /\ both' \in Seq(Commits)
        /\ Range(both') \subseteq Range(both)
    BY <1>10, TailFacts DEF FoldNext, TypeInv
  <2> DEFINE first == PushParents(EmptyBag, result, "one")
  <2>2. IsABag(first) /\ \A f \in BagToSet(first) :
          \E p \in Parents(history, result) : f = <<p, "one">>
    BY EmptyFacts, PushFacts
  <2> HIDE DEF first
  <2>3. walk' = PushParents(first, Head(both), "two")
    BY <1>10 DEF FoldNext, first
  <2>4. /\ IsABag(walk')
        /\ \A f \in BagToSet(walk') : f \in BagToSet(first) \/
             \E p \in Parents(history, Head(both)) : f = <<p, "two">>
    BY <2>2, <2>3, PushFacts
  <2>5. result \in Commits
    BY <1>10 DEF FoldNext, TypeInv
  <2>6. BagToSet(walk') \subseteq Commits \X {"one", "two"}
    BY <1>p, <2>1, <2>2, <2>4, <2>5
  <2> QED
    BY <1>10, <2>1, <2>4, <2>5, <2>6 DEF FoldNext, TypeInv, TypeOK
<1>11. CASE WalkFound
  <2>1. result' \in Commits
    BY <1>11 DEF WalkFound, TypeInv
  <2> QED
    BY <1>11, <2>1 DEF WalkFound, TypeInv, TypeOK
<1>12. CASE WalkOn
  <2>1. PICK e \in BagToSet(walk) : walk' = PushParents(Remove1(walk, e), e[1], e[2])
    BY <1>12 DEF WalkOn, Youngest
  <2>2. e \in Commits \X {"one", "two"}
    BY <2>1 DEF TypeInv, TypeOK
  <2>3. IsABag(Remove1(walk, e)) /\ BagToSet(Remove1(walk, e)) \subseteq BagToSet(walk)
    BY <2>1, RemoveFacts DEF TypeInv
  <2>4. /\ IsABag(walk')
        /\ \A f \in BagToSet(walk') : f \in BagToSet(walk) \/
             \E p \in Parents(history, e[1]) : f = <<p, e[2]>>
    BY <2>1, <2>3, PushFacts
  <2>5. BagToSet(walk') \subseteq Commits \X {"one", "two"}
    BY <1>p, <2>2, <2>4 DEF TypeInv, TypeOK
  <2> QED
    BY <1>12, <2>4, <2>5 DEF WalkOn, TypeInv, TypeOK
<1>13. CASE WalkExhausted
  BY <1>13 DEF WalkExhausted, TypeInv, TypeOK
<1>14. CASE UNCHANGED vars
  BY <1>14 DEF vars, TypeInv, TypeOK, Range
<1> QED
  BY <1>1, <1>2, <1>3, <1>4, <1>5, <1>6, <1>7, <1>8, <1>9, <1>10, <1>11,
     <1>12, <1>13, <1>14 DEF Next

(* The call only ever handles commits of the graph, and its queues only    *)
(* hold entries of the kinds the code tells apart.                         *)
THEOREM TypeCorrect == Spec => []TypeOK
<1>1. Init => TypeInv
  BY TypeStart
<1>2. TypeInv /\ [Next]_vars => TypeInv'
  BY TypeStep
<1>3. TypeInv => TypeOK
  BY DEF TypeInv
<1> QED
  BY <1>1, <1>2, <1>3, PTL DEF Spec

-----------------------------------------------------------------------------
(* The base is the best common ancestor. *)

Anc == Ancestors(history)
Common == Anc[oid1] \cap Anc[oid2]
Sides == {"one", "two"}
Behind(x, S) == \E b \in S : x \in Anc[b]
InQueue(c, kind) == <<c, kind>> \in BagToSet(queue)

(* c is still to be looked at for side k. *)
Pending(c, k) ==
  InQueue(c, k) \/ (pc = "parents" /\ node[2] = k /\ c \in Range(todo))

(* Nothing is stale but what a base found so far descends from, a base     *)
(* included.                                                               *)
StaleSound ==
  /\ \A c \in DOMAIN history : InQueue(c, "stale") => Behind(c, Range(both))
  /\ \A c \in stale : Behind(c, Range(both))
  /\ pc = "parents" /\ node[2] = "stale" => Behind(node[1], Range(both))

(* What a side has seen or queued is an ancestor of its end. *)
SideSound(k) ==
  /\ seen[k] \subseteq Anc[End(k)]
  /\ \A c \in DOMAIN history : InQueue(c, k) => c \in Anc[End(k)]
  /\ pc = "parents" /\ node[2] = k => node[1] \in Anc[End(k)]

(* A side drops no commit before it has seen it, found it behind a base or *)
(* noted it for later.                                                     *)
Accounted(c, k) == c \in seen[k] \/ Pending(c, k) \/ Behind(c, Range(both))

SideComplete(k) ==
  /\ Accounted(End(k), k)
  /\ \A c \in seen[k] : \A p \in Parents(history, c) : Accounted(p, k)

SearchInv ==
  pc \in {"pop", "parents", "choose"} =>
    /\ StaleSound
    /\ \A k \in Sides : SideSound(k) /\ SideComplete(k)
    /\ seen["one"] \cap seen["two"] = {}
    /\ Range(both) \subseteq Common
    /\ pc = "choose" => \A c \in DOMAIN history, k \in Sides : ~InQueue(c, k)

(* Every common ancestor is behind a candidate that is left, and the walk  *)
(* of getDescendent keeps to the ancestors of its arguments.               *)
FoldInv ==
  pc \in {"fold", "walk"} =>
    /\ result \in Common /\ Range(both) \subseteq Common
    /\ \A x \in Common : \/ x \in Anc[result] \/ Behind(x, Range(both))
                         \/ pc = "walk" /\ x \in Anc[pair[2]]
    /\ pc = "walk" =>
         /\ pair[2] \in Common
         /\ \A e \in BagToSet(walk) :
              /\ e[2] = "one" => e[1] \in Anc[pair[1]]
              /\ e[2] = "two" => e[1] \in Anc[pair[2]]

DoneInv == pc = "done" => result \in Common /\ Common \subseteq Anc[result]

BaseInv == SearchInv /\ FoldInv /\ DoneInv

(* The common ancestor that descends from all the others, if there is one. *)
IsTop(d) == d \in Common /\ Common \subseteq Anc[d]

(* It is found first, stays first, and the walk from it to another         *)
(* candidate does not run dry before it gets there.                        *)
TopInv ==
  \A d \in DOMAIN history : IsTop(d) =>
    /\ pc \in {"pop", "parents", "choose"} /\ both # <<>> =>
         Head(both) = d /\ d \notin Range(Tail(both))
    /\ pc \in {"fold", "walk"} => result = d /\ d \notin Range(both)
    /\ pc = "walk" =>
         /\ pair[2] # d
         /\ \E c \in DOMAIN history :
              <<c, "one">> \in BagToSet(walk) /\ pair[2] \in Anc[c]
    /\ pc # "failed"

LEMMA GraphFacts ==
  ASSUME TypeInv
  PROVE  /\ \A c \in DOMAIN history :
              c \in Anc[c] /\ Anc[c] \subseteq DOMAIN history
                /\ Parents(history, c) \subseteq Anc[c]
         /\ \A c \in DOMAIN history : Parents(history, c) \subseteq DOMAIN history
         /\ \A c \in DOMAIN history : \A d \in Anc[c] : Anc[d] \subseteq Anc[c]
         /\ \A c, d \in DOMAIN history : c \in Anc[d] /\ d \in Anc[c] => c = d
         /\ \A c \in DOMAIN history : \A x \in Anc[c] :
              x = c \/ \E p \in Parents(history, c) : x \in Anc[p]
         /\ oid1 \in DOMAIN history /\ oid2 \in DOMAIN history
         /\ Common \subseteq DOMAIN history
         /\ DOMAIN history \subseteq Nat
<1>1. IsHistory(history) /\ oid1 \in DOMAIN history /\ oid2 \in DOMAIN history
  BY HistoryFacts DEF TypeInv, TypeOK
<1>2. \A c \in DOMAIN history : \A x :
        x \in Anc[c] <=> x = c \/ \E p \in Parents(history, c) : x \in Anc[p]
  BY <1>1, AncestorsUnfold DEF Anc
<1>3. \A c \in DOMAIN history : \A d \in Anc[c] : d \in DOMAIN history /\ d <= c
  BY <1>1, AncestorsAreOlder DEF Anc
<1>4. \A c \in DOMAIN history : \A d \in Anc[c] : Anc[d] \subseteq Anc[c]
  BY <1>1, AncestorsCompose DEF Anc
<1>5. /\ \A c \in DOMAIN history : \A p \in Parents(history, c) : p \in DOMAIN history
      /\ \A c \in DOMAIN history : c \in Nat
  BY <1>1, ParentFacts
<1>6. \A c \in DOMAIN history : c \in Anc[c] /\ Parents(history, c) \subseteq Anc[c]
  BY <1>2, <1>5
<1>7. \A c, d \in DOMAIN history : c \in Anc[d] /\ d \in Anc[c] => c = d
  BY <1>3, <1>5
<1>8. Common \subseteq DOMAIN history
  BY <1>1, <1>3 DEF Common
<1> QED
  BY <1>1, <1>2, <1>3, <1>4, <1>5, <1>6, <1>7, <1>8

LEMMA BehindFacts ==
  ASSUME TypeInv, NEW S \in SUBSET DOMAIN history
  PROVE  /\ \A x \in S : Behind(x, S)
         /\ \A x : Behind(x, S) => \A y \in Anc[x] : Behind(y, S)
         /\ \A x : Behind(x, S) =>
              x \in DOMAIN history /\ \A p \in Parents(history, x) : Behind(p, S)
<1>1. \A x \in S : Behind(x, S)
  BY GraphFacts DEF Behind
<1>2. \A x : Behind(x, S) => x \in DOMAIN history
  BY GraphFacts DEF Behind
<1>3. \A x : Behind(x, S) => \A y \in Anc[x] : Behind(y, S)
  BY GraphFacts DEF Behind
<1> QED
  BY <1>1, <1>2, <1>3, GraphFacts

(* Every ancestor of a side's end has been seen by that side, is behind a  *)
(* base or is behind a commit the side has still to look at.               *)
LEMMA SideReaches ==
  ASSUME TypeInv, NEW k \in Sides, SideComplete(k)
  PROVE  \A x \in Anc[End(k)] :
           \/ x \in seen[k] \/ Behind(x, Range(both))
           \/ \E c \in DOMAIN history : Pending(c, k) /\ x \in Anc[c]
<1> DEFINE
    Reached(x) == \/ x \in seen[k] \/ Behind(x, Range(both))
                  \/ \E c \in DOMAIN history : Pending(c, k) /\ x \in Anc[c]
    T == {x \in DOMAIN history : Reached(x)}
<1>1. /\ seen[k] \subseteq DOMAIN history /\ End(k) \in DOMAIN history
      /\ Range(both) \in SUBSET DOMAIN history
  BY DEF TypeInv, TypeOK, Sides, End
<1>2. ASSUME NEW c \in DOMAIN history, Accounted(c, k)
      PROVE  Reached(c)
  BY <1>2, GraphFacts DEF Accounted
<1>3. ASSUME NEW x \in T, NEW p \in Parents(history, x)
      PROVE  p \in T
  <2>1. p \in DOMAIN history /\ p \in Anc[x]
    BY GraphFacts
  <2>2. CASE x \in seen[k]
    BY <1>2, <2>1, <2>2 DEF SideComplete
  <2>3. CASE Behind(x, Range(both))
    BY <1>1, <2>1, <2>3, BehindFacts
  <2>4. CASE \E c \in DOMAIN history : Pending(c, k) /\ x \in Anc[c]
    BY <2>1, <2>4, GraphFacts
  <2> QED
    BY <2>2, <2>3, <2>4
<1>4. End(k) \in T
  BY <1>1, <1>2 DEF SideComplete
<1>5. T \in SUBSET DOMAIN history /\ IsHistory(history)
  BY HistoryFacts
<1>6. \A x \in T : Parents(history, x) \subseteq T
  BY <1>3
<1>7. Anc[End(k)] \subseteq T
  <2> HIDE DEF T
  <2> QED
    BY <1>4, <1>5, <1>6, AncestorsLeast DEF Anc
<1> QED
  BY <1>7

LEMMA AllBehind ==
  ASSUME TypeInv, SearchInv, pc = "choose"
  PROVE  \A x \in Common : Behind(x, Range(both))
<1>1. \A k \in Sides : SideComplete(k) /\ \A c \in DOMAIN history : ~Pending(c, k)
  BY DEF SearchInv, Pending
<1>2. seen["one"] \cap seen["two"] = {}
  BY DEF SearchInv
<1>3. \A x \in Anc[oid1] : x \in seen["one"] \/ Behind(x, Range(both))
  BY <1>1, SideReaches DEF Sides, End
<1>4. \A x \in Anc[oid2] : x \in seen["two"] \/ Behind(x, Range(both))
  BY <1>1, SideReaches DEF Sides, End
<1> QED
  BY <1>2, <1>3, <1>4 DEF Common

LEMMA GraphStays ==
  ASSUME UNCHANGED graph
  PROVE  /\ Anc' = Anc /\ Common' = Common /\ history' = history
         /\ \A k : End(k)' = End(k)
  BY DEF graph, Anc, Common, End

-----------------------------------------------------------------------------
(* The search. *)

LEMMA SearchStart ==
  ASSUME Init
  PROVE  SearchInv
<1>1. TypeInv
  BY TypeStart
<1>2. \A c : \A k : InQueue(c, k) => <<c, k>> = <<oid1, "one">> \/ <<c, k>> = <<oid2, "two">>
  BY DEF Init, InQueue, BagToSet, SetToBag
<1>3. InQueue(oid1, "one") /\ InQueue(oid2, "two")
  BY DEF Init, InQueue, BagToSet, SetToBag
<1>4. seen["one"] = {} /\ seen["two"] = {} /\ stale = {} /\ Range(both) = {}
  BY DEF Init, Range
<1>5. pc \in {"pop", "done"}
  BY DEF Init
<1>6. StaleSound
  BY <1>2, <1>4, <1>5 DEF StaleSound
<1>7. ASSUME NEW k \in Sides PROVE SideSound(k)
  BY <1>1, <1>2, <1>4, <1>5, GraphFacts DEF SideSound, Sides, End
<1>8. ASSUME NEW k \in Sides PROVE SideComplete(k)
  BY <1>3, <1>4 DEF SideComplete, Sides, End, Accounted, Pending
<1> QED
  BY <1>4, <1>5, <1>6, <1>7, <1>8 DEF SearchInv

(* An entry of the queue, as a commit of the graph and a kind. *)
LEMMA EntryFacts ==
  ASSUME TypeInv, NEW e \in BagToSet(queue)
  PROVE  /\ e[1] \in DOMAIN history /\ e[2] \in {"one", "two", "stale"}
         /\ e = <<e[1], e[2]>> /\ InQueue(e[1], e[2])
<1>1. BagToSet(queue) \subseteq (DOMAIN history) \X {"one", "two", "stale"}
  BY DEF TypeInv, TypeOK
<1>2. e \in (DOMAIN history) \X {"one", "two", "stale"}
  BY <1>1
<1>3. /\ e[1] \in DOMAIN history /\ e[2] \in {"one", "two", "stale"}
      /\ e = <<e[1], e[2]>>
  BY <1>2
<1> QED
  BY <1>3 DEF InQueue

LEMMA PopSeenSearch ==
  ASSUME TypeInv, SearchInv, PopSeen
  PROVE  SearchInv'
<1>1. PICK e \in BagToSet(queue) :
        /\ e[2] # "stale" /\ e[1] \in seen[e[2]]
        /\ queue' = Remove1(queue, e)
  BY DEF PopSeen, Youngest
<1>2. /\ \A c, k : InQueue(c, k)' => InQueue(c, k)
      /\ \A c, k : InQueue(c, k) => <<c, k>> = e \/ InQueue(c, k)'
  BY <1>1, RemoveFacts DEF TypeInv, InQueue
<1>3. /\ Anc' = Anc /\ Common' = Common /\ history' = history
      /\ \A k : End(k)' = End(k)
  BY GraphStays DEF PopSeen
<1>4. /\ pc = "pop" /\ pc' \in {"pop", "choose"} /\ seen' = seen /\ both' = both /\ stale' = stale
      /\ pc' = "choose" => queue' = EmptyBag
  BY DEF PopSeen
<1>5. StaleSound'
  BY <1>2, <1>3, <1>4 DEF SearchInv, StaleSound, Behind
<1>6. ASSUME NEW k \in Sides PROVE SideSound(k)'
  BY <1>2, <1>3, <1>4 DEF SearchInv, SideSound
<1>7. ASSUME NEW k \in Sides PROVE SideComplete(k)'
  <2>1. SideComplete(k)
    BY <1>4 DEF SearchInv
  <2>2. ASSUME NEW c, Accounted(c, k)
        PROVE  Accounted(c, k)'
    BY <1>1, <1>2, <1>3, <1>4, <2>2 DEF Accounted, Pending, Behind
  <2> QED
    BY <1>3, <1>4, <2>1, <2>2 DEF SideComplete
<1>8. pc' = "choose" => \A c, k : ~InQueue(c, k)'
  BY <1>4, EmptyFacts DEF InQueue
<1> QED
  BY <1>3, <1>4, <1>5, <1>6, <1>7, <1>8 DEF SearchInv

LEMMA PopExpandSearch ==
  ASSUME TypeInv, SearchInv, PopExpand
  PROVE  SearchInv'
<1>1. PICK e \in BagToSet(queue) :
        LET c == e[1]
            kind == e[2]
            met == kind # "stale" /\ c \in seen[Other(kind)]
        IN  /\ kind # "stale" => c # End(Other(kind)) /\ (met \/ c \notin seen[kind])
            /\ both' = IF met /\ c \notin Range(both) THEN Append(both, c) ELSE both
            /\ seen' = IF kind = "stale" \/ met THEN seen
                       ELSE [seen EXCEPT ![kind] = @ \cup {c}]
            /\ stale' = IF kind = "stale" THEN stale \cup {c} ELSE stale
            /\ queue' = Remove1(queue, e)
            /\ node' = e
            /\ todo' = history[c]
  BY DEF PopExpand, Youngest
<1> DEFINE
    c == e[1]
    kind == e[2]
    met == kind # "stale" /\ c \in seen[Other(kind)]
<1>2. /\ c \in DOMAIN history /\ kind \in {"one", "two", "stale"}
      /\ e = <<c, kind>> /\ InQueue(c, kind)
  BY EntryFacts
<1>3. /\ \A d, k : InQueue(d, k)' => InQueue(d, k)
      /\ \A d, k : InQueue(d, k) => (d = c /\ k = kind) \/ InQueue(d, k)'
  BY <1>1, <1>2, RemoveFacts DEF TypeInv, InQueue
<1>4. /\ Anc' = Anc /\ Common' = Common /\ history' = history
      /\ \A k : End(k)' = End(k)
  BY GraphStays DEF PopExpand
<1>5. pc = "pop" /\ pc' = "parents" /\ node'[1] = c /\ node'[2] = kind
  BY <1>1 DEF PopExpand
<1>6. Range(todo') = Parents(history, c)
  BY <1>1, <1>2, HistoryFacts, ParentFacts
<1>7. /\ both \in Seq(DOMAIN history) /\ Range(both) \subseteq DOMAIN history
      /\ seen \in [{"one", "two"} -> SUBSET DOMAIN history]
  BY DEF TypeInv, TypeOK
<1>8. \A x : x \in Range(both') <=> x \in Range(both) \/ (met /\ x = c)
  <2>1. CASE met /\ c \notin Range(both)
    BY <1>1, <1>2, <1>7, <2>1, AppendFacts
  <2>2. CASE ~(met /\ c \notin Range(both))
    BY <1>1, <2>2
  <2> QED
    BY <2>1, <2>2
<1>9. \A x : Behind(x, Range(both)) => Behind(x, Range(both))'
  BY <1>4, <1>8 DEF Behind
<1>10. /\ \A k \in Sides : \A x :
            x \in seen'[k] <=> x \in seen[k] \/ (k = kind /\ ~met /\ x = c)
       /\ \A x \in stale' : x \in stale \/ (kind = "stale" /\ x = c)
  BY <1>1, <1>2, <1>7 DEF Sides
<1>11. /\ StaleSound
       /\ \A k \in Sides : SideSound(k) /\ SideComplete(k)
       /\ seen["one"] \cap seen["two"] = {}
       /\ Range(both) \subseteq Common
  BY <1>5 DEF SearchInv
<1> HIDE DEF c, kind, met
<1>12. StaleSound'
  BY <1>2, <1>3, <1>4, <1>5, <1>9, <1>10, <1>11 DEF StaleSound
<1>13. ASSUME NEW k \in Sides PROVE SideSound(k)'
  BY <1>2, <1>3, <1>4, <1>5, <1>10, <1>11 DEF SideSound
<1>14. met => Behind(c, Range(both))'
  BY <1>2, <1>4, <1>8, GraphFacts DEF Behind
<1>15. ASSUME NEW k \in Sides PROVE SideComplete(k)'
  <2>1. ASSUME NEW x, Accounted(x, k)
        PROVE  Accounted(x, k)'
    <3>1. CASE x \in seen[k]
      BY <1>10, <3>1 DEF Accounted
    <3>2. CASE InQueue(x, k)
      BY <1>3, <1>10, <1>14, <3>2 DEF Accounted, Pending
    <3>3. CASE Behind(x, Range(both))
      BY <1>9, <3>3 DEF Accounted
    <3> QED
      BY <1>5, <2>1, <3>1, <3>2, <3>3 DEF Accounted, Pending
  <2>2. ASSUME NEW d \in seen'[k], NEW p \in Parents(history, d)
        PROVE  Accounted(p, k)'
    <3>1. CASE d \in seen[k]
      BY <1>11, <2>1, <3>1 DEF SideComplete
    <3>2. CASE k = kind /\ d = c
      BY <1>5, <1>6, <3>2 DEF Accounted, Pending
    <3> QED
      BY <1>10, <3>1, <3>2
  <2> QED
    BY <1>4, <1>11, <2>1, <2>2 DEF SideComplete
<1>16. seen'["one"] \cap seen'["two"] = {}
  <2>1. \A k \in Sides : k = kind /\ ~met => c \notin seen[Other(k)]
    BY DEF met, c, kind, Sides
  <2>2. /\ \A x : x \in seen'["one"] <=> x \in seen["one"] \/ ("one" = kind /\ ~met /\ x = c)
        /\ \A x : x \in seen'["two"] <=> x \in seen["two"] \/ ("two" = kind /\ ~met /\ x = c)
    BY <1>10 DEF Sides
  <2> QED
    BY <1>11, <2>1, <2>2 DEF Sides, Other
<1>17. Range(both)' \subseteq Common'
  <2>1. met => c \in Common
    <3>1. CASE met /\ kind = "one"
      BY <1>2, <1>11, <3>1 DEF met, c, kind, SideSound, Sides, Other, End, Common
    <3>2. CASE met /\ kind = "two"
      BY <1>2, <1>11, <3>2 DEF met, c, kind, SideSound, Sides, Other, End, Common
    <3> QED
      BY <1>2, <3>1, <3>2 DEF met
  <2> QED
    BY <1>4, <1>8, <1>11, <2>1
<1> QED
  BY <1>5, <1>12, <1>13, <1>15, <1>16, <1>17 DEF SearchInv

(* What the code takes for stale is behind a base. *)
LEMMA StaleIsBehind ==
  ASSUME TypeInv, SearchInv, pc = "parents", NEW p \in Range(todo), IsStale(p)
  PROVE  Behind(p, Range(both))
<1>1. Range(both) \in SUBSET DOMAIN history /\ p \in Parents(history, node[1])
  BY DEF TypeInv, TypeOK
<1>2. CASE node[1] \in Range(both)
  BY <1>1, <1>2, BehindFacts
<1>3. CASE p \in stale
  BY <1>3 DEF SearchInv, StaleSound
<1> QED
  BY <1>2, <1>3 DEF IsStale

LEMMA MarkStaleSearch ==
  ASSUME TypeInv, SearchInv, MarkStale
  PROVE  SearchInv'
<1> DEFINE p == Head(todo)
<1>1. PICK e \in BagToSet(queue) :
        e[1] = p /\ queue' = Insert(Remove1(queue, e), <<p, "stale">>)
  BY DEF MarkStale, Queued
<1>2. e = <<p, e[2]>>
  BY <1>1, EntryFacts
<1>3. /\ \A d, k : InQueue(d, k)' => InQueue(d, k) \/ (d = p /\ k = "stale")
      /\ \A d, k : InQueue(d, k) => d = p \/ InQueue(d, k)'
  <2>1. /\ IsABag(Remove1(queue, e))
        /\ \A f : f \in BagToSet(Remove1(queue, e)) => f \in BagToSet(queue)
        /\ \A f : f \in BagToSet(queue) => f = e \/ f \in BagToSet(Remove1(queue, e))
    BY <1>1, RemoveFacts DEF TypeInv
  <2>2. \A f : f \in BagToSet(queue') <=>
                 f \in BagToSet(Remove1(queue, e)) \/ f = <<p, "stale">>
    BY <1>1, <2>1, InsertFacts
  <2> QED
    BY <1>2, <2>1, <2>2 DEF InQueue
<1>4. /\ Anc' = Anc /\ Common' = Common /\ history' = history
      /\ \A k : End(k)' = End(k)
  BY GraphStays DEF MarkStale
<1>5. /\ pc = "parents" /\ pc' = pc /\ node' = node /\ seen' = seen
      /\ both' = both /\ stale' = stale
  BY DEF MarkStale
<1>6. p \in Range(todo) /\ \A x : x \in Range(todo) <=> x = p \/ x \in Range(todo')
  BY TailFacts DEF MarkStale, TypeInv
<1>7. Behind(p, Range(both))
  BY <1>6, StaleIsBehind DEF MarkStale
<1>8. \A x : Behind(x, Range(both))' <=> Behind(x, Range(both))
  BY <1>4, <1>5 DEF Behind
<1>9. /\ StaleSound
      /\ \A k \in Sides : SideSound(k) /\ SideComplete(k)
      /\ seen["one"] \cap seen["two"] = {}
      /\ Range(both) \subseteq Common
  BY <1>5 DEF SearchInv
<1> HIDE DEF p
<1>10. StaleSound'
  BY <1>3, <1>4, <1>5, <1>7, <1>8, <1>9 DEF StaleSound
<1>11. ASSUME NEW k \in Sides PROVE SideSound(k)'
  BY <1>3, <1>4, <1>5, <1>9 DEF SideSound, Sides
<1>12. ASSUME NEW k \in Sides PROVE SideComplete(k)'
  <2>1. ASSUME NEW x, Accounted(x, k)
        PROVE  Accounted(x, k)'
    BY <1>3, <1>5, <1>6, <1>7, <1>8, <2>1 DEF Accounted, Pending
  <2> QED
    BY <1>4, <1>5, <1>9, <2>1 DEF SideComplete
<1> QED
  BY <1>4, <1>5, <1>9, <1>10, <1>11, <1>12 DEF SearchInv

LEMMA PushParentSearch ==
  ASSUME TypeInv, SearchInv, PushParent
  PROVE  SearchInv'
<1> DEFINE
    p == Head(todo)
    kind == IF IsStale(p) THEN "stale" ELSE node[2]
<1>1. queue' = Insert(queue, <<p, kind>>)
  BY DEF PushParent
<1>2. \A d, k : InQueue(d, k)' <=> InQueue(d, k) \/ (d = p /\ k = kind)
  BY <1>1, InsertFacts DEF TypeInv, InQueue
<1>3. /\ Anc' = Anc /\ Common' = Common /\ history' = history
      /\ \A k : End(k)' = End(k)
  BY GraphStays DEF PushParent
<1>4. /\ pc = "parents" /\ pc' = pc /\ node' = node /\ seen' = seen
      /\ both' = both /\ stale' = stale
  BY DEF PushParent
<1>5. p \in Range(todo) /\ \A x : x \in Range(todo) <=> x = p \/ x \in Range(todo')
  BY TailFacts DEF PushParent, TypeInv
<1>6. p \in Parents(history, node[1]) /\ node[1] \in DOMAIN history
  BY <1>4, <1>5 DEF TypeInv
<1>7. \A x : Behind(x, Range(both))' <=> Behind(x, Range(both))
  BY <1>3, <1>4 DEF Behind
<1>8. /\ StaleSound
      /\ \A k \in Sides : SideSound(k) /\ SideComplete(k)
      /\ seen["one"] \cap seen["two"] = {}
      /\ Range(both) \subseteq Common
  BY <1>4 DEF SearchInv
<1>9. IsStale(p) => Behind(p, Range(both))
  BY <1>4, <1>5, StaleIsBehind
<1>10. kind = "stale" => Behind(p, Range(both))
  <2>1. CASE IsStale(p)
    BY <1>9, <2>1
  <2>2. CASE ~IsStale(p) /\ node[2] = "stale"
    <3>1. Range(both) \in SUBSET DOMAIN history
      BY DEF TypeInv, TypeOK
    <3> QED
      BY <1>4, <1>6, <1>8, <2>2, <3>1, BehindFacts DEF StaleSound
  <2> QED
    BY <2>1, <2>2
<1>11. kind = node[2] \/ IsStale(p)
  OBVIOUS
<1>12. kind \in Sides => kind = node[2]
  BY DEF Sides
<1> HIDE DEF p, kind
<1>13. StaleSound'
  BY <1>2, <1>3, <1>4, <1>7, <1>8, <1>10 DEF StaleSound
<1>14. ASSUME NEW k \in Sides PROVE SideSound(k)'
  <2>1. ASSUME k = node[2] PROVE p \in Anc[End(k)]
    <3>1. node[1] \in Anc[End(k)] /\ End(k) \in DOMAIN history
      BY <1>4, <1>8, <2>1, GraphFacts DEF SideSound, End
    <3> QED
      BY <1>6, <3>1, GraphFacts
  <2> QED
    BY <1>2, <1>3, <1>4, <1>8, <1>12, <2>1 DEF SideSound
<1>15. ASSUME NEW k \in Sides PROVE SideComplete(k)'
  <2>1. ASSUME NEW x, Accounted(x, k)
        PROVE  Accounted(x, k)'
    BY <1>2, <1>4, <1>5, <1>7, <1>9, <1>11, <2>1 DEF Accounted, Pending
  <2> QED
    BY <1>3, <1>4, <1>8, <2>1 DEF SideComplete
<1> QED
  BY <1>3, <1>4, <1>8, <1>13, <1>14, <1>15 DEF SearchInv

LEMMA EndOfParentsSearch ==
  ASSUME TypeInv, SearchInv, EndOfParents
  PROVE  SearchInv'
<1>1. /\ Anc' = Anc /\ Common' = Common /\ history' = history
      /\ \A k : End(k)' = End(k)
  BY GraphStays DEF EndOfParents
<1>2. /\ pc = "parents" /\ pc' \in {"pop", "choose"} /\ Range(todo) = {}
      /\ seen' = seen /\ both' = both /\ stale' = stale /\ queue' = queue
      /\ pc' = "choose" => \A e \in BagToSet(queue) : e[2] = "stale"
  BY DEF EndOfParents, Range
<1>3. \A c, k : InQueue(c, k)' <=> InQueue(c, k)
  BY <1>2 DEF InQueue
<1>4. \A x : Behind(x, Range(both))' <=> Behind(x, Range(both))
  BY <1>1, <1>2 DEF Behind
<1>5. /\ StaleSound
      /\ \A k \in Sides : SideSound(k) /\ SideComplete(k)
      /\ seen["one"] \cap seen["two"] = {}
      /\ Range(both) \subseteq Common
  BY <1>2 DEF SearchInv
<1>6. StaleSound'
  BY <1>1, <1>2, <1>3, <1>4, <1>5 DEF StaleSound
<1>7. ASSUME NEW k \in Sides PROVE SideSound(k)'
  BY <1>1, <1>2, <1>3, <1>5 DEF SideSound
<1>8. ASSUME NEW k \in Sides PROVE SideComplete(k)'
  <2>1. ASSUME NEW x, Accounted(x, k)
        PROVE  Accounted(x, k)'
    BY <1>2, <1>3, <1>4, <2>1 DEF Accounted, Pending
  <2> QED
    BY <1>1, <1>2, <1>5, <2>1 DEF SideComplete
<1>9. pc' = "choose" => \A c : \A k \in Sides : ~InQueue(c, k)'
  BY <1>2, <1>3 DEF InQueue, Sides
<1> QED
  BY <1>1, <1>2, <1>5, <1>6, <1>7, <1>8, <1>9 DEF SearchInv

-----------------------------------------------------------------------------
(* The candidates are folded to one. *)

LEMMA BaseStart ==
  ASSUME Init
  PROVE  BaseInv
<1>1. TypeInv /\ SearchInv
  BY TypeStart, SearchStart
<1>2. pc \in {"pop", "done"} /\ (pc = "done" => result = oid1 /\ oid1 = oid2)
  BY DEF Init
<1>3. DoneInv
  BY <1>1, <1>2, GraphFacts DEF DoneInv, Common
<1> QED
  BY <1>1, <1>2, <1>3 DEF BaseInv, FoldInv

(* A walk that meets the other end has the base in hand. *)
LEMMA PopOtherEndBase ==
  ASSUME TypeInv, BaseInv, PopOtherEnd
  PROVE  BaseInv'
<1>1. PICK e \in BagToSet(queue) :
        e[2] # "stale" /\ e[1] = End(Other(e[2])) /\ result' = e[1]
  BY DEF PopOtherEnd, Youngest
<1>2. e[2] \in Sides /\ e[1] \in DOMAIN history /\ InQueue(e[1], e[2])
  BY <1>1, EntryFacts DEF Sides
<1>3. e[1] \in Anc[End(e[2])] /\ e[1] \in Anc[e[1]]
  BY <1>2, GraphFacts DEF BaseInv, SearchInv, SideSound, PopOtherEnd
<1>4. Anc' = Anc /\ Common' = Common /\ pc' = "done"
  BY GraphStays DEF PopOtherEnd
<1>5. e[1] \in Common /\ Common \subseteq Anc[e[1]]
  BY <1>1, <1>2, <1>3 DEF Common, Sides, Other, End
<1> QED
  BY <1>1, <1>4, <1>5 DEF BaseInv, SearchInv, FoldInv, DoneInv

LEMMA FirstFoundBase ==
  ASSUME TypeInv, BaseInv, FirstFound
  PROVE  BaseInv'
<1>1. \A x \in Common : Behind(x, Range(both))
  BY AllBehind DEF BaseInv, FirstFound
<1>2. /\ Range(both) \subseteq Common
      /\ Head(both) \in Range(both)
      /\ \A x : x \in Range(both) <=> x = Head(both) \/ x \in Range(Tail(both))
  BY TailFacts DEF BaseInv, SearchInv, FirstFound, TypeInv
<1>3. Anc' = Anc /\ Common' = Common
  BY GraphStays DEF FirstFound
<1>4. pc' = "fold" /\ result' = Head(both) /\ both' = Tail(both)
  BY DEF FirstFound
<1>5. FoldInv'
  BY <1>1, <1>2, <1>3, <1>4 DEF FoldInv, Behind
<1> QED
  BY <1>4, <1>5 DEF BaseInv, SearchInv, DoneInv

LEMMA FoldNextBase ==
  ASSUME TypeInv, BaseInv, FoldNext
  PROVE  BaseInv'
<1>1. /\ result \in Common /\ Range(both) \subseteq Common
      /\ \A x \in Common : x \in Anc[result] \/ Behind(x, Range(both))
  BY DEF BaseInv, FoldInv, FoldNext
<1>2. /\ Head(both) \in Range(both)
      /\ \A x : x \in Range(both) <=> x = Head(both) \/ x \in Range(Tail(both))
  BY TailFacts DEF FoldNext, TypeInv
<1>3. Anc' = Anc /\ Common' = Common
  BY GraphStays DEF FoldNext
<1>4. /\ pc' = "walk" /\ result' = result /\ both' = Tail(both)
      /\ pair'[1] = result /\ pair'[2] = Head(both)
  BY DEF FoldNext
<1> DEFINE first == PushParents(EmptyBag, result, "one")
<1>5. IsABag(first) /\ \A f \in BagToSet(first) :
        \E p \in Parents(history, result) : f = <<p, "one">>
  BY EmptyFacts, PushFacts
<1>6. walk' = PushParents(first, Head(both), "two")
  BY DEF FoldNext
<1> HIDE DEF first
<1>7. \A f \in BagToSet(walk') :
        \/ \E p \in Parents(history, result) : f = <<p, "one">>
        \/ \E p \in Parents(history, Head(both)) : f = <<p, "two">>
  BY <1>5, <1>6, PushFacts
<1>8. /\ Parents(history, result) \subseteq Anc[result]
      /\ Parents(history, Head(both)) \subseteq Anc[Head(both)]
  BY <1>1, <1>2, GraphFacts
<1>9. \A f \in BagToSet(walk') :
        /\ f[2] = "one" => f[1] \in Anc[result]
        /\ f[2] = "two" => f[1] \in Anc[Head(both)]
  BY <1>7, <1>8
<1>10. \A x \in Common : \/ x \in Anc[result] \/ x \in Anc[Head(both)]
                         \/ Behind(x, Range(Tail(both)))
  BY <1>1, <1>2 DEF Behind
<1>11. \A x : Behind(x, Range(both))' <=> Behind(x, Range(Tail(both)))
  BY <1>3, <1>4 DEF Behind
<1>12. FoldInv'
  BY <1>1, <1>2, <1>3, <1>4, <1>9, <1>10, <1>11 DEF FoldInv
<1> QED
  BY <1>4, <1>12 DEF BaseInv, SearchInv, DoneInv

(* The walk from one candidate reached the other, which is behind it. *)
LEMMA WalkFoundBase ==
  ASSUME TypeInv, BaseInv, WalkFound
  PROVE  BaseInv'
<1>1. /\ result \in Common /\ Range(both) \subseteq Common
      /\ \A x \in Common : \/ x \in Anc[result] \/ Behind(x, Range(both))
                           \/ x \in Anc[pair[2]]
      /\ pair[2] \in Common /\ pair[1] = result
      /\ \A e \in BagToSet(walk) :
           /\ e[2] = "one" => e[1] \in Anc[pair[1]]
           /\ e[2] = "two" => e[1] \in Anc[pair[2]]
  BY DEF BaseInv, FoldInv, WalkFound, TypeInv
<1>2. \/ result' = pair[1] /\ pair[2] \in Anc[pair[1]]
      \/ result' = pair[2] /\ pair[1] \in Anc[pair[2]]
  BY <1>1 DEF WalkFound, Youngest
<1>3. result' \in Common /\ Anc[pair[1]] \cup Anc[pair[2]] \subseteq Anc[result']
  BY <1>1, <1>2, GraphFacts
<1>4. Anc' = Anc /\ Common' = Common /\ pc' = "fold" /\ both' = both
  BY GraphStays DEF WalkFound
<1>5. \A x : Behind(x, Range(both))' <=> Behind(x, Range(both))
  BY <1>4 DEF Behind
<1>6. FoldInv'
  BY <1>1, <1>3, <1>4, <1>5 DEF FoldInv
<1> QED
  BY <1>4, <1>6 DEF BaseInv, SearchInv, DoneInv

LEMMA WalkOnBase ==
  ASSUME TypeInv, BaseInv, WalkOn
  PROVE  BaseInv'
<1>1. PICK e \in BagToSet(walk) : walk' = PushParents(Remove1(walk, e), e[1], e[2])
  BY DEF WalkOn, Youngest
<1>2. e[1] \in DOMAIN history /\ e[2] \in {"one", "two"}
  BY <1>1 DEF TypeInv, TypeOK
<1>3. IsABag(Remove1(walk, e)) /\ BagToSet(Remove1(walk, e)) \subseteq BagToSet(walk)
  BY <1>1, RemoveFacts DEF TypeInv
<1>4. \A f \in BagToSet(walk') :
        f \in BagToSet(walk) \/ \E p \in Parents(history, e[1]) : f = <<p, e[2]>>
  BY <1>1, <1>3, PushFacts
<1>5. Anc' = Anc /\ Common' = Common /\ pc = "walk" /\ pc' = pc /\ both' = both
      /\ pair' = pair /\ result' = result
  BY GraphStays DEF WalkOn
<1>6. /\ FoldInv /\ pair[1] \in DOMAIN history /\ pair[2] \in DOMAIN history
  BY <1>5 DEF BaseInv, TypeInv
<1>7. ASSUME NEW f \in BagToSet(walk')
      PROVE  /\ f[2] = "one" => f[1] \in Anc[pair[1]]
             /\ f[2] = "two" => f[1] \in Anc[pair[2]]
  <2>1. CASE f \in BagToSet(walk)
    BY <1>5, <1>6, <2>1 DEF FoldInv
  <2>2. CASE \E p \in Parents(history, e[1]) : f = <<p, e[2]>>
    BY <1>1, <1>2, <1>5, <1>6, <2>2, GraphFacts DEF FoldInv
  <2> QED
    BY <1>4, <2>1, <2>2
<1>8. \A x : Behind(x, Range(both))' <=> Behind(x, Range(both))
  BY <1>5 DEF Behind
<1>9. FoldInv'
  BY <1>5, <1>6, <1>7, <1>8 DEF FoldInv
<1> QED
  BY <1>5, <1>9 DEF BaseInv, SearchInv, DoneInv

LEMMA BaseStep ==
  ASSUME TypeInv, BaseInv, [Next]_vars
  PROVE  BaseInv'
<1>1. CASE PopOtherEnd
  BY <1>1, PopOtherEndBase
<1>2. CASE PopSeen
  <2>1. SearchInv'
    BY <1>2, PopSeenSearch DEF BaseInv
  <2> QED
    BY <1>2, <2>1 DEF BaseInv, FoldInv, DoneInv, PopSeen
<1>3. CASE PopExpand
  <2>1. SearchInv'
    BY <1>3, PopExpandSearch DEF BaseInv
  <2> QED
    BY <1>3, <2>1 DEF BaseInv, FoldInv, DoneInv, PopExpand
<1>4. CASE MarkStale
  <2>1. SearchInv'
    BY <1>4, MarkStaleSearch DEF BaseInv
  <2> QED
    BY <1>4, <2>1 DEF BaseInv, FoldInv, DoneInv, MarkStale
<1>5. CASE PushParent
  <2>1. SearchInv'
    BY <1>5, PushParentSearch DEF BaseInv
  <2> QED
    BY <1>5, <2>1 DEF BaseInv, FoldInv, DoneInv, PushParent
<1>6. CASE EndOfParents
  <2>1. SearchInv'
    BY <1>6, EndOfParentsSearch DEF BaseInv
  <2> QED
    BY <1>6, <2>1 DEF BaseInv, FoldInv, DoneInv, EndOfParents
<1>7. CASE NoneFound
  BY <1>7 DEF BaseInv, SearchInv, FoldInv, DoneInv, NoneFound
<1>8. CASE FirstFound
  BY <1>8, FirstFoundBase
<1>9. CASE FoldDone
  <2>1. result \in Common /\ Common \subseteq Anc[result]
    BY <1>9 DEF BaseInv, FoldInv, FoldDone, Behind, Range
  <2>2. Anc' = Anc /\ Common' = Common /\ result' = result /\ pc' = "done"
    BY <1>9, GraphStays DEF FoldDone
  <2> QED
    BY <2>1, <2>2 DEF BaseInv, SearchInv, FoldInv, DoneInv
<1>10. CASE FoldNext
  BY <1>10, FoldNextBase
<1>11. CASE WalkFound
  BY <1>11, WalkFoundBase
<1>12. CASE WalkOn
  BY <1>12, WalkOnBase
<1>13. CASE WalkExhausted
  BY <1>13 DEF BaseInv, SearchInv, FoldInv, DoneInv, WalkExhausted
<1>14. CASE UNCHANGED vars
  <2>1. /\ Anc' = Anc /\ Common' = Common /\ history' = history
        /\ \A k : End(k)' = End(k)
    BY <1>14, GraphStays DEF vars, graph
  <2>2. /\ \A c, k : InQueue(c, k)' <=> InQueue(c, k)
        /\ \A x : Behind(x, Range(both))' <=> Behind(x, Range(both))
    BY <1>14, <2>1 DEF vars, InQueue, Behind
  <2>3. \A c, k : Accounted(c, k)' <=> Accounted(c, k)
    BY <1>14, <2>2 DEF vars, Accounted, Pending
  <2>4. SearchInv'
    BY <1>14, <2>1, <2>2, <2>3
    DEF BaseInv, SearchInv, vars, StaleSound, SideSound, SideComplete
  <2>5. FoldInv'
    BY <1>14, <2>1, <2>2 DEF BaseInv, FoldInv, vars
  <2> QED
    BY <1>14, <2>1, <2>4, <2>5 DEF BaseInv, DoneInv, vars
<1> QED
  BY <1>1, <1>2, <1>3, <1>4, <1>5, <1>6, <1>7, <1>8, <1>9, <1>10, <1>11,
     <1>12, <1>13, <1>14 DEF Next

LEMMA BestIsTop ==
  ASSUME TypeInv, NEW d
  PROVE  Best = {d} <=> d \in DOMAIN history /\ IsTop(d)
<1>1. Best = {c \in Common : \A x \in Common : c \in Anc[x] => x = c}
  BY DEF Best, BestCommonAncestors, Common, Anc
<1>2. ASSUME d \in DOMAIN history, IsTop(d)
      PROVE  Best = {d}
  <2>1. \A x \in Common : d \in Anc[x] => x = d
    BY <1>2, GraphFacts DEF IsTop
  <2>2. \A c \in Best : c = d
    BY <1>1, <1>2 DEF IsTop
  <2> QED
    BY <1>1, <1>2, <2>1, <2>2 DEF IsTop
<1>3. ASSUME Best = {d}
      PROVE  d \in DOMAIN history /\ IsTop(d)
  <2>1. d \in Common /\ d \in DOMAIN history
    BY <1>1, <1>3, GraphFacts
  <2>2. ASSUME NEW x \in Common
        PROVE  x \in Anc[d]
    <3> DEFINE T == {y \in Common : x \in Anc[y]}
    <3>1. DOMAIN history = 1..Len(history) /\ Len(history) \in Nat
      BY HistoryFacts DEF IsHistory
    <3>2. T \in SUBSET (0..Len(history)) /\ T # {}
      BY <3>1, GraphFacts
    <3>3. PICK y \in T : \A z \in T : z <= y
      BY <3>1, <3>2, GreatestNumber
    <3>4. ASSUME NEW z \in Common, y \in Anc[z]
          PROVE  z = y
      <4>1. z \in T
        BY <3>4, GraphFacts
      <4>2. z <= y /\ y <= z
        BY <3>3, <3>4, <4>1, GraphFacts, HistoryFacts, AncestorsAreOlder DEF Anc
      <4> QED
        BY <3>1, <3>2, <4>1, <4>2
    <3>5. y \in Best
      BY <1>1, <3>4
    <3> QED
      BY <1>3, <3>5
  <2> QED
    BY <2>1, <2>2 DEF IsTop
<1> QED
  BY <1>2, <1>3

(* Whatever the graph, the clocks and the order of equal entries, a base   *)
(* that is returned is the one best common ancestor.                       *)
THEOREM BaseIsTheBest == Spec => []BaseIsBest
<1>1. Init => TypeInv /\ BaseInv
  BY TypeStart, BaseStart
<1>2. TypeInv /\ BaseInv /\ [Next]_vars => (TypeInv /\ BaseInv)'
  BY TypeStep, BaseStep
<1>3. TypeInv /\ BaseInv => BaseIsBest
  BY BestIsTop, GraphFacts DEF BaseInv, DoneInv, BaseIsBest, IsTop
<1> QED
  BY <1>1, <1>2, <1>3, PTL DEF Spec

-----------------------------------------------------------------------------
(* No failure without need, if clocks run forwards. *)

(* Every commit is younger than its parents. *)
ClocksRunForwards ==
  \A h \in Histories : \A t \in TimesOf(h) :
    \A c \in DOMAIN h : \A p \in Parents(h, c) : t[p] < t[c]

LEMMA TimeFacts ==
  ASSUME TypeInv, ClocksRunForwards
  PROVE  /\ \A c \in DOMAIN history : time[c] \in Nat
         /\ \A c \in DOMAIN history : \A d \in Anc[c] : d = c \/ time[d] < time[c]
<1>1. \A c \in DOMAIN history : time[c] \in Nat
  BY CommonAncestorAssumption DEF TypeInv, TypeOK
<1>2. \A c \in DOMAIN history : \A p \in Parents(history, c) : time[p] < time[c]
  BY DEF TypeInv, ClocksRunForwards
<1> DEFINE S == {c \in DOMAIN history : \A d \in Anc[c] : d = c \/ time[d] < time[c]}
<1>3. ASSUME NEW c \in DOMAIN history, Parents(history, c) \subseteq S
      PROVE  c \in S
  <2>1. ASSUME NEW d \in Anc[c], d # c
        PROVE  time[d] < time[c]
    <3>1. PICK p \in Parents(history, c) : d \in Anc[p]
      BY <2>1, GraphFacts
    <3>2. time[p] < time[c] /\ (d = p \/ time[d] < time[p])
      BY <1>2, <1>3, <3>1
    <3>3. time[p] \in Nat /\ time[c] \in Nat /\ time[d] \in Nat
      BY <1>1, <2>1, <3>1, GraphFacts
    <3> QED
      BY <3>2, <3>3
  <2> QED
    BY <2>1
<1>4. S \in SUBSET DOMAIN history /\ IsHistory(history)
  BY HistoryFacts
<1>5. S = DOMAIN history
  <2> HIDE DEF S
  <2> QED
    BY <1>3, <1>4, HistoryInduction
<1> QED
  BY <1>1, <1>5

(* The first commit met from both sides is the one on top: as long as a    *)
(* side has not seen that one, something younger than all others is queued.*)
LEMMA FirstMetIsTop ==
  ASSUME TypeInv, SearchInv, ClocksRunForwards, pc = "pop", both = <<>>,
         NEW d \in DOMAIN history, IsTop(d),
         NEW e \in Youngest(queue), e[2] # "stale", e[1] \in seen[Other(e[2])]
  PROVE  e[1] = d
<1>1. e \in BagToSet(queue) /\ \A f \in BagToSet(queue) : time[f[1]] <= time[e[1]]
  BY DEF Youngest
<1>2. e[1] \in DOMAIN history /\ e[2] \in Sides /\ InQueue(e[1], e[2])
  BY <1>1, EntryFacts DEF Sides
<1>3. \A k \in Sides : SideSound(k) /\ SideComplete(k)
  BY DEF SearchInv
<1>4. e[1] \in Common
  BY <1>2, <1>3 DEF SideSound, Sides, Other, End, Common
<1>5. e[1] \in Anc[d]
  BY <1>4 DEF IsTop
<1> SUFFICES ASSUME e[1] # d PROVE FALSE
  OBVIOUS
<1>6. time[e[1]] < time[d]
  BY <1>5, TimeFacts
<1>7. ASSUME NEW k \in Sides
      PROVE  d \in seen[k]
  <2>1. d \in Anc[End(k)]
    BY DEF IsTop, Common, Sides, End
  <2>2. ~Behind(d, Range(both))
    BY DEF Behind, Range
  <2>3. ASSUME NEW c \in DOMAIN history, Pending(c, k), d \in Anc[c]
        PROVE  FALSE
    <3>1. time[c] <= time[e[1]]
      BY <1>1, <2>3 DEF Pending, InQueue
    <3>2. c = d \/ time[d] < time[c]
      BY <2>3, TimeFacts
    <3>3. time[c] \in Nat /\ time[d] \in Nat /\ time[e[1]] \in Nat
      BY <1>2, TimeFacts
    <3> QED
      BY <1>6, <3>1, <3>2, <3>3
  <2> QED
    BY <1>3, <2>1, <2>2, <2>3, SideReaches
<1> QED
  BY <1>7 DEF SearchInv, Sides

LEMMA TopStart ==
  ASSUME Init
  PROVE  TopInv
  BY DEF Init, TopInv

LEMMA TopStep ==
  ASSUME TypeInv, BaseInv, TopInv, ClocksRunForwards, [Next]_vars
  PROVE  TopInv'
<1>1. /\ Anc' = Anc /\ Common' = Common /\ history' = history
      /\ \A k : End(k)' = End(k)
  <2>1. UNCHANGED graph
    BY DEF Next, vars, graph, PopOtherEnd, PopSeen, PopExpand, MarkStale, PushParent,
       EndOfParents, NoneFound, FirstFound, FoldDone, FoldNext, WalkFound, WalkOn,
       WalkExhausted
  <2> QED
    BY <2>1, GraphStays
<1> SUFFICES ASSUME NEW d \in DOMAIN history, IsTop(d)
             PROVE  /\ pc' \in {"pop", "parents", "choose"} /\ both' # <<>> =>
                         Head(both') = d /\ d \notin Range(Tail(both'))
                    /\ pc' \in {"fold", "walk"} => result' = d /\ d \notin Range(both')
                    /\ pc' = "walk" =>
                         /\ pair'[2] # d
                         /\ \E c \in DOMAIN history :
                              <<c, "one">> \in BagToSet(walk') /\ pair'[2] \in Anc[c]
                    /\ pc' # "failed"
  BY <1>1 DEF TopInv, IsTop
<1>2. /\ pc \in {"pop", "parents", "choose"} /\ both # <<>> =>
           Head(both) = d /\ d \notin Range(Tail(both))
      /\ pc \in {"fold", "walk"} => result = d /\ d \notin Range(both)
      /\ pc = "walk" =>
           /\ pair[2] # d
           /\ \E c \in DOMAIN history :
                <<c, "one">> \in BagToSet(walk) /\ pair[2] \in Anc[c]
      /\ pc # "failed"
  BY DEF TopInv
<1>3. CASE PopOtherEnd
  BY <1>3 DEF PopOtherEnd
<1>4. CASE PopSeen
  BY <1>2, <1>4 DEF PopSeen
<1>5. CASE PopExpand
  <2>1. PICK e \in Youngest(queue) :
          LET met == e[2] # "stale" /\ e[1] \in seen[Other(e[2])]
          IN  both' = IF met /\ e[1] \notin Range(both) THEN Append(both, e[1]) ELSE both
    BY <1>5 DEF PopExpand
  <2>2. pc = "pop" /\ pc' = "parents"
    BY <1>5 DEF PopExpand
  <2>3. CASE both' = both
    BY <1>2, <2>2, <2>3
  <2>4. CASE both' # both
    <3>1. /\ e[2] # "stale" /\ e[1] \in seen[Other(e[2])] /\ e[1] \notin Range(both)
          /\ both' = Append(both, e[1])
      BY <2>1, <2>4
    <3>2. e[1] \in DOMAIN history /\ both \in Seq(DOMAIN history)
      BY YoungestFacts, EntryFacts DEF TypeInv
    <3>3. CASE both = <<>>
      <4>1. e[1] = d
        BY <2>2, <3>1, <3>3, FirstMetIsTop DEF BaseInv
      <4>2. both' = <<d>>
        BY <3>1, <3>3, <4>1
      <4> QED
        BY <2>2, <4>2 DEF Range
    <3>4. CASE both # <<>>
      <4>1. Head(both) = d /\ d \notin Range(Tail(both))
        BY <1>2, <2>2, <3>4
      <4>2. d \in Range(both)
        BY <3>2, <3>4, <4>1, TailFacts
      <4>3. Tail(both) \in Seq(DOMAIN history)
        BY <3>2, <3>4, TailFacts
      <4>4. Head(both') = Head(both) /\ Tail(both') = Append(Tail(both), e[1])
        BY <3>1, <3>2, <3>4
      <4>5. \A x : x \in Range(Append(Tail(both), e[1])) <=>
                      x \in Range(Tail(both)) \/ x = e[1]
        <5>1. \A s \in Seq(DOMAIN history) :
                \A x : x \in Range(Append(s, e[1])) <=> x \in Range(s) \/ x = e[1]
          BY <3>2, AppendFacts
        <5> QED
          BY <4>3, <5>1, Zenon
      <4> QED
        BY <2>2, <3>1, <4>1, <4>2, <4>4, <4>5
    <3> QED
      BY <3>3, <3>4
  <2> QED
    BY <2>3, <2>4
<1>6. CASE MarkStale
  BY <1>2, <1>6 DEF MarkStale
<1>7. CASE PushParent
  BY <1>2, <1>7 DEF PushParent
<1>8. CASE EndOfParents
  BY <1>2, <1>8 DEF EndOfParents
<1>9. CASE NoneFound
  <2>1. Behind(d, Range(both))
    BY <1>9, AllBehind DEF BaseInv, NoneFound, IsTop
  <2> QED
    BY <1>9, <2>1 DEF NoneFound, Behind, Range
<1>10. CASE FirstFound
  BY <1>2, <1>10 DEF FirstFound
<1>11. CASE FoldDone
  BY <1>2, <1>11 DEF FoldDone
<1>12. CASE FoldNext
  <2>1. /\ pc = "fold" /\ both # <<>> /\ result = d /\ d \notin Range(both)
        /\ pc' = "walk" /\ result' = d /\ both' = Tail(both) /\ pair'[2] = Head(both)
        /\ walk' = PushParents(PushParents(EmptyBag, d, "one"), Head(both), "two")
    BY <1>2, <1>12 DEF FoldNext
  <2>2. /\ Head(both) \in Range(both)
        /\ \A x : x \in Range(both) <=> x = Head(both) \/ x \in Range(Tail(both))
    BY <2>1, TailFacts DEF TypeInv
  <2>3. Head(both) # d /\ Head(both) \in Anc[d]
    BY <2>1, <2>2 DEF BaseInv, FoldInv, IsTop
  <2>4. PICK p \in Parents(history, d) : Head(both) \in Anc[p]
    BY <2>3, GraphFacts
  <2>5. p \in DOMAIN history
    BY <2>4, GraphFacts
  <2>6. /\ IsABag(PushParents(EmptyBag, d, "one"))
        /\ <<p, "one">> \in BagToSet(PushParents(EmptyBag, d, "one"))
    BY <2>4, EmptyFacts, PushFacts
  <2>7. <<p, "one">> \in BagToSet(walk')
    BY <2>1, <2>6, PushFacts
  <2> QED
    BY <2>1, <2>2, <2>3, <2>4, <2>5, <2>7
<1>13. CASE WalkFound
  <2>1. PICK e \in BagToSet(walk) :
          \/ e[2] = "one" /\ e[1] = pair[2] /\ result' = pair[1]
          \/ e[2] = "two" /\ e[1] = pair[1] /\ result' = pair[2]
    BY <1>13 DEF WalkFound, Youngest
  <2>2. /\ pc = "walk" /\ pc' = "fold" /\ both' = both /\ pair[1] = d
        /\ d \notin Range(both) /\ pair[2] # d
    BY <1>2, <1>13 DEF WalkFound, TypeInv
  <2>3. pair[2] \in Common /\ (e[2] = "two" => e[1] \in Anc[pair[2]])
    BY <2>1, <2>2 DEF BaseInv, FoldInv
  <2>4. pair[2] \in Anc[d] /\ pair[2] \in DOMAIN history
    BY <2>3, GraphFacts DEF IsTop
  <2>5. ~(e[2] = "two" /\ e[1] = pair[1])
    BY <2>2, <2>3, <2>4, GraphFacts
  <2> QED
    BY <2>1, <2>2, <2>5
<1>14. CASE WalkOn
  <2>1. PICK e \in BagToSet(walk) :
          /\ e # <<pair[2], "one">>
          /\ walk' = PushParents(Remove1(walk, e), e[1], e[2])
    BY <1>14 DEF WalkOn, Youngest
  <2>2. /\ pc = "walk" /\ pc' = "walk" /\ both' = both /\ pair' = pair /\ result' = result
    BY <1>14 DEF WalkOn
  <2>3. PICK c \in DOMAIN history : <<c, "one">> \in BagToSet(walk) /\ pair[2] \in Anc[c]
    BY <1>2, <2>2
  <2>4. /\ IsABag(Remove1(walk, e))
        /\ \A f : f \in BagToSet(walk) => f = e \/ f \in BagToSet(Remove1(walk, e))
    BY <2>1, RemoveFacts DEF TypeInv
  <2>5. \A f : f \in BagToSet(walk') <=>
          \/ f \in BagToSet(Remove1(walk, e))
          \/ \E p \in Parents(history, e[1]) : f = <<p, e[2]>>
    BY <2>1, <2>4, PushFacts
  <2>6. \E q \in DOMAIN history : <<q, "one">> \in BagToSet(walk') /\ pair[2] \in Anc[q]
    <3>1. CASE e # <<c, "one">>
      BY <2>3, <2>4, <2>5, <3>1
    <3>2. CASE e = <<c, "one">>
      <4>1. c # pair[2]
        BY <2>1, <3>2
      <4>2. PICK p \in Parents(history, c) : pair[2] \in Anc[p]
        BY <2>3, <4>1, GraphFacts
      <4>3. p \in DOMAIN history
        BY <4>2, GraphFacts
      <4>4. <<p, "one">> \in BagToSet(walk')
        BY <2>5, <3>2, <4>2
      <4> QED
        BY <4>2, <4>3, <4>4
    <3> QED
      BY <3>1, <3>2
  <2> QED
    BY <1>2, <2>2, <2>6
<1>15. CASE WalkExhausted
  BY <1>2, <1>15, EmptyFacts DEF WalkExhausted
<1>16. CASE UNCHANGED vars
  BY <1>2, <1>16 DEF vars
<1> QED
  BY <1>3, <1>4, <1>5, <1>6, <1>7, <1>8, <1>9, <1>10, <1>11, <1>12, <1>13,
     <1>14, <1>15, <1>16 DEF Next

(* When every commit is younger than its parents, the call fails only if   *)
(* no common ancestor descends from all the others.  Equal time stamps     *)
(* break it, as the run CommonAncestorTies shows.                          *)
THEOREM FailsOnlyIfItMust ==
  ASSUME ClocksRunForwards
  PROVE  Spec => []FailsOnlyWithoutUniqueBase
<1>1. Init => TypeInv /\ BaseInv /\ TopInv
  BY TypeStart, BaseStart, TopStart
<1>2. TypeInv /\ BaseInv /\ TopInv /\ [Next]_vars => (TypeInv /\ BaseInv /\ TopInv)'
  BY TypeStep, BaseStep, TopStep
<1>3. TypeInv /\ TopInv => FailsOnlyWithoutUniqueBase
  BY BestIsTop DEF TopInv, FailsOnlyWithoutUniqueBase
<1> QED
  BY <1>1, <1>2, <1>3, PTL DEF Spec
=============================================================================
