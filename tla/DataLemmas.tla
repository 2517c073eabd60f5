----------------------------- MODULE DataLemmas -----------------------------
(***************************************************************************)
(* Facts about natural numbers, finite sets and functions defined by       *)
(* recursion.  A set of naturals has a least element, so induction can be  *)
(* stated over sets: a lemma whose parameter is a set, where the library's *)
(* take an operator.                                                       *)
(***************************************************************************)
EXTENDS Integers, FiniteSetTheorems, WellFoundedInduction, TLAPS

\* Every set of naturals has a least element.
LEMMA LeastNatural ==
  ASSUME NEW T \in SUBSET Nat, T # {}
  PROVE  \E n \in T : \A m \in T : n <= m
<1> DEFINE R == {ss \in Nat \X Nat : ss[1] < ss[2]}
<1>1. IsWellFoundedOn(R, Nat)
  BY NatLessThanWellFounded DEF OpToRel
<1> HIDE DEF R
<1>2. PICK n \in T : \A m \in T : <<m, n>> \notin R
  BY <1>1, WFMin
<1>3. \A m \in T : ~(m < n)
  BY <1>2 DEF R
<1> QED
  BY <1>3

\* A set of naturals that has zero and the successors of its elements has them all.
LEMMA SetInduction ==
  ASSUME NEW S, 0 \in S, \A n \in Nat : n \in S => n + 1 \in S
  PROVE  Nat \subseteq S
<1> SUFFICES ASSUME Nat \ S # {} PROVE FALSE
  OBVIOUS
<1>1. PICK n \in Nat \ S : \A m \in Nat \ S : n <= m
  BY LeastNatural
<1>2. n # 0 /\ n - 1 \in Nat /\ n - 1 \in S
  BY <1>1
<1> QED
  BY <1>1, <1>2

\* The same up to a bound.
LEMMA BoundedInduction ==
  ASSUME NEW d \in Nat, NEW P, 0 \in P, \A n \in 1..d : n - 1 \in P => n \in P
  PROVE  0..d \subseteq P
<1> DEFINE S == {n \in Nat : n <= d => n \in P}
<1>1. 0 \in S
  OBVIOUS
<1>2. \A n \in Nat : n \in S => n + 1 \in S
  <2> SUFFICES ASSUME NEW n \in Nat, n \in S, n + 1 <= d PROVE n + 1 \in P
    OBVIOUS
  <2>1. n + 1 \in 1..d /\ (n + 1) - 1 = n /\ n \in P
    OBVIOUS
  <2> QED
    BY <2>1
<1> HIDE DEF S
<1>3. Nat \subseteq S
  BY <1>1, <1>2, SetInduction
<1> QED
  BY <1>3 DEF S

Recursive(L, d, base, step) ==
  L = [n \in 0..d |-> IF n = 0 THEN base ELSE step[n][L[n - 1]]]

\* A function defined by recursion exists and has the type its step keeps.
LEMMA RecursionExists ==
  ASSUME NEW d \in Nat, NEW S, NEW base \in S, NEW step \in [1..d -> [S -> S]]
  PROVE  \E L \in [0..d -> S] : Recursive(L, d, base, step)
<1> DEFINE Upto == {k \in Nat : k <= d => \E L \in [0..k -> S] : Recursive(L, k, base, step)}
<1>1. 0 \in Upto
  <2> DEFINE L == [n \in 0..0 |-> base]
  <2>1. L \in [0..0 -> S] /\ Recursive(L, 0, base, step)
    BY DEF Recursive
  <2> HIDE DEF L
  <2> QED
    BY <2>1
<1>2. ASSUME NEW k \in Nat, k \in Upto PROVE k + 1 \in Upto
  <2> SUFFICES ASSUME k + 1 <= d
               PROVE  \E L \in [0..(k + 1) -> S] : Recursive(L, k + 1, base, step)
    OBVIOUS
  <2>1. PICK M \in [0..k -> S] : Recursive(M, k, base, step)
    BY <1>2
  <2> DEFINE L == [n \in 0..(k + 1) |-> IF n = 0 THEN base ELSE step[n][M[n - 1]]]
  <2>2. \A n \in 0..k : L[n] = M[n]
    BY <2>1 DEF Recursive
  <2>3. \A n \in 1..(k + 1) : n \in 1..d /\ n - 1 \in 0..k /\ M[n - 1] \in S
    BY <2>1
  <2>4. L \in [0..(k + 1) -> S]
    BY <2>3
  <2>5. L = [n \in 0..(k + 1) |-> IF n = 0 THEN base ELSE step[n][L[n - 1]]]
    <3> HIDE DEF L
    <3>1. \A n \in 0..(k + 1) : n # 0 => n - 1 \in 0..k
      OBVIOUS
    <3>3. \A n \in 0..(k + 1) : n # 0 => L[n - 1] = M[n - 1]
      BY <2>2, <3>1
    <3>2. \A n \in 0..(k + 1) :
             (IF n = 0 THEN base ELSE step[n][M[n - 1]]) = (IF n = 0 THEN base ELSE step[n][L[n - 1]])
      BY <3>3
    <3> QED
      BY <3>2 DEF L
  <2> HIDE DEF L
  <2> QED
    BY <2>4, <2>5 DEF Recursive
<1> HIDE DEF Upto
<1>3. d \in Upto
  BY <1>1, <1>2, SetInduction
<1> QED
  BY <1>3 DEF Upto

\* An enumeration of a finite set without repetition leaves nothing out.
LEMMA EnumerationIsOnto ==
  ASSUME NEW S, IsFiniteSet(S), NEW q \in [1..Cardinality(S) -> S],
         \A i, j \in 1..Cardinality(S) : i # j => q[i] # q[j]
  PROVE  \A x \in S : \E i \in 1..Cardinality(S) : q[i] = x
<1>1. Cardinality(S) \in Nat
  BY FS_CardinalityType
<1>2. IsFiniteSet(1..Cardinality(S)) /\ Cardinality(1..Cardinality(S)) = Cardinality(S)
  BY <1>1, FS_Interval
<1>3. q \in Injection(1..Cardinality(S), S)
  BY DEF Injection, IsInjective
<1>4. q \in Surjection(1..Cardinality(S), S)
  BY <1>2, <1>3, FS_Injection
<1> QED
  BY <1>4 DEF Surjection

\* If fewer than n elements come before some element of a finite set, and it is the first
\* of those that are left out, it is not left out.
LEMMA FirstOnes ==
  ASSUME NEW S, IsFiniteSet(S), NEW n \in Nat, NEW rank, \A p \in S : rank[p] \in Nat
  PROVE  LET F == {p \in S : Cardinality({q \in S : rank[q] < rank[p]}) < n}
         IN  F = S \/ Cardinality(F) >= n
<1> DEFINE Below(p) == {q \in S : rank[q] < rank[p]}
           F == {p \in S : Cardinality(Below(p)) < n}
<1>1. SUFFICES ASSUME S \ F # {} PROVE Cardinality(F) >= n
  OBVIOUS
<1>2. {rank[p] : p \in S \ F} # {} /\ {rank[p] : p \in S \ F} \in SUBSET Nat
  BY <1>1
<1>3. PICK p \in S \ F : \A q \in S \ F : rank[p] <= rank[q]
  <2> HIDE DEF F
  <2>1. PICK m \in {rank[p] : p \in S \ F} : \A k \in {rank[p] : p \in S \ F} : m <= k
    BY <1>2, LeastNatural
  <2> QED
    BY <2>1
<1>4. Below(p) \subseteq F
  <2> HIDE DEF F
  <2> QED
    BY <1>3
<1>5. IsFiniteSet(F) /\ Cardinality(Below(p)) <= Cardinality(F)
  <2>1. IsFiniteSet(F)
    BY FS_Subset
  <2> HIDE DEF F, Below
  <2> QED
    BY <1>4, <2>1, FS_Subset
<1>6. IsFiniteSet(Below(p)) /\ ~(Cardinality(Below(p)) < n)
  BY <1>3, FS_Subset
<1>7. Cardinality(F) \in Nat /\ Cardinality(Below(p)) \in Nat
  <2> HIDE DEF F, Below
  <2> QED
    BY <1>5, <1>6, FS_CardinalityType
<1> HIDE DEF F, Below
<1> QED
  BY <1>5, <1>6, <1>7 DEF F, Below

\* A finite set can be enumerated.
LEMMA EnumerationExists ==
  ASSUME NEW S, IsFiniteSet(S)
  PROVE  \E q \in [1..Cardinality(S) -> S] :
            \A i, j \in 1..Cardinality(S) : q[i] = q[j] => i = j
<1>1. PICK q \in Bijection(1..Cardinality(S), S) : TRUE
  BY FS_CardinalityType DEF ExistsBijection
<1>2. q \in [1..Cardinality(S) -> S] /\ \A i, j \in 1..Cardinality(S) : q[i] = q[j] => i = j
  BY DEF Bijection, Injection, IsInjective
<1> QED
  BY <1>2

Counted(T, i) == Cardinality({j \in 1..i : j \in T})

\* How many elements of a set there are up to a number: one more where the number is one.
LEMMA CountStep ==
  ASSUME NEW T, NEW i \in Nat
  PROVE  /\ Counted(T, i) \in Nat
         /\ Counted(T, 0) = 0
         /\ i # 0 => Counted(T, i) = Counted(T, i - 1) + (IF i \in T THEN 1 ELSE 0)
<1> DEFINE Part(k) == {j \in 1..k : j \in T}
<1>1. \A k \in Nat : IsFiniteSet(Part(k))
  <2> SUFFICES ASSUME NEW k \in Nat PROVE IsFiniteSet(Part(k))
    OBVIOUS
  <2>1. IsFiniteSet(1..k)
    BY FS_Interval
  <2>2. Part(k) \subseteq 1..k
    OBVIOUS
  <2> HIDE DEF Part
  <2> QED
    BY <2>1, <2>2, FS_Subset
<1>2. Counted(T, 0) = 0
  <2>1. Part(0) = {}
    OBVIOUS
  <2> HIDE DEF Part
  <2> QED
    BY <2>1, FS_EmptySet DEF Counted, Part
<1>3. Counted(T, i) \in Nat
  <2> HIDE DEF Part
  <2> QED
    BY <1>1, FS_CardinalityType DEF Counted, Part
<1>4. ASSUME i # 0 PROVE Counted(T, i) = Counted(T, i - 1) + (IF i \in T THEN 1 ELSE 0)
  <2>0. i - 1 \in Nat
    BY <1>4
  <2>1. Part(i) = IF i \in T THEN Part(i - 1) \cup {i} ELSE Part(i - 1)
    <3>1. \A j : j \in 1..i <=> j \in 1..(i - 1) \/ j = i
      BY <1>4
    <3> QED
      BY <3>1
  <2>2. i \notin Part(i - 1)
    OBVIOUS
  <2>3. Cardinality(Part(i - 1)) \in Nat /\ IsFiniteSet(Part(i - 1))
    <3> HIDE DEF Part
    <3> QED
      BY <1>1, <2>0, FS_CardinalityType
  <2> HIDE DEF Part
  <2>4. Cardinality(Part(i)) = Cardinality(Part(i - 1)) + (IF i \in T THEN 1 ELSE 0)
    BY <2>1, <2>2, <2>3, FS_AddElement
  <2> QED
    BY <2>4 DEF Counted, Part
<1> QED
  BY <1>2, <1>3, <1>4

\* They do not get fewer.
LEMMA CountGrows ==
  ASSUME NEW T, NEW i \in Nat, NEW j \in Nat, i <= j
  PROVE  Counted(T, i) <= Counted(T, j)
<1> DEFINE Part(k) == {x \in 1..k : x \in T}
<1>1. IsFiniteSet(Part(j))
  <2>1. IsFiniteSet(1..j)
    BY FS_Interval
  <2>2. Part(j) \subseteq 1..j
    OBVIOUS
  <2> HIDE DEF Part
  <2> QED
    BY <2>1, <2>2, FS_Subset
<1>2. Part(i) \subseteq Part(j)
  OBVIOUS
<1> HIDE DEF Part
<1>3. Cardinality(Part(i)) <= Cardinality(Part(j))
  BY <1>1, <1>2, FS_Subset
<1> QED
  BY <1>3 DEF Counted, Part

\* A nonempty set of naturals up to a bound has a greatest element.
LEMMA GreatestNatural ==
  ASSUME NEW d \in Nat, NEW T \in SUBSET (0..d), T # {}
  PROVE  \E n \in T : \A m \in T : m <= n
<1> DEFINE U == {d - n : n \in T}
<1>0. \A n \in T : n \in Nat /\ n <= d
  OBVIOUS
<1>1. U \in SUBSET Nat /\ U # {}
  <2>1. \A n \in T : d - n \in Nat
    BY <1>0
  <2> QED
    BY <2>1
<1>2. PICK u \in U : \A v \in U : u <= v
  <2> HIDE DEF U
  <2> QED
    BY <1>1, LeastNatural
<1>3. PICK n \in T : u = d - n
  OBVIOUS
<1>4. \A m \in T : d - n <= d - m
  BY <1>2, <1>3
<1> QED
  BY <1>3, <1>4

\* A strict linear order on a finite set can be written as a sequence.
LEMMA SortedEnumeration ==
  ASSUME NEW S, IsFiniteSet(S), NEW R,
         \A x \in S : <<x, x>> \notin R,
         \A x, y, z \in S : <<x, y>> \in R /\ <<y, z>> \in R => <<x, z>> \in R,
         \A x, y \in S : x # y => <<x, y>> \in R \/ <<y, x>> \in R
  PROVE  \E s \in [1..Cardinality(S) -> S] :
            \A i, j \in 1..Cardinality(S) : i < j => <<s[i], s[j]>> \in R
<1> DEFINE n == Cardinality(S)
           Below(x) == {y \in S : <<y, x>> \in R}
           rank == [x \in S |-> Cardinality(Below(x)) + 1]
<1>0. n \in Nat
  BY FS_CardinalityType
<1> HIDE DEF n
<1>1. ASSUME NEW x \in S
      PROVE  IsFiniteSet(Below(x)) /\ Cardinality(Below(x)) \in Nat /\ Cardinality(Below(x)) < n
  <2>1. IsFiniteSet(S \ {x}) /\ Cardinality(S \ {x}) = n - 1
    BY FS_RemoveElement DEF n
  <2>2. Below(x) \subseteq S \ {x}
    OBVIOUS
  <2> HIDE DEF Below
  <2>3. IsFiniteSet(Below(x)) /\ Cardinality(Below(x)) <= n - 1
    BY <2>1, <2>2, FS_Subset
  <2>4. Cardinality(Below(x)) \in Nat
    BY <2>3, FS_CardinalityType
  <2> QED
    BY <1>0, <2>3, <2>4
<1>2. ASSUME NEW x \in S, NEW y \in S, <<x, y>> \in R
      PROVE  rank[x] < rank[y]
  <2>1. Below(x) \subseteq Below(y) \ {x} /\ x \in Below(y)
    BY <1>2
  <2> HIDE DEF Below
  <2>2. IsFiniteSet(Below(y) \ {x}) /\ Cardinality(Below(y) \ {x}) = Cardinality(Below(y)) - 1
    BY <1>1, <2>1, FS_RemoveElement
  <2>3. Cardinality(Below(x)) <= Cardinality(Below(y)) - 1
    BY <2>1, <2>2, FS_Subset
  <2> QED
    BY <1>1, <2>3
<1>3. rank \in [S -> 1..n]
  <2> HIDE DEF Below
  <2>1. \A x \in S : Cardinality(Below(x)) + 1 \in 1..n
    BY <1>0, <1>1
  <2> QED
    BY <2>1
<1> HIDE DEF rank
<1>4. \A x, y \in S : rank[x] = rank[y] => x = y
  <2> SUFFICES ASSUME NEW x \in S, NEW y \in S, x # y PROVE rank[x] # rank[y]
    OBVIOUS
  <2>1. rank[x] \in Nat /\ rank[y] \in Nat
    BY <1>0, <1>3
  <2>2. <<x, y>> \in R \/ <<y, x>> \in R
    OBVIOUS
  <2>3. rank[x] < rank[y] \/ rank[y] < rank[x]
    BY <1>2, <2>2
  <2> QED
    BY <2>1, <2>3
<1>5. \A i \in 1..n : \E x \in S : rank[x] = i
  <2>1. IsFiniteSet(1..n) /\ Cardinality(1..n) = Cardinality(S)
    BY <1>0, FS_Interval DEF n
  <2>2. rank \in Injection(S, 1..n)
    BY <1>3, <1>4 DEF Injection, IsInjective
  <2>3. rank \in Surjection(S, 1..n)
    BY <2>1, <2>2, FS_Injection
  <2> QED
    BY <2>3 DEF Surjection
<1> DEFINE s == [i \in 1..n |-> CHOOSE x \in S : rank[x] = i]
<1>6. \A i \in 1..n : s[i] \in S /\ rank[s[i]] = i
  BY <1>5
<1>7. s \in [1..n -> S]
  BY <1>6
<1> HIDE DEF s
<1>8. ASSUME NEW i \in 1..n, NEW j \in 1..n, i < j PROVE <<s[i], s[j]>> \in R
  <2>1. s[i] # s[j]
    BY <1>0, <1>6, <1>8
  <2>2. ~(rank[s[j]] < rank[s[i]])
    BY <1>0, <1>6, <1>8
  <2> QED
    BY <1>2, <1>6, <2>1, <2>2
<1> QED
  BY <1>7, <1>8 DEF n

\* A sequence of all the elements of a set, each once, has its size.
LEMMA EnumerationCounts ==
  ASSUME NEW S, NEW n \in Nat, NEW q \in [1..n -> S],
         \A i, j \in 1..n : q[i] = q[j] => i = j,
         \A x \in S : \E i \in 1..n : q[i] = x
  PROVE  Cardinality(S) = n
<1>1. q \in Bijection(1..n, S)
  BY DEF Bijection, Injection, Surjection, IsInjective
<1>2. ExistsBijection(1..n, S)
  BY <1>1 DEF ExistsBijection
<1> QED
  BY <1>2, FS_CountingElements
=============================================================================
