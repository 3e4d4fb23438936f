---------------------------- MODULE Books_proofs ----------------------------
(***************************************************************************)
(* Proofs about Books, for every file of merchants, every catalogue and    *)
(* any number of payments, lessons and concurrent requests.                *)
(***************************************************************************)
EXTENDS Books, FiniteSetTheorems, TLAPS

-----------------------------------------------------------------------------
(* Sums.  The library's induction principles have an operator as parameter, which  *)
(* no backend instantiates; WFMin and a set of numbers do what they would do.      *)

\* A set of numbers has a least one.
LEMMA Least ==
  ASSUME NEW T \in SUBSET Nat, T # {}
  PROVE  \E n \in T : \A m \in T : n <= m
<1> DEFINE Below == OpToRel(<, Nat)
<1>1. PICK n \in T : \A m \in T : <<m, n>> \notin Below
  <2>1. IsWellFoundedOn(Below, Nat)
    BY NatLessThanWellFounded
  <2> HIDE DEF Below
  <2> QED BY <2>1, WFMin
<1>2. \A m \in T : <<m, n>> \in Nat \X Nat
  OBVIOUS
<1>3. \A m \in T : ~ (m < n)
  BY <1>1, <1>2 DEF OpToRel
<1> QED BY <1>3

\* Taking an element out of a part of a finite set.
LEMMA Smaller ==
  ASSUME NEW S, IsFiniteSet(S), NEW s \in SUBSET S, NEW x \in s
  PROVE  /\ IsFiniteSet(s) /\ Cardinality(s) \in Nat \ {0} /\ s \ {x} \in SUBSET S
         /\ Cardinality(s \ {x}) = Cardinality(s) - 1
<1>1. IsFiniteSet(s)
  BY FS_Subset
<1>2. Cardinality(s) \in Nat /\ Cardinality(s) # 0
  BY <1>1, FS_CardinalityType, FS_EmptySet
<1>3. Cardinality(s \ {x}) = Cardinality(s) - 1
  BY <1>1, FS_RemoveElement
<1> QED BY <1>1, <1>2, <1>3

\* Induction over the parts of a finite set: a set Q that has whatever all of whose
\* elements can be taken out within Q has them all.
LEMMA SubsetInduction ==
  ASSUME NEW S, IsFiniteSet(S), NEW Q,
         \A s \in SUBSET S : (\A x \in s : s \ {x} \in Q) => s \in Q
  PROVE  SUBSET S \subseteq Q
<1> DEFINE T == {n \in Nat : \E s \in SUBSET S : Cardinality(s) = n /\ s \notin Q}
<1>1. SUFFICES ASSUME NEW t \in SUBSET S, t \notin Q PROVE FALSE
  OBVIOUS
<1>2. Cardinality(t) \in T
  BY <1>1, FS_Subset, FS_CardinalityType
<1>3. PICK n \in T : \A m \in T : n <= m
  <2>1. T \in SUBSET Nat
    OBVIOUS
  <2> HIDE DEF T
  <2> QED BY <1>2, <2>1, Least
<1>4. PICK s \in SUBSET S : Cardinality(s) = n /\ s \notin Q
  BY <1>3
<1>5. PICK x \in s : s \ {x} \notin Q
  BY <1>4
<1>6. Cardinality(s \ {x}) = n - 1 /\ n \in Nat \ {0}
  BY <1>4, <1>5, Smaller
<1>7. n - 1 \in T
  BY <1>5, <1>6
<1> QED BY <1>3, <1>6, <1>7

\* An element of a set, and the table of the sums over the parts of S.
Some(s) == CHOOSE x \in s : TRUE
Summing(f, S, g) ==
  g = [s \in SUBSET S |-> IF s = {} THEN 0 ELSE f[Some(s)] + g[s \ {Some(s)}]]

\* What SumFunctionOnSet of the community modules stands for.
LEMMA SumIs ==
  ASSUME NEW f, NEW S
  PROVE  SumFunctionOnSet(f, S) = (CHOOSE g : Summing(f, S, g))[S]
BY DEF SumFunctionOnSet, FoldFunctionOnSet, MapThenFoldSet, Summing, Some

\* The table it is read from exists.
LEMMA SummingIs ==
  ASSUME NEW f, NEW S, IsFiniteSet(S)
  PROVE  \E g : Summing(f, S, g)
<1> DEFINE At(g, s) == IF s = {} THEN 0 ELSE f[Some(s)] + g[s \ {Some(s)}]
           UpTo(n) == \E g : \A s \in SUBSET S : Cardinality(s) <= n => g[s] = At(g, s)
           T == {n \in Nat : ~UpTo(n)}
<1>1. \A s \in SUBSET S : IsFiniteSet(s) /\ Cardinality(s) \in Nat
  BY FS_Subset, FS_CardinalityType
<1>2. \A s \in SUBSET S : s # {} => Some(s) \in s
  BY DEF Some
<1>3. UpTo(0)
  <2> DEFINE g == [s \in SUBSET S |-> 0]
  <2>1. ASSUME NEW s \in SUBSET S, Cardinality(s) <= 0 PROVE g[s] = At(g, s)
    BY <1>1, <2>1, FS_EmptySet
  <2> HIDE DEF g, At
  <2> QED BY <2>1
<1>4. ASSUME NEW n \in Nat, UpTo(n) PROVE UpTo(n + 1)
  <2>1. PICK g : \A s \in SUBSET S : Cardinality(s) <= n => g[s] = At(g, s)
    BY <1>4
  <2> DEFINE h == [s \in SUBSET S |-> IF Cardinality(s) <= n THEN g[s] ELSE At(g, s)]
  <2>2. ASSUME NEW s \in SUBSET S, Cardinality(s) <= n + 1 PROVE h[s] = At(h, s)
    <3>1. h[s] = At(g, s)
      BY <2>1
    <3>2. CASE s = {}
      BY <3>1, <3>2
    <3>3. CASE s # {}
      <4>1. Cardinality(s \ {Some(s)}) <= n /\ s \ {Some(s)} \in SUBSET S
        BY <1>1, <1>2, <2>2, <3>3, Smaller
      <4>2. h[s \ {Some(s)}] = g[s \ {Some(s)}]
        BY <4>1
      <4> QED BY <3>1, <3>3, <4>2
    <3> QED BY <3>2, <3>3
  <2> HIDE DEF h, At
  <2> QED BY <2>2
<1>5. \A n \in Nat : UpTo(n)
  <2>1. SUFFICES ASSUME T # {} PROVE FALSE
    OBVIOUS
  <2>2. PICK n \in T : \A m \in T : n <= m
    <3>1. T \in SUBSET Nat
      OBVIOUS
    <3> HIDE DEF T
    <3> QED BY <2>1, <3>1, Least
  <2> HIDE DEF UpTo
  <2>3. n # 0 /\ n \in Nat /\ n - 1 \notin T
    BY <1>3, <2>2
  <2>4. UpTo(n - 1) /\ n - 1 \in Nat
    BY <2>3
  <2> QED BY <1>4, <2>2, <2>4
<1>6. PICK g : \A s \in SUBSET S : Cardinality(s) <= Cardinality(S) => g[s] = At(g, s)
  BY <1>1, <1>5
<1> DEFINE h == [s \in SUBSET S |-> g[s]]
<1>7. ASSUME NEW s \in SUBSET S PROVE h[s] = At(h, s)
  <2>1. g[s] = At(g, s)
    BY <1>6, FS_Subset
  <2>2. s # {} => s \ {Some(s)} \in SUBSET S
    OBVIOUS
  <2> QED BY <2>1, <2>2
<1>8. h = [s \in SUBSET S |-> At(h, s)]
  <2> HIDE DEF At
  <2> QED BY <1>7
<1>9. Summing(f, S, h)
  <2> HIDE DEF h
  <2> QED BY <1>8 DEF Summing
<1> QED BY <1>9

\* Hence its equation, which does not depend on the set the table was made for.
LEMMA SumPicks ==
  ASSUME NEW f, NEW S, IsFiniteSet(S), S # {}
  PROVE  SumFunctionOnSet(f, S) = f[Some(S)] + SumFunctionOnSet(f, S \ {Some(S)})
<1> DEFINE Rest == S \ {Some(S)}
           g == CHOOSE h : Summing(f, S, h)
           r == CHOOSE h : Summing(f, Rest, h)
           Q == {s \in SUBSET Rest : g[s] = r[s]}
<1>1. IsFiniteSet(Rest) /\ Rest \in SUBSET S
  BY FS_Subset
<1>2. Summing(f, S, g) /\ Summing(f, Rest, r)
  BY <1>1, SummingIs
<1> HIDE DEF g, r, Rest
<1>3. ASSUME NEW s \in SUBSET Rest, \A x \in s : s \ {x} \in Q PROVE s \in Q
  <2>1. s # {} => s \ {Some(s)} \in Q
    BY <1>3 DEF Some
  <2>2. s \in SUBSET S
    BY <1>1
  <2>3. g[s] = IF s = {} THEN 0 ELSE f[Some(s)] + g[s \ {Some(s)}]
    BY <1>2, <2>2 DEF Summing
  <2>4. r[s] = IF s = {} THEN 0 ELSE f[Some(s)] + r[s \ {Some(s)}]
    BY <1>2 DEF Summing
  <2> QED BY <2>1, <2>3, <2>4
<1>4. Rest \in Q
  <2> HIDE DEF Q
  <2> QED BY <1>1, <1>3, SubsetInduction
<1>5. g[S] = f[Some(S)] + g[Rest]
  BY <1>2 DEF Summing, Rest
<1>6. SumFunctionOnSet(f, S) = g[S] /\ SumFunctionOnSet(f, Rest) = r[Rest]
  BY SumIs DEF g, r
<1> QED BY <1>4, <1>5, <1>6 DEF Rest

\* Nothing sums up to 0.
LEMMA SumOfNone ==
  ASSUME NEW f
  PROVE  SumFunctionOnSet(f, {}) = 0
<1> DEFINE g == CHOOSE h : Summing(f, {}, h)
<1>1. Summing(f, {}, g)
  BY SummingIs, FS_EmptySet
<1> HIDE DEF g
<1>2. g[{}] = 0
  BY <1>1 DEF Summing
<1> QED BY <1>2, SumIs DEF g

\* A sum of integers is one.
LEMMA SumInt ==
  ASSUME NEW S, IsFiniteSet(S), NEW f, \A x \in S : f[x] \in Int
  PROVE  \A s \in SUBSET S : SumFunctionOnSet(f, s) \in Int
<1> DEFINE Q == {s \in SUBSET S : SumFunctionOnSet(f, s) \in Int}
<1>1. ASSUME NEW s \in SUBSET S, \A x \in s : s \ {x} \in Q PROVE s \in Q
  <2>1. CASE s = {}
    BY <2>1, SumOfNone
  <2>2. CASE s # {}
    <3>1. Some(s) \in s
      BY <2>2 DEF Some
    <3>2. SumFunctionOnSet(f, s) = f[Some(s)] + SumFunctionOnSet(f, s \ {Some(s)})
      BY <2>2, FS_Subset, SumPicks
    <3> QED BY <1>1, <3>1, <3>2
  <2> QED BY <2>1, <2>2
<1>2. SUBSET S \subseteq Q
  <2> HIDE DEF Q
  <2> QED BY <1>1, SubsetInduction
<1> QED BY <1>2

\* Any element may be taken first.
LEMMA SumTakes ==
  ASSUME NEW S, IsFiniteSet(S), NEW f, \A x \in S : f[x] \in Int
  PROVE  \A s \in SUBSET S : \A x \in s :
           SumFunctionOnSet(f, s) = f[x] + SumFunctionOnSet(f, s \ {x})
<1> DEFINE Sum(s) == SumFunctionOnSet(f, s)
           Q == {s \in SUBSET S : \A x \in s : Sum(s) = f[x] + Sum(s \ {x})}
<1>1. \A s \in SUBSET S : Sum(s) \in Int
  BY SumInt
<1>2. \A s \in SUBSET S : s # {} => Some(s) \in s /\ Sum(s) = f[Some(s)] + Sum(s \ {Some(s)})
  BY FS_Subset, SumPicks DEF Some
<1> HIDE DEF Sum
<1>3. ASSUME NEW s \in SUBSET S, \A x \in s : s \ {x} \in Q, NEW x \in s
      PROVE  Sum(s) = f[x] + Sum(s \ {x})
  <2> DEFINE p == Some(s)
             rest == s \ {x, p}
  <2>1. p \in s /\ Sum(s) = f[p] + Sum(s \ {p})
    BY <1>2
  <2> HIDE DEF p
  <2>2. CASE x = p
    BY <2>1, <2>2
  <2>3. CASE x # p
    <3>1. x \in s \ {p} /\ (s \ {p}) \ {x} = rest /\ s \ {p} \in Q
      BY <1>3, <2>1, <2>3
    <3>2. Sum(s \ {p}) = f[x] + Sum(rest)
      BY <3>1
    <3>3. p \in s \ {x} /\ (s \ {x}) \ {p} = rest /\ s \ {x} \in Q
      BY <1>3, <2>1, <2>3
    <3>4. Sum(s \ {x}) = f[p] + Sum(rest)
      BY <3>3
    <3>5. Sum(rest) \in Int /\ f[x] \in Int /\ f[p] \in Int
      BY <1>1, <2>1
    <3> HIDE DEF rest
    <3> QED BY <2>1, <3>2, <3>4, <3>5
  <2> QED BY <2>2, <2>3
<1>4. SUBSET S \subseteq Q
  <2>1. \A s \in SUBSET S : (\A x \in s : s \ {x} \in Q) => s \in Q
    BY <1>3
  <2> HIDE DEF Q
  <2> QED BY <2>1, SubsetInduction
<1> QED BY <1>4 DEF Sum

\* Functions that agree have the same sum.
LEMMA SumSame ==
  ASSUME NEW S, IsFiniteSet(S), NEW f, NEW g, \A x \in S : f[x] = g[x]
  PROVE  SumFunctionOnSet(f, S) = SumFunctionOnSet(g, S)
<1> DEFINE Q == {s \in SUBSET S : SumFunctionOnSet(f, s) = SumFunctionOnSet(g, s)}
<1>1. ASSUME NEW s \in SUBSET S, \A x \in s : s \ {x} \in Q PROVE s \in Q
  <2>1. CASE s = {}
    BY <2>1, SumOfNone
  <2>2. CASE s # {}
    <3>1. Some(s) \in s
      BY <2>2 DEF Some
    <3>2. /\ SumFunctionOnSet(f, s) = f[Some(s)] + SumFunctionOnSet(f, s \ {Some(s)})
          /\ SumFunctionOnSet(g, s) = g[Some(s)] + SumFunctionOnSet(g, s \ {Some(s)})
      BY <2>2, FS_Subset, SumPicks
    <3> QED BY <1>1, <3>1, <3>2
  <2> QED BY <2>1, <2>2
<1>2. SUBSET S \subseteq Q
  <2> HIDE DEF Q
  <2> QED BY <1>1, SubsetInduction
<1> QED BY <1>2

\* A sum of zeros.
LEMMA SumOfZeros ==
  ASSUME NEW S, IsFiniteSet(S), NEW f, \A x \in S : f[x] = 0
  PROVE  SumFunctionOnSet(f, S) = 0
<1> DEFINE Q == {s \in SUBSET S : SumFunctionOnSet(f, s) = 0}
<1>1. ASSUME NEW s \in SUBSET S, \A x \in s : s \ {x} \in Q PROVE s \in Q
  <2>1. CASE s = {}
    BY <2>1, SumOfNone
  <2>2. CASE s # {}
    <3>1. PICK x \in s : TRUE
      BY <2>2
    <3>2. SumFunctionOnSet(f, s) = f[x] + SumFunctionOnSet(f, s \ {x})
      BY SumTakes
    <3> QED BY <1>1, <3>2
  <2> QED BY <2>1, <2>2
<1>2. SUBSET S \subseteq Q
  <2> HIDE DEF Q
  <2> QED BY <1>1, SubsetInduction
<1> QED BY <1>2

\* Counting.
LEMMA SumOfOnes ==
  ASSUME NEW S, IsFiniteSet(S), NEW f, \A x \in S : f[x] = 1
  PROVE  SumFunctionOnSet(f, S) = Cardinality(S)
<1> DEFINE Q == {s \in SUBSET S : SumFunctionOnSet(f, s) = Cardinality(s)}
<1>1. ASSUME NEW s \in SUBSET S, \A x \in s : s \ {x} \in Q PROVE s \in Q
  <2>1. CASE s = {}
    BY <2>1, SumOfNone, FS_EmptySet
  <2>2. CASE s # {}
    <3>1. PICK x \in s : TRUE
      BY <2>2
    <3>2. SumFunctionOnSet(f, s) = f[x] + SumFunctionOnSet(f, s \ {x})
      BY SumTakes
    <3>3. Cardinality(s) \in Nat /\ Cardinality(s \ {x}) = Cardinality(s) - 1
      BY Smaller
    <3> QED BY <1>1, <3>2, <3>3
  <2> QED BY <2>1, <2>2
<1>2. SUBSET S \subseteq Q
  <2> HIDE DEF Q
  <2> QED BY <1>1, SubsetInduction
<1> QED BY <1>2

\* The sums of the parts, whatever key they are made by, are the sum of the whole.
LEMMA SumOfParts ==
  ASSUME NEW S, IsFiniteSet(S), NEW f, \A x \in S : f[x] \in Int,
         NEW K, IsFiniteSet(K), NEW key, \A x \in S : key[x] \in K
  PROVE  SumFunction([k \in K |-> SumFunctionOnSet(f, {x \in S : key[x] = k})])
           = SumFunctionOnSet(f, S)
<1> DEFINE Sum(s) == SumFunctionOnSet(f, s)
           Part(s, k) == {x \in s : key[x] = k}
           By(s) == [k \in K |-> Sum(Part(s, k))]
           Whole(s) == SumFunctionOnSet(By(s), K)
           Q == {s \in SUBSET S : Whole(s) = Sum(s)}
<1>1. \A s \in SUBSET S : Sum(s) \in Int
  BY SumInt
<1>2. ASSUME NEW s \in SUBSET S, NEW x \in s PROVE Sum(s) = f[x] + Sum(s \ {x})
  BY SumTakes
<1>3. Sum({}) = 0
  BY SumOfNone
<1> HIDE DEF Sum
<1>4. ASSUME NEW s \in SUBSET S, \A x \in s : s \ {x} \in Q PROVE s \in Q
  <2>1. CASE s = {}
    <3>1. \A k \in K : By(s)[k] = 0
      BY <1>3, <2>1
    <3>2. Whole(s) = 0
      <4> HIDE DEF By
      <4> QED BY <3>1, SumOfZeros
    <3> QED BY <1>3, <2>1, <3>2
  <2>2. CASE s # {}
    <3>1. PICK x \in s : TRUE
      BY <2>2
    <3> DEFINE r == s \ {x}
               g == By(s)
               h == By(r)
    <3>2. r \in SUBSET S /\ Whole(r) = Sum(r)
      BY <1>4
    <3>3. \A k \in K : g[k] \in Int /\ h[k] \in Int
      BY <1>1
    <3>4. \A k \in K \ {key[x]} : g[k] = h[k]
      <4>1. \A k \in K \ {key[x]} : Part(s, k) = Part(r, k)
        OBVIOUS
      <4> HIDE DEF Part
      <4> QED BY <4>1
    <3>5. key[x] \in K /\ g[key[x]] = f[x] + h[key[x]]
      <4>1. x \in Part(s, key[x]) /\ Part(s, key[x]) \ {x} = Part(r, key[x])
        OBVIOUS
      <4>2. Part(s, key[x]) \in SUBSET S
        OBVIOUS
      <4> HIDE DEF Part
      <4>3. Sum(Part(s, key[x])) = f[x] + Sum(Part(r, key[x]))
        BY <1>2, <4>1, <4>2
      <4> QED BY <4>3
    <3> DEFINE U == K \ {key[x]}
    <3> HIDE DEF g, h
    <3>6. SumFunctionOnSet(g, K) = g[key[x]] + SumFunctionOnSet(g, U)
      BY <3>3, <3>5, SumTakes
    <3>7. SumFunctionOnSet(h, K) = h[key[x]] + SumFunctionOnSet(h, U)
      BY <3>3, <3>5, SumTakes
    <3>8. IsFiniteSet(U)
      BY FS_Subset
    <3>9. SumFunctionOnSet(g, U) = SumFunctionOnSet(h, U) /\ SumFunctionOnSet(h, U) \in Int
      BY <3>3, <3>4, <3>8, SumSame, SumInt
    <3>10. Whole(s) = f[x] + Whole(r)
      <4>1. f[x] \in Int /\ h[key[x]] \in Int
        BY <3>3, <3>5
      <4>2. SumFunctionOnSet(g, K) = f[x] + SumFunctionOnSet(h, K)
        BY <3>5, <3>6, <3>7, <3>9, <4>1
      <4> QED BY <4>2 DEF g, h
    <3> QED BY <1>2, <3>2, <3>10
  <2> QED BY <2>1, <2>2
<1>5. SUBSET S \subseteq Q
  <2> HIDE DEF Q
  <2> QED BY <1>4, SubsetInduction
<1>6. Whole(S) = Sum(S)
  BY <1>5
<1>7. DOMAIN By(S) = K
  OBVIOUS
<1> QED BY <1>6, <1>7 DEF SumFunction, Sum

\* A finite set, counted by its parts.
LEMMA CountOfParts ==
  ASSUME NEW S, IsFiniteSet(S), NEW K, IsFiniteSet(K), NEW key, \A x \in S : key[x] \in K
  PROVE  SumFunction([k \in K |-> Cardinality({x \in S : key[x] = k})]) = Cardinality(S)
<1> DEFINE one == [x \in S |-> 1]
           Part(k) == {x \in S : key[x] = k}
<1>1. \A x \in S : one[x] = 1 /\ one[x] \in Int
  OBVIOUS
<1> HIDE DEF one
<1>2. \A s \in SUBSET S : SumFunctionOnSet(one, s) = Cardinality(s)
  BY <1>1, FS_Subset, SumOfOnes
<1>3. [k \in K |-> SumFunctionOnSet(one, Part(k))] = [k \in K |-> Cardinality(Part(k))]
  BY <1>2
<1>4. SumFunction([k \in K |-> SumFunctionOnSet(one, Part(k))]) = SumFunctionOnSet(one, S)
  BY <1>1, SumOfParts
<1> QED BY <1>2, <1>3, <1>4

\* The keys of a finite set are finitely many.
LEMMA FiniteKeys ==
  ASSUME NEW S, IsFiniteSet(S), NEW key
  PROVE  IsFiniteSet({key[x] : x \in S})
<1> DEFINE K == {key[x] : x \in S}
           f == [x \in S |-> key[x]]
<1>1. f \in Surjection(S, K)
  BY DEF Surjection
<1> QED BY <1>1, FS_Surjection

\* The sums of the parts with the same key.
LEMMA SumByKey ==
  ASSUME NEW S, IsFiniteSet(S), NEW f, \A x \in S : f[x] \in Int, NEW key
  PROVE  SumFunction([k \in {key[x] : x \in S} |-> SumFunctionOnSet(f, {x \in S : key[x] = k})])
           = SumFunctionOnSet(f, S)
<1> DEFINE K == {key[x] : x \in S}
<1>1. IsFiniteSet(K) /\ \A x \in S : key[x] \in K
  BY FiniteKeys
<1> HIDE DEF K
<1>2. SumFunction([k \in K |-> SumFunctionOnSet(f, {x \in S : key[x] = k})])
        = SumFunctionOnSet(f, S)
  BY <1>1, SumOfParts
<1> QED BY <1>2 DEF K

-----------------------------------------------------------------------------
(* The months of the reports.                                              *)

\* The bounds of a month hold its days and no other, December's next one included.
LEMMA OwnMonth ==
  ASSUME NEW d \in Date, NEW y \in Nat, NEW m \in 1..12
  PROVE  ~R!Before(d, <<y, m, 1>>) /\ R!Before(d, R!NextMonth(y, m)) <=> d[1] = y /\ d[2] = m
<1>1. d[1] \in Nat /\ d[2] \in 1..12 /\ d[3] \in 1..31
  BY DEF Date
<1>2. R!Before(d, <<y, m, 1>>) <=> d[1] < y \/ (d[1] = y /\ d[2] < m)
  BY <1>1 DEF R!Before
<1>3. R!Before(d, R!NextMonth(y, m)) <=> d[1] < y \/ (d[1] = y /\ d[2] <= m)
  <2>1. CASE m = 12
    <3>1. R!Before(d, R!NextMonth(y, m)) <=> d[1] < y + 1
      BY <1>1, <2>1 DEF R!Before, R!NextMonth
    <3>2. d[1] < y + 1 <=> d[1] < y \/ d[1] = y
      BY <1>1
    <3>3. d[2] <= m
      BY <1>1, <2>1
    <3>4. QED
      BY <3>1, <3>2, <3>3
  <2>2. CASE m # 12
    <3>1. R!Before(d, R!NextMonth(y, m)) <=> d[1] < y \/ (d[1] = y /\ d[2] < m + 1)
      BY <1>1, <2>2 DEF R!Before, R!NextMonth
    <3>2. d[2] < m + 1 <=> d[2] <= m
      BY <1>1
    <3>3. QED
      BY <3>1, <3>2
  <2>3. QED
    BY <2>1, <2>2
<1>4. d[1] < y \/ d[1] = y \/ y < d[1]
  BY <1>1
<1>5. d[2] < m \/ d[2] = m \/ m < d[2]
  BY <1>1
<1>6. QED
  BY <1>1, <1>2, <1>3, <1>4, <1>5

\* Whatever has been booked and however it is filed, a payment is in the report of the
\* month it was made in and in no other: what a month leaves out, the next one does not
\* count twice (monthly_report.py:71-86, transaction_repository.py:60-71).
THEOREM MonthsApart ==
  ASSUME NEW t \in Booked, NEW y \in Nat, NEW m \in 1..12
  PROVE  t \in R!InMonth(Booked, y, m) <=> t.paidAt[1] = y /\ t.paidAt[2] = m
<1> DEFINE d == t.paidAt
<1>1. d \in Date
  BY BillAssumption DEF Booked, Line
<1>2. t \in R!InMonth(Booked, y, m)
        <=> ~R!Before(d, <<y, m, 1>>) /\ R!Before(d, R!NextMonth(y, m))
  BY DEF R!InMonth
<1>3. ~R!Before(d, <<y, m, 1>>) /\ R!Before(d, R!NextMonth(y, m)) <=> d[1] = y /\ d[2] = m
  <2> HIDE DEF d
  <2>1. QED
    BY <1>1, OwnMonth
<1>4. QED
  BY <1>2, <1>3

-----------------------------------------------------------------------------
USE MerchantAssumption, BooksAssumption, NoneAssumption

-----------------------------------------------------------------------------
(* Types.                                                                  *)

\* Rows of the file are found only under its keys, what a request has read is still
\* there, and only a running pass has drafts.
Clean ==
  /\ \A k \in Key : global[k] > 0 => k \in SeedKeys
  /\ \A c \in Clerk : task[c] # None /\ task[c].is = "learn" /\ task[c].found # None =>
       own[KeyOf[task[c].lesson.raw]] # None
  /\ \A c \in Clerk : task[c] # None /\ task[c].is = "verify" => ledger[task[c].payment] # None
  /\ batch = None => \A p \in Payment : draft[p] = None
  /\ batch # None => \A p \in batch : ledger[p] = None

\* The names that occur have keys.
LEMMA RawKeys ==
  /\ \A p \in Payment : KeyOf[Bill[p].raw] \in Key
  /\ \A l \in Lesson : KeyOf[l.raw] \in Key
BY DEF KeyOf, Key, Raw

\* A lesson is an alias.
LEMMA LessonAlias ==
  \A l \in Lesson : [canonical |-> l.canonical, category |-> l.category] \in Alias
BY DEF Alias

\* An entry of the file is about one of its rows.
LEMMA EntryRow == \A e \in Entry : e[1] \in DOMAIN SeedRows
<1> SUFFICES ASSUME NEW e \in Entry PROVE e[1] \in DOMAIN SeedRows
  OBVIOUS
<1>1. \E E \in {{i} \X DOMAIN NamesOf(SeedRows[i]) : i \in DOMAIN SeedRows} : e \in E
  BY DEF Entry
<1>2. PICK i \in DOMAIN SeedRows : e \in {i} \X DOMAIN NamesOf(SeedRows[i])
  BY <1>1
<1>3. QED
  BY <1>2

\* A row, under whatever name it is found, is an alias.
LEMMA RowAlias ==
  \A i \in DOMAIN SeedRows :
    [canonical |-> SeedRows[i].canonical, category |-> SeedRows[i].category] \in Alias
BY DEF Alias

\* What the file holds under a key is an alias.
LEMMA SeedAliasType == \A k \in SeedKeys : SeedAlias[k] \in Alias /\ SeedCount[k] \in Nat
<1> SUFFICES ASSUME NEW k \in SeedKeys PROVE SeedAlias[k] \in Alias /\ SeedCount[k] \in Nat
  OBVIOUS
<1>1. \E e \in Entry : EntryKey[e] = k
  BY DEF SeedKeys
<1> DEFINE e == CHOOSE d \in Entry : EntryKey[d] = k
           row == SeedRows[e[1]]
<1>2. e \in Entry
  BY <1>1
<1>3. e[1] \in DOMAIN SeedRows
  BY <1>2, EntryRow
<1>4. SeedAlias[k] = [canonical |-> row.canonical, category |-> row.category]
  BY DEF SeedAlias
<1>5. SeedAlias[k] \in Alias
  <2> HIDE DEF e
  <2>1. QED
    BY <1>3, <1>4, RowAlias
<1>6. SeedCount[k] \in Nat
  <2> DEFINE E == {d \in Entry : EntryKey[d] = k}
  <2>1. E \in SUBSET Entry
    OBVIOUS
  <2>2. Cardinality(E) \in Nat
    BY <2>1, FileAssumption, FS_Subset, FS_CardinalityType
  <2>3. QED
    BY <2>2 DEF SeedCount
<1>7. QED
  BY <1>5, <1>6

\* A lookup that does not raise gives an alias or nothing.
LEMMA LookupType ==
  ASSUME TypeOK, Clean, NEW k \in Key
  PROVE  Lookup(k) \in Alias \cup {None}
BY SeedAliasType DEF Lookup, TypeOK, Clean

\* The classifier gives a category of its catalogue, or none.
LEMMA PickType ==
  ASSUME NEW C \in SUBSET Category, NEW c \in Category \cup {None}
  PROVE  Pick(c, C) \in C \cup {None} /\ Pick(c, C) \in Category \cup {None}
BY DEF Pick

\* What a pass files is a transaction, unverified, in a category it knows.
LEMMA FiledType ==
  ASSUME TypeOK, NEW a \in Alias \cup {None}, NEW p \in Payment
  PROVE  /\ Filed(a, p) \in Transaction
         /\ Filed(a, p).category \in rules \cup {None}
         /\ ~Filed(a, p).verified
<1>1. (IF a = None THEN None ELSE a.category) \in Category \cup {None}
  BY DEF Alias
<1>2. rules \in SUBSET Category
  BY DEF TypeOK
<1>3. /\ Pick(IF a = None THEN None ELSE a.category, rules) \in rules \cup {None}
      /\ Pick(IF a = None THEN None ELSE a.category, rules) \in Category \cup {None}
  BY <1>1, <1>2, PickType
<1>4. (IF a = None THEN None ELSE a.canonical) \in {b.canonical : b \in Alias} \cup {None}
  OBVIOUS
<1>5. QED
  BY <1>3, <1>4 DEF Filed, Transaction

\* One side of a request that has written.
LEMMA DoneType ==
  ASSUME TypeOK, NEW c \in Clerk, Done(c)
  PROVE  task' \in [Clerk -> Task \cup {None}]
BY DEF TypeOK, Done

\* A request that is done has forgotten what it read.
LEMMA DoneClean ==
  ASSUME TypeOK, Clean, NEW c \in Clerk, Done(c),
         \A k \in Key : own[k] # None => own'[k] # None,
         \A p \in Payment : ledger[p] # None <=> ledger'[p] # None,
         UNCHANGED <<global, draft, batch>>
  PROVE  Clean'
<1> USE DEF TypeOK, Clean, Done
<1>1. \A d \in Clerk : task'[d] # None => task'[d] = task[d] /\ task[d] \in Task
  OBVIOUS
<1>2. \A d \in Clerk : task'[d] # None /\ task'[d].is = "learn" /\ task'[d].found # None =>
        own'[KeyOf[task'[d].lesson.raw]] # None
  BY <1>1, RawKeys DEF Task
<1>3. \A d \in Clerk : task'[d] # None /\ task'[d].is = "verify" =>
        ledger'[task'[d].payment] # None
  BY <1>1 DEF Task
<1>4. QED
  BY <1>2, <1>3

\* Every step keeps the types.
LEMMA TypeInductive == TypeOK /\ Clean /\ [Next]_vars => TypeOK' /\ Clean'
<1> SUFFICES ASSUME TypeOK, Clean, [Next]_vars PROVE TypeOK' /\ Clean'
  OBVIOUS
<1> USE DEF TypeOK
<1>1. ASSUME NEW C \in Catalogs, EditCatalog(C) PROVE TypeOK' /\ Clean'
  BY <1>1 DEF EditCatalog, Clean
<1>2. ASSUME NEW c \in Clerk, NEW l \in Lesson, FindAlias(c, l) PROVE TypeOK' /\ Clean'
  <2> DEFINE t == [is |-> "learn", lesson |-> l, found |-> own[KeyOf[l.raw]]]
  <2>1. t \in Task
    BY RawKeys DEF Task
  <2>2. task' = [task EXCEPT ![c] = t] /\ task' \in [Clerk -> Task \cup {None}]
    BY <1>2, <2>1 DEF FindAlias
  <2>3. Clean'
    BY <1>2, <2>2 DEF FindAlias, Clean
  <2>4. QED
    BY <1>2, <2>2, <2>3 DEF FindAlias
<1>3. ASSUME NEW c \in Clerk, NEW p \in Payment, NEW flag \in BOOLEAN,
             FindTransaction(c, p, flag)
      PROVE  TypeOK' /\ Clean'
  <2> DEFINE t == [is |-> "verify", payment |-> p, flag |-> flag,
                   verified |-> ledger[p].verified, review |-> ledger[p].review]
  <2>1. ledger[p] \in Transaction
    BY <1>3 DEF FindTransaction
  <2>2. t \in Task
    BY <2>1 DEF Task, Transaction
  <2>3. task' = [task EXCEPT ![c] = t] /\ task' \in [Clerk -> Task \cup {None}]
    BY <1>3, <2>2 DEF FindTransaction
  <2>4. Clean'
    BY <1>3, <2>3 DEF FindTransaction, Clean
  <2>5. QED
    BY <1>3, <2>3, <2>4 DEF FindTransaction
<1>4. ASSUME NEW c \in Clerk, WriteAlias(c) PROVE TypeOK' /\ Clean'
  <2> DEFINE l == task[c].lesson
             k == KeyOf[l.raw]
             r == task[c].found
             new == IF r = None THEN [canonical |-> l.canonical, category |-> l.category]
                    ELSE [canonical |-> Column(l.canonical, r.canonical, own[k].canonical),
                          category  |-> Column(l.category, r.category, own[k].category)]
  <2>1. l \in Lesson /\ r \in Alias \cup {None}
    BY <1>4 DEF WriteAlias, Task
  <2>2. k \in Key
    BY <2>1, RawKeys
  <2>3. own' = [own EXCEPT ![k] = new]
    BY <1>4 DEF WriteAlias
  <2>4. own[k] # None \/ r = None
    BY <1>4 DEF WriteAlias, Clean
  <2>5. new \in Alias
    <3>1. CASE r = None
      BY <2>1, <3>1, LessonAlias
    <3>2. CASE r # None
      <4>1. own[k] \in Alias
        BY <2>2, <2>4, <3>2
      <4>2. QED
        BY <2>1, <3>2, <4>1 DEF Alias, Column
    <3>3. QED
      BY <3>1, <3>2
  <2>6. own' \in [Key -> Alias \cup {None}] /\ \A j \in Key : own[j] # None => own'[j] # None
    BY <2>3, <2>5
  <2>7. QED
    BY <1>4, <2>6, DoneType, DoneClean DEF WriteAlias
<1>5. ASSUME NEW c \in Clerk, FirstRowTaken(c) \/ GiveUp(c) PROVE TypeOK' /\ Clean'
  BY <1>5, DoneType, DoneClean DEF FirstRowTaken, GiveUp
<1>6. ASSUME NEW c \in Clerk, WriteVerdict(c) PROVE TypeOK' /\ Clean'
  <2> DEFINE t == task[c]
             new == [ledger[t.payment] EXCEPT
                       !.verified = Column(t.flag, t.verified, @),
                       !.review = ReviewAfter(t.flag, t.review, @)]
  <2>1. /\ t.payment \in Payment /\ t.flag \in BOOLEAN /\ t.verified \in BOOLEAN
        /\ t.review \in BOOLEAN /\ ledger[t.payment] \in Transaction
    BY <1>6 DEF WriteVerdict, Task, Clean
  <2>2. ledger' = [ledger EXCEPT ![t.payment] = new]
    BY <1>6, <2>1 DEF WriteVerdict
  <2>3. new \in Transaction
    BY <2>1 DEF Transaction, Column, ReviewAfter
  <2>4. /\ ledger' \in [Payment -> Transaction \cup {None}]
        /\ \A p \in Payment : ledger[p] = None <=> ledger'[p] = None
    BY <2>1, <2>2, <2>3
  <2>5. QED
    BY <1>6, <2>4, DoneType, DoneClean DEF WriteVerdict
<1>7. CASE Seed
  <2>1. \A k \in SeedKeys : SeedCount[k] \in Nat
    BY SeedAliasType
  <2>2. /\ global' \in [Key -> Nat]
        /\ \A k \in Key : global'[k] > 0 => k \in SeedKeys
    BY <1>7, <2>1 DEF Seed, Clean
  <2>3. QED
    BY <1>7, <2>2 DEF Seed, Clean
<1>8. ASSUME NEW p \in Payment, Arrive(p) PROVE TypeOK' /\ Clean'
  BY <1>8 DEF Arrive, Clean
<1>9. CASE StartPass
  <2>1. batch' \subseteq arrived /\ rules' \subseteq Category
    BY <1>9 DEF StartPass, Unmatched
  <2>2. batch' # None
    BY <2>1
  <2>3. QED
    BY <1>9, <2>1, <2>2 DEF StartPass, Clean, Unmatched
<1>10. ASSUME NEW p \in Payment, Book(p) PROVE TypeOK' /\ Clean'
  <2>1. p \in batch /\ batch' = batch \ {p} /\ batch \subseteq arrived
    BY <1>10 DEF Book, First
  <2>2. KeyOf[Bill[p].raw] \in Key
    BY RawKeys
  <2>3. draft' = [draft EXCEPT ![p] = Filed(Lookup(KeyOf[Bill[p].raw]), p)]
    BY <1>10 DEF Book
  <2>4. Filed(Lookup(KeyOf[Bill[p].raw]), p) \in Transaction
    BY <2>2, LookupType, FiledType
  <2>5. p \in arrived /\ ledger[p] = None
    BY <2>1 DEF Clean
  <2>6. TypeOK'
    BY <1>10, <2>1, <2>3, <2>4, <2>5 DEF Book
  <2>7. Clean'
    BY <1>10, <2>1, <2>3 DEF Book, Clean
  <2>8. QED
    BY <2>6, <2>7
<1>11. CASE CommitPass
  <2>1. \A p \in Payment : ledger'[p] = IF draft[p] # None THEN draft[p] ELSE ledger[p]
    BY <1>11 DEF CommitPass
  <2>2. /\ ledger' \in [Payment -> Transaction \cup {None}]
        /\ draft' \in [Payment -> Transaction \cup {None}]
        /\ \A p \in Payment : draft'[p] = None
    BY <1>11 DEF CommitPass, EndPass
  <2>3. TypeOK'
    BY <1>11, <2>1, <2>2 DEF CommitPass, EndPass
  <2>4. \A c \in Clerk : task[c] # None /\ task[c].is = "verify" => ledger'[task[c].payment] # None
    BY <2>1 DEF Clean, Task
  <2>5. Clean'
    BY <1>11, <2>2, <2>4 DEF CommitPass, EndPass, Clean
  <2>6. QED
    BY <2>3, <2>5
<1>12. CASE FailPass
  BY <1>12 DEF FailPass, EndPass, Clean
<1>13. CASE UNCHANGED vars
  BY <1>13 DEF vars, Clean
<1>14. QED
  BY <1>1, <1>2, <1>3, <1>4, <1>5, <1>6, <1>7, <1>8, <1>9, <1>10, <1>11, <1>12, <1>13
     DEF Next, PassStep

\* Both hold before the first request and after every step.
LEMMA Typed == Spec => [](TypeOK /\ Clean)
<1>1. Init => TypeOK
  BY DEF Init, TypeOK
<1>2. Init => Clean
  BY DEF Init, Clean
<1>3. QED
  BY <1>1, <1>2, TypeInductive, PTL DEF Spec

\* Variables keep their types, however requests of the owner and passes interleave.
THEOREM TypeCorrect == Spec => []TypeOK
BY Typed, PTL

-----------------------------------------------------------------------------
(* Categories.                                                             *)

\* What a pass files is in its catalogue, whatever alias was taught or seeded when.
THEOREM CategoriesAllowed == Spec => []CategoryAllowed
<1>1. Init => CategoryAllowed
  BY DEF Init, CategoryAllowed
<1>2. TypeOK /\ Clean /\ CategoryAllowed /\ [Next]_vars => CategoryAllowed'
  <2> SUFFICES ASSUME TypeOK, Clean, CategoryAllowed, [Next]_vars PROVE CategoryAllowed'
    OBVIOUS
  <2>1. ASSUME NEW p \in Payment, Book(p) PROVE CategoryAllowed'
    <3>1. KeyOf[Bill[p].raw] \in Key
      BY RawKeys
    <3>2. Filed(Lookup(KeyOf[Bill[p].raw]), p).category \in rules \cup {None}
      BY <3>1, LookupType, FiledType
    <3>3. QED
      BY <2>1, <3>2 DEF Book, CategoryAllowed, TypeOK
  <2>2. CASE StartPass
    BY <2>2 DEF StartPass, Clean, CategoryAllowed
  <2>3. CASE CommitPass \/ FailPass
    BY <2>3 DEF CommitPass, FailPass, EndPass, CategoryAllowed
  <2>4. ASSUME UNCHANGED <<draft, rules>> PROVE CategoryAllowed'
    BY <2>4 DEF CategoryAllowed
  <2>5. QED
    BY <2>1, <2>2, <2>3, <2>4
       DEF Next, PassStep, EditCatalog, FindAlias, FindTransaction, WriteAlias, FirstRowTaken,
           WriteVerdict, GiveUp, Seed, Arrive, vars
<1>3. QED
  BY <1>1, <1>2, Typed, PTL DEF Spec

-----------------------------------------------------------------------------
(* Verification.                                                           *)

\* The review flag only goes down: a request that has read it down finds it down when
\* it writes, and one that has read a verified transaction has read it down.
Verdicts ==
  /\ \A c \in Clerk : task[c] # None /\ task[c].is = "verify" =>
       /\ task[c].verified => ~task[c].review
       /\ ~task[c].review => ~ledger[task[c].payment].review
  /\ \A p \in Payment : draft[p] # None => ~draft[p].verified

\* Both outlive every step.
LEMMA VerdictsInductive ==
  TypeOK /\ Clean /\ Verdicts /\ VerifiedNotInReview /\ [Next]_vars
    => Verdicts' /\ VerifiedNotInReview'
<1> SUFFICES ASSUME TypeOK, Clean, Verdicts, VerifiedNotInReview, [Next]_vars
    PROVE  Verdicts' /\ VerifiedNotInReview'
  OBVIOUS
<1> USE DEF VerifiedNotInReview, ReviewList
<1>1. ASSUME NEW c \in Clerk, NEW p \in Payment, NEW flag \in BOOLEAN,
             FindTransaction(c, p, flag)
      PROVE  Verdicts' /\ VerifiedNotInReview'
  BY <1>1 DEF FindTransaction, TypeOK, Verdicts
<1>2. ASSUME NEW c \in Clerk, WriteVerdict(c) PROVE Verdicts' /\ VerifiedNotInReview'
  <2> DEFINE t == task[c]
             q == t.payment
  <2>1. /\ t \in Task /\ q \in Payment /\ t.flag \in BOOLEAN /\ t.verified \in BOOLEAN
        /\ t.review \in BOOLEAN /\ ledger[q] \in Transaction
    BY <1>2 DEF WriteVerdict, Task, Clean, TypeOK
  <2>2. /\ t.verified => ~t.review
        /\ ~t.review => ~ledger[q].review
    BY <1>2 DEF WriteVerdict, Verdicts
  <2>3. /\ \A p \in Payment \ {q} : ledger'[p] = ledger[p]
        /\ ledger'[q].verified = Column(t.flag, t.verified, ledger[q].verified)
        /\ ledger'[q].review = ReviewAfter(t.flag, t.review, ledger[q].review)
        /\ \A p \in Payment : ledger'[p] = None <=> ledger[p] = None
    <3> DEFINE new == [ledger[q] EXCEPT !.verified = Column(t.flag, t.verified, @),
                                        !.review = ReviewAfter(t.flag, t.review, @)]
    <3>1. ledger' = [ledger EXCEPT ![q] = new]
      BY <1>2, <2>1 DEF WriteVerdict, TypeOK
    <3>2. /\ new \in Transaction
          /\ new.verified = Column(t.flag, t.verified, ledger[q].verified)
          /\ new.review = ReviewAfter(t.flag, t.review, ledger[q].review)
      BY <2>1 DEF Transaction, Column, ReviewAfter
    <3> HIDE DEF new
    <3>3. QED
      BY <2>1, <3>1, <3>2 DEF TypeOK
  <2>4. ledger'[q].review => ledger[q].review /\ ~t.flag
    BY <2>1, <2>2, <2>3 DEF ReviewAfter, Transaction
  <2>5. ledger'[q].review => ~ledger'[q].verified
    <3>1. SUFFICES ASSUME ledger'[q].review PROVE ~Column(t.flag, t.verified, ledger[q].verified)
      BY <2>3
    <3>2. ~t.flag /\ ~ledger[q].verified
      BY <2>1, <2>4, <3>1 DEF Clean
    <3>3. QED
      BY <3>2 DEF Column
  <2>6. VerifiedNotInReview'
    BY <2>3, <2>5
  <2>7. \A d \in Clerk : task'[d] # None => task'[d] = task[d]
    BY <1>2 DEF WriteVerdict, Done, TypeOK
  <2>8. Verdicts'
    <3>1. ASSUME NEW d \in Clerk, task'[d] # None, task'[d].is = "verify"
          PROVE  /\ task'[d].verified => ~task'[d].review
                 /\ ~task'[d].review => ~ledger'[task'[d].payment].review
      <4>1. task[d].payment \in Payment
        BY <2>7, <3>1 DEF TypeOK, Task
      <4>2. task'[d] = task[d]
        BY <2>7, <3>1
      <4>3. /\ task[d].verified => ~task[d].review
            /\ ~task[d].review => ~ledger[task[d].payment].review
        BY <3>1, <4>2 DEF Verdicts
      <4>4. ~ledger[task[d].payment].review => ~ledger'[task[d].payment].review
        BY <2>3, <2>4, <4>1
      <4>5. QED
        BY <4>2, <4>3, <4>4
    <3>2. QED
      BY <1>2, <3>1 DEF WriteVerdict, Verdicts
  <2>9. QED
    BY <2>6, <2>8
<1>3. ASSUME NEW p \in Payment, Book(p) PROVE Verdicts' /\ VerifiedNotInReview'
  <2>1. KeyOf[Bill[p].raw] \in Key
    BY RawKeys
  <2>2. ~Filed(Lookup(KeyOf[Bill[p].raw]), p).verified
    BY <2>1, LookupType, FiledType
  <2>3. QED
    BY <1>3, <2>2 DEF Book, TypeOK, Verdicts
<1>4. CASE CommitPass
  <2>1. \A p \in Payment : ledger'[p] = IF draft[p] # None THEN draft[p] ELSE ledger[p]
    BY <1>4 DEF CommitPass
  <2>2. VerifiedNotInReview'
    BY <2>1 DEF Verdicts
  <2>3. \A c \in Clerk : task[c] # None /\ task[c].is = "verify" =>
          ledger'[task[c].payment] = ledger[task[c].payment]
    BY <2>1 DEF Clean, TypeOK, Task
  <2>4. QED
    BY <1>4, <2>2, <2>3 DEF CommitPass, EndPass, Verdicts
<1>5. CASE FailPass
  BY <1>5 DEF FailPass, EndPass, Verdicts
<1>6. ASSUME UNCHANGED <<ledger, draft>>, \A c \in Clerk : task'[c] = task[c] \/ task'[c] = None
      PROVE  Verdicts' /\ VerifiedNotInReview'
  BY <1>6 DEF Verdicts
<1>7. ASSUME NEW c \in Clerk, NEW l \in Lesson, FindAlias(c, l)
      PROVE  Verdicts' /\ VerifiedNotInReview'
  BY <1>7 DEF FindAlias, TypeOK, Verdicts
<1>8. ASSUME NEW c \in Clerk, WriteAlias(c) \/ FirstRowTaken(c) \/ GiveUp(c)
      PROVE  Verdicts' /\ VerifiedNotInReview'
  <2>1. \A d \in Clerk : task'[d] = task[d] \/ task'[d] = None
    BY <1>8 DEF WriteAlias, FirstRowTaken, GiveUp, Done, TypeOK
  <2>2. QED
    BY <1>6, <1>8, <2>1 DEF WriteAlias, FirstRowTaken, GiveUp
<1>9. QED
  BY <1>1, <1>2, <1>3, <1>4, <1>5, <1>6, <1>7, <1>8
     DEF Next, PassStep, EditCatalog, Seed, Arrive, StartPass, vars

\* Overlapping verifications never leave a verified transaction on the review list,
\* however many there are and whatever they have read.
THEOREM VerifiedLeavesReview == Spec => []VerifiedNotInReview
<1>1. Init => Verdicts /\ VerifiedNotInReview
  BY DEF Init, Verdicts, VerifiedNotInReview, ReviewList
<1>2. QED
  BY <1>1, VerdictsInductive, Typed, PTL DEF Spec

-----------------------------------------------------------------------------
(* Reports.                                                                *)

\* The amounts of the transactions there are.
Amount == [t \in Booked |-> t.amount]

\* Only payments that have come in are booked, and those are finitely many.
Finite == IsFiniteSet(arrived) /\ IsFiniteSet(Booked)

LEMMA FiniteAlways == Spec => []Finite
<1>1. Init => IsFiniteSet(arrived)
  BY FS_EmptySet DEF Init
<1>2. IsFiniteSet(arrived) /\ [Next]_vars => IsFiniteSet(arrived)'
  <2> SUFFICES ASSUME IsFiniteSet(arrived), [Next]_vars PROVE IsFiniteSet(arrived)'
    OBVIOUS
  <2>1. ASSUME NEW p \in Payment, Arrive(p) PROVE IsFiniteSet(arrived)'
    BY <2>1, FS_AddElement DEF Arrive
  <2>2. CASE UNCHANGED arrived
    BY <2>2
  <2> QED
    BY <2>1, <2>2
       DEF Next, vars, EditCatalog, FindAlias, FindTransaction, WriteAlias, FirstRowTaken,
           WriteVerdict, GiveUp, Seed, StartPass, PassStep, Book, CommitPass, FailPass
<1>3. TypeOK /\ IsFiniteSet(arrived) => Finite
  <2> SUFFICES ASSUME TypeOK, IsFiniteSet(arrived) PROVE IsFiniteSet(Booked)
    BY DEF Finite
  <2> DEFINE P == {q \in Payment : ledger[q] # None}
             line == [p \in P |-> Line(p)]
  <2>1. P \in SUBSET arrived
    BY DEF TypeOK
  <2>2. Booked = {Line(p) : p \in P}
    BY DEF Booked
  <2> HIDE DEF P
  <2>3. {Line(p) : p \in P} = {line[p] : p \in P}
    OBVIOUS
  <2> HIDE DEF line
  <2>4. IsFiniteSet(P)
    BY <2>1, FS_Subset
  <2>5. IsFiniteSet({line[p] : p \in P})
    BY <2>4, FiniteKeys
  <2> QED BY <2>2, <2>3, <2>5
<1> QED BY <1>1, <1>2, <1>3, Typed, PTL DEF Spec

\* Reports counts and adds up as Books does.
LEMMA SameCount ==
  /\ \A S : R!Cardinality(S) = Cardinality(S)
  /\ \A f : R!SumFunction(f) = SumFunction(f)
<1>1. \A S : R!Cardinality(S) = Cardinality(S)
  BY DEF R!Cardinality, Cardinality
<1>2. \A f : R!SumFunction(f) = SumFunction(f)
  BY DEF R!SumFunction, R!SumFunctionOnSet, R!FoldFunctionOnSet, R!MapThenFoldSet,
         SumFunction, SumFunctionOnSet, FoldFunctionOnSet, MapThenFoldSet
<1> QED BY <1>1, <1>2

\* A total is a sum over the amounts, for any part of what is booked.
LEMMA TotalIs ==
  ASSUME Finite
  PROVE  /\ \A t \in Booked : Amount[t] \in Int
         /\ \A T \in SUBSET Booked : IsFiniteSet(T) /\ R!Total(T) = SumFunctionOnSet(Amount, T)
<1>1. \A t \in Booked : Amount[t] \in Int
  BY BillAssumption DEF Booked, Line, Amount
<1>2. ASSUME NEW T \in SUBSET Booked
      PROVE  IsFiniteSet(T) /\ R!Total(T) = SumFunctionOnSet(Amount, T)
  <2> DEFINE mine == [t \in T |-> t.amount]
  <2>1. IsFiniteSet(T)
    BY FS_Subset DEF Finite
  <2>2. DOMAIN mine = T /\ \A t \in T : mine[t] = Amount[t]
    BY DEF Amount
  <2>3. R!Total(T) = SumFunctionOnSet(mine, T)
    <3>1. R!Total(T) = R!SumFunction(mine)
      BY DEF R!Total
    <3> HIDE DEF mine
    <3>2. R!SumFunction(mine) = SumFunction(mine)
      BY SameCount
    <3> QED BY <2>2, <3>1, <3>2 DEF SumFunction
  <2> HIDE DEF mine
  <2> QED BY <2>1, <2>2, <2>3, SumSame
<1> QED BY <1>1, <1>2

\* By whatever key a report splits a part of the transactions, its lines add up to that
\* part.
LEMMA LinesAddUp ==
  ASSUME Finite, NEW P \in SUBSET Booked, NEW key, NEW by,
         DOMAIN by = {key[t] : t \in P},
         \A k \in DOMAIN by : by[k] = R!Aggregate({t \in P : key[t] = k})
  PROVE  R!Sums(by) = R!Aggregate(P)
<1> DEFINE K == {key[t] : t \in P}
           Part(k) == {t \in P : key[t] = k}
<1>1. IsFiniteSet(P) /\ \A t \in P : Amount[t] \in Int
  BY TotalIs
<1>2. IsFiniteSet(K) /\ \A t \in P : key[t] \in K
  BY <1>1, FiniteKeys
<1>3. \A k \in K : /\ by[k].amount = SumFunctionOnSet(Amount, Part(k))
                   /\ by[k].count = Cardinality(Part(k))
  <2> TAKE k \in K
  <2>1. by[k] = R!Aggregate(Part(k)) /\ Part(k) \in SUBSET Booked
    OBVIOUS
  <2> HIDE DEF Part
  <2> QED BY <2>1, TotalIs, SameCount DEF R!Aggregate
<1>4. /\ [k \in DOMAIN by |-> by[k].amount] = [k \in K |-> SumFunctionOnSet(Amount, Part(k))]
      /\ [k \in DOMAIN by |-> by[k].count] = [k \in K |-> Cardinality(Part(k))]
  BY <1>3
<1>5. SumFunction([k \in K |-> SumFunctionOnSet(Amount, Part(k))]) = SumFunctionOnSet(Amount, P)
  BY ONLY <1>1, SumByKey
<1>6. SumFunction([k \in K |-> Cardinality(Part(k))]) = Cardinality(P)
  <2> HIDE DEF K
  <2> QED BY ONLY <1>1, <1>2, CountOfParts
<1>7. /\ SumFunction([k \in DOMAIN by |-> by[k].amount]) = R!Total(P)
      /\ SumFunction([k \in DOMAIN by |-> by[k].count]) = Cardinality(P)
  BY <1>4, <1>5, <1>6, TotalIs
<1> QED BY <1>7, SameCount DEF R!Sums, R!Aggregate

\* A month's report is about the transactions of that month.
LEMMA OfMonth ==
  ASSUME NEW ym \in Months
  PROVE  R!InMonth(Booked, ym[1], ym[2]) = {t \in Booked : MonthOf(t) = ym}
<1>1. PICK u \in Booked : ym = MonthOf(u)
  BY DEF Months
<1>2. u.paidAt \in Date
  BY BillAssumption DEF Booked, Line
<1>3. ym[1] \in Nat /\ ym[2] \in 1..12 /\ ym = <<ym[1], ym[2]>>
  BY <1>1, <1>2 DEF MonthOf, Date
<1>4. \A t \in Booked : t \in R!InMonth(Booked, ym[1], ym[2]) <=> MonthOf(t) = ym
  <2> TAKE t \in Booked
  <2>1. t \in R!InMonth(Booked, ym[1], ym[2]) <=> t.paidAt[1] = ym[1] /\ t.paidAt[2] = ym[2]
    BY <1>3, MonthsApart
  <2> QED BY <1>3, <2>1 DEF MonthOf
<1> QED BY <1>4 DEF R!InMonth

\* Within a month.
LEMMA MonthsSplit ==
  ASSUME Finite, NEW ym \in Months
  PROVE  MonthAddsUp(ym)
<1> DEFINE P == R!InMonth(Booked, ym[1], ym[2])
           In(c) == {t \in P : R!CategoryOf(t) = c}
           byCategory == [t \in Booked |-> R!CategoryOf(t)]
           byMethod == [t \in Booked |-> t.method]
           byMerchant == [t \in Booked |-> R!MerchantOf(t)]
<1>1. P \in SUBSET Booked
  BY DEF R!InMonth
<1>2. /\ Report(ym).total = R!Aggregate(P)
      /\ Report(ym).by_category = [c \in {R!CategoryOf(t) : t \in P} |-> R!Aggregate(In(c))]
      /\ Report(ym).by_method
           = [k \in {t.method : t \in P} |-> R!Aggregate({t \in P : t.method = k})]
  BY DEF Report, R!Monthly
<1> DEFINE Merchants(c) == [k \in {R!MerchantOf(t) : t \in In(c)} |->
                              R!Aggregate({t \in In(c) : R!MerchantOf(t) = k})]
<1>3. Detail(ym) = [c \in {R!CategoryOf(t) : t \in P} |->
                     [merchants |-> Merchants(c), total |-> R!Sums(Merchants(c))]]
  BY DEF Detail, R!Categories
<1> HIDE DEF P
<1>4. R!Sums(Report(ym).by_category) = Report(ym).total
  <2> DEFINE by == Report(ym).by_category
  <2>1. \A t \in P : byCategory[t] = R!CategoryOf(t)
    BY <1>1
  <2>2. DOMAIN by = {R!CategoryOf(t) : t \in P}
    BY <1>2
  <2>3. \A k \in DOMAIN by : by[k] = R!Aggregate({t \in P : R!CategoryOf(t) = k})
    BY <1>2, <2>2
  <2> HIDE DEF by, byCategory
  <2>4. DOMAIN by = {byCategory[t] : t \in P}
    BY <2>1, <2>2
  <2>5. \A k \in DOMAIN by : by[k] = R!Aggregate({t \in P : byCategory[t] = k})
    <3> TAKE k \in DOMAIN by
    <3>1. {t \in P : byCategory[t] = k} = {t \in P : R!CategoryOf(t) = k}
      BY <2>1
    <3> QED BY <2>3, <3>1
  <2>6. R!Sums(by) = R!Aggregate(P)
    BY <1>1, <2>4, <2>5, LinesAddUp
  <2> QED BY <1>2, <2>6 DEF by
<1>5. R!Sums(Report(ym).by_method) = Report(ym).total
  <2> DEFINE by == Report(ym).by_method
  <2>1. \A t \in P : byMethod[t] = t.method
    BY <1>1
  <2>2. DOMAIN by = {t.method : t \in P}
    BY <1>2
  <2>3. \A k \in DOMAIN by : by[k] = R!Aggregate({t \in P : t.method = k})
    BY <1>2, <2>2
  <2> HIDE DEF by, byMethod
  <2>4. DOMAIN by = {byMethod[t] : t \in P}
    BY <2>1, <2>2
  <2>5. \A k \in DOMAIN by : by[k] = R!Aggregate({t \in P : byMethod[t] = k})
    <3> TAKE k \in DOMAIN by
    <3>1. {t \in P : byMethod[t] = k} = {t \in P : t.method = k}
      BY <2>1
    <3> QED BY <2>3, <3>1
  <2>6. R!Sums(by) = R!Aggregate(P)
    BY <1>1, <2>4, <2>5, LinesAddUp
  <2> QED BY <1>2, <2>6 DEF by
<1>6. ASSUME NEW c \in DOMAIN Detail(ym)
      PROVE  Detail(ym)[c].total = Report(ym).by_category[c]
  <2>1. c \in {R!CategoryOf(t) : t \in P} /\ In(c) \in SUBSET Booked
    BY <1>1, <1>3
  <2> DEFINE by == Merchants(c)
  <2>2. Detail(ym)[c].total = R!Sums(by)
    <3> HIDE DEF Merchants
    <3> QED BY <1>3, <2>1
  <2>3. \A t \in In(c) : byMerchant[t] = R!MerchantOf(t)
    BY <1>1
  <2>4. DOMAIN by = {R!MerchantOf(t) : t \in In(c)}
    OBVIOUS
  <2>5. \A k \in DOMAIN by : by[k] = R!Aggregate({t \in In(c) : R!MerchantOf(t) = k})
    OBVIOUS
  <2>6. Report(ym).by_category[c] = R!Aggregate(In(c))
    BY <1>2, <2>1
  <2> HIDE DEF by, Merchants, byMerchant, In
  <2>7. DOMAIN by = {byMerchant[t] : t \in In(c)}
    BY <2>3, <2>4
  <2>8. \A k \in DOMAIN by : by[k] = R!Aggregate({t \in In(c) : byMerchant[t] = k})
    <3> TAKE k \in DOMAIN by
    <3>1. {t \in In(c) : byMerchant[t] = k} = {t \in In(c) : R!MerchantOf(t) = k}
      BY <2>3
    <3> QED BY <2>5, <3>1
  <2>9. R!Sums(by) = R!Aggregate(In(c))
    BY <2>1, <2>7, <2>8, LinesAddUp
  <2> QED BY <2>2, <2>6, <2>9
<1>7. DOMAIN Detail(ym) = DOMAIN Report(ym).by_category
  <2> HIDE DEF Merchants
  <2> QED BY <1>2, <1>3
<1> QED BY <1>4, <1>5, <1>6, <1>7 DEF MonthAddsUp

\* Over the months.
LEMMA MonthsCover ==
  ASSUME Finite
  PROVE  MonthsAddUp
<1> DEFINE month == [t \in Booked |-> MonthOf(t)]
           Flagged == {t \in Booked : t.review}
<1>1. /\ Months = {month[t] : t \in Booked} /\ IsFiniteSet(Months)
      /\ \A t \in Booked : month[t] \in Months
  <2>1. Months = {month[t] : t \in Booked}
    BY DEF Months
  <2> HIDE DEF month
  <2> QED BY <2>1, FiniteKeys DEF Finite
<1>2. SumFunction([ym \in Months |-> Report(ym).total.count]) = Cardinality(Booked)
  <2>1. ASSUME NEW ym \in Months
        PROVE  Report(ym).total.count = Cardinality({t \in Booked : month[t] = ym})
    <3>1. R!InMonth(Booked, ym[1], ym[2]) = {t \in Booked : month[t] = ym}
      BY OfMonth
    <3>2. Report(ym).total.count = Cardinality(R!InMonth(Booked, ym[1], ym[2]))
      BY SameCount DEF Report, R!Monthly, R!Aggregate
    <3> QED BY <3>1, <3>2
  <2>2. [ym \in Months |-> Report(ym).total.count]
          = [ym \in Months |-> Cardinality({t \in Booked : month[t] = ym})]
    BY <2>1
  <2>3. IsFiniteSet(Booked)
    BY DEF Finite
  <2> HIDE DEF month
  <2>4. SumFunction([ym \in Months |-> Cardinality({t \in Booked : month[t] = ym})])
          = Cardinality(Booked)
    BY ONLY <1>1, <2>3, CountOfParts
  <2> QED BY <2>2, <2>4
<1>3. SumFunction([ym \in Months |-> Report(ym).review]) = Cardinality(Flagged)
  <2>1. ASSUME NEW ym \in Months
        PROVE  Report(ym).review = Cardinality({t \in Flagged : month[t] = ym})
    <3>1. R!InMonth(Booked, ym[1], ym[2]) = {t \in Booked : month[t] = ym}
      BY OfMonth
    <3>2. {t \in {t \in Booked : month[t] = ym} : t.review} = {t \in Flagged : month[t] = ym}
      OBVIOUS
    <3>3. Report(ym).review = Cardinality({t \in R!InMonth(Booked, ym[1], ym[2]) : t.review})
      BY SameCount DEF Report, R!Monthly
    <3> QED BY <3>1, <3>2, <3>3
  <2>2. [ym \in Months |-> Report(ym).review]
          = [ym \in Months |-> Cardinality({t \in Flagged : month[t] = ym})]
    BY <2>1
  <2>3. IsFiniteSet(Flagged) /\ \A t \in Flagged : month[t] \in Months
    BY <1>1, FS_Subset DEF Finite
  <2> HIDE DEF month, Flagged
  <2>4. SumFunction([ym \in Months |-> Cardinality({t \in Flagged : month[t] = ym})])
          = Cardinality(Flagged)
    BY ONLY <1>1, <2>3, CountOfParts
  <2> QED BY <2>2, <2>4
<1>4. Cardinality(Flagged) = Cardinality(ReviewList)
  <2> DEFINE id == [t \in Flagged |-> t.id]
  <2>1. IsFiniteSet(Flagged)
    BY FS_Subset DEF Finite
  <2>2. \A t \in Flagged : id[t] \in ReviewList
    BY DEF Booked, Line, ReviewList
  <2>3. \A p \in ReviewList : \E t \in Flagged : id[t] = p
    <3> TAKE p \in ReviewList
    <3>1. Line(p) \in Flagged /\ Line(p).id = p
      BY DEF Booked, Line, ReviewList
    <3> QED BY <3>1
  <2>4. \A t, u \in Flagged : id[t] = id[u] => t = u
    BY DEF Booked, Line
  <2>5. id \in Bijection(Flagged, ReviewList)
    BY <2>2, <2>3, <2>4 DEF Bijection, Injection, Surjection, IsInjective
  <2>6. ExistsBijection(Flagged, ReviewList)
    BY <2>5 DEF ExistsBijection
  <2> HIDE DEF Flagged
  <2> QED BY <2>1, <2>6, FS_Bijection
<1> QED BY <1>2, <1>3, <1>4 DEF MonthsAddUp

\* Whatever has been booked, verified and filed anew, and whenever it is looked at: the
\* months together report every transaction once, and every breakdown of a month adds up
\* to what it breaks down (monthly_report.py:43-60, category_report.py:44-60).
THEOREM ReportsAddUp == Spec => []ReportsAgree
<1>1. Finite => ReportsAgree
  BY MonthsSplit, MonthsCover DEF ReportsAgree
<1> QED BY <1>1, FiniteAlways, PTL
=============================================================================
