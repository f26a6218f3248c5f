------------------------------ MODULE FoldProofs ---------------------------
(***************************************************************************)
(* Facts about finite sets and sums that the proofs of several components  *)
(* share.  Induction is stated over sets: a set of good numbers, or of good*)
(* subsets, that is closed under the step holds them all.                  *)
(***************************************************************************)
EXTENDS FiniteSetsExt, WellFoundedInduction, FiniteSetTheorems, TLAPS

(* Induction over the natural numbers.                                     *)
LEMMA NatInd ==
  ASSUME NEW G, 0 \in G, \A n \in Nat : n \in G => n + 1 \in G
  PROVE  \A n \in Nat : n \in G
<1> DEFINE Bad == Nat \ G
<1>1. SUFFICES ASSUME Bad # {} PROVE FALSE
  OBVIOUS
<1>2. \E m \in Bad : \A k \in Bad : ~(<<k, m>> \in OpToRel(<, Nat))
  <2>1. Bad \subseteq Nat OBVIOUS
  <2> HIDE DEF Bad
  <2> QED BY ONLY <1>1, <2>1, NatLessThanWellFounded, WFMin, Zenon
<1>3. PICK m \in Bad : \A k \in Bad : ~(<<k, m>> \in OpToRel(<, Nat))
  BY <1>2
<1>4. ASSUME NEW k \in Bad PROVE ~(k < m)
  BY <1>3 DEF OpToRel
<1>5. m # 0 /\ m - 1 \in Nat /\ m - 1 < m /\ (m - 1) + 1 = m
  OBVIOUS
<1>6. m - 1 \in G
  BY <1>4, <1>5
<1> QED BY <1>5, <1>6

(* Induction over the subsets of a finite set.                             *)
LEMMA SubsetInduction ==
  ASSUME NEW S, IsFiniteSet(S), NEW G \in SUBSET (SUBSET S),
         \A U \in SUBSET S : (\A V \in SUBSET U : V # U => V \in G) => U \in G
  PROVE  G = SUBSET S
<1> DEFINE Bad == (SUBSET S) \ G
<1>1. SUFFICES ASSUME Bad # {} PROVE FALSE
  OBVIOUS
<1>2. FiniteSubsetsOf(S) = SUBSET S
  BY FS_FiniteSubsetsOfFinite
<1>3. IsWellFoundedOn(StrictSubsetOrdering(S), SUBSET S)
  BY <1>2, FS_StrictSubsetOrderingWellFounded
<1>4. \E U \in Bad : \A V \in Bad : ~(<<V, U>> \in StrictSubsetOrdering(S))
  <2>1. Bad \subseteq SUBSET S OBVIOUS
  <2> HIDE DEF Bad
  <2> QED BY ONLY <1>1, <1>3, <2>1, WFMin, Zenon
<1>5. PICK U \in Bad : \A V \in Bad : <<V, U>> \notin StrictSubsetOrdering(S)
  BY <1>4
<1>6. ASSUME NEW V \in SUBSET U, V # U PROVE V \in G
  BY <1>5, <1>6 DEF StrictSubsetOrdering
<1> QED BY <1>5, <1>6

(***************************************************************************)
(* SumFunctionOnSet is a recursive function on the subsets: which it       *)
(* chooses first does not matter.                                          *)
(***************************************************************************)

Pick(s) == CHOOSE x \in s : TRUE
SumFrom(w, s, g) == IF s = {} THEN 0 ELSE w[Pick(s)] + g[s \ {Pick(s)}]
IsSum(w, S, g) == g = [s \in SUBSET S |-> SumFrom(w, s, g)]

(* What the operator of the community modules is defined to be.            *)
LEMMA SumIs ==
  ASSUME NEW w, NEW S
  PROVE  SumFunctionOnSet(w, S) = (CHOOSE g : g = [s \in SUBSET S |-> SumFrom(w, s, g)])[S]
  BY Zenon DEF SumFunctionOnSet, FoldFunctionOnSet, MapThenFoldSet, SumFrom, Pick

(* The subsets of at most n elements.                                      *)
Layer(S, n) == {s \in SUBSET S : Cardinality(s) <= n}

(* The choice is an element.                                               *)
LEMMA PickIn == ASSUME NEW s, s # {} PROVE Pick(s) \in s
  BY DEF Pick

(* Without the chosen element a set is smaller.                            *)
LEMMA Smaller ==
  ASSUME NEW S, IsFiniteSet(S), NEW s \in SUBSET S, s # {}
  PROVE  /\ s \ {Pick(s)} \in SUBSET S
         /\ Cardinality(s) \in Nat
         /\ Cardinality(s \ {Pick(s)}) = Cardinality(s) - 1
         /\ Cardinality(s \ {Pick(s)}) \in Nat
         /\ s \ {Pick(s)} # s
<1>1. Pick(s) \in s BY PickIn
<1>2. IsFiniteSet(s) BY FS_Subset
<1>3. Cardinality(s) \in Nat /\ Cardinality(s \ {Pick(s)}) = Cardinality(s) - 1
  BY <1>1, <1>2, FS_RemoveElement, FS_CardinalityType
<1>4. IsFiniteSet(s \ {Pick(s)})
  BY <1>1, <1>2, FS_RemoveElement
<1>5. Cardinality(s \ {Pick(s)}) \in Nat
  BY <1>4, FS_CardinalityType
<1> QED BY <1>1, <1>3, <1>5

(* The recursion defines a function, built up layer by layer, and only one.*)
LEMMA SumFunctionExists ==
  ASSUME NEW w, NEW S, IsFiniteSet(S)
  PROVE  \E g : IsSum(w, S, g)
<1> DEFINE Part(n, g) == g = [s \in Layer(S, n) |-> SumFrom(w, s, g)]
           G == {n \in Nat : \E g : Part(n, g)}
<1>1. 0 \in G
  <2> DEFINE g == [s \in Layer(S, 0) |-> 0]
  <2>1. ASSUME NEW s \in Layer(S, 0) PROVE s = {}
    <3>1. s \in SUBSET S /\ Cardinality(s) <= 0 BY DEF Layer
    <3>2. IsFiniteSet(s) BY <3>1, FS_Subset
    <3>3. Cardinality(s) \in Nat BY <3>2, FS_CardinalityType
    <3> QED BY <3>1, <3>2, <3>3, FS_EmptySet
  <2>2. Part(0, g) BY <2>1 DEF SumFrom
  <2> HIDE DEF g
  <2> QED BY <2>2
<1>2. ASSUME NEW n \in Nat, n \in G PROVE n + 1 \in G
  <2>1. PICK g : Part(n, g) BY <1>2
  <2> DEFINE h == [s \in Layer(S, n + 1) |-> IF s \in Layer(S, n) THEN g[s] ELSE SumFrom(w, s, g)]
  <2>2. ASSUME NEW s \in Layer(S, n + 1) PROVE h[s] = SumFrom(w, s, h)
    <3>1. h[s] = SumFrom(w, s, g)
      <4>1. s \in Layer(S, n) => g[s] = SumFrom(w, s, g) BY <2>1
      <4> QED BY <4>1
    <3>2. CASE s = {} BY <3>1, <3>2 DEF SumFrom
    <3>3. CASE s # {}
      <4> DEFINE r == s \ {Pick(s)}
      <4>1. s \in SUBSET S /\ Cardinality(s) <= n + 1 BY DEF Layer
      <4>2. r \in SUBSET S /\ Cardinality(r) = Cardinality(s) - 1
            /\ Cardinality(s) \in Nat /\ Cardinality(r) \in Nat
        BY <4>1, <3>3, Smaller
      <4>3. Cardinality(r) <= n /\ Cardinality(r) <= n + 1 BY <4>1, <4>2
      <4>4. r \in Layer(S, n) /\ r \in Layer(S, n + 1) BY <4>2, <4>3 DEF Layer
      <4>5. h[r] = g[r] BY <4>4
      <4> QED BY <3>1, <3>3, <4>5 DEF SumFrom
    <3> QED BY <3>2, <3>3
  <2>3. Part(n + 1, h)
    <3>1. h = [s \in Layer(S, n + 1) |-> h[s]] OBVIOUS
    <3> HIDE DEF h
    <3> QED BY <2>2, <3>1
  <2> HIDE DEF h
  <2> QED BY <2>3
<1>3. \A n \in Nat : n \in G
  <2> HIDE DEF G
  <2> QED BY <1>1, <1>2, NatInd
<1>4. Cardinality(S) \in G BY <1>3, FS_CardinalityType
<1>5. Layer(S, Cardinality(S)) = SUBSET S
  BY FS_Subset DEF Layer
<1> QED BY <1>4, <1>5 DEF IsSum

(* Recursive functions for two sets agree on the sets both have.           *)
LEMMA SumFunctionUnique ==
  ASSUME NEW w, NEW S, IsFiniteSet(S), NEW T \in SUBSET S,
         NEW g, IsSum(w, S, g), NEW h, IsSum(w, T, h)
  PROVE  \A s \in SUBSET T : g[s] = h[s]
<1> DEFINE G == {s \in SUBSET T : g[s] = h[s]}
<1>1. IsFiniteSet(T) BY FS_Subset
<1>2. ASSUME NEW U \in SUBSET T, \A V \in SUBSET U : V # U => V \in G PROVE U \in G
  <2>1. g[U] = SumFrom(w, U, g) /\ h[U] = SumFrom(w, U, h) BY DEF IsSum
  <2>2. CASE U = {} BY <2>1, <2>2 DEF SumFrom
  <2>3. CASE U # {}
    <3>1. U \ {Pick(U)} \in G
      BY <1>1, <1>2, <2>3, PickIn
    <3> QED BY <2>1, <2>3, <3>1 DEF SumFrom
  <2> QED BY <2>2, <2>3
<1>3. G = SUBSET T
  <2>1. G \in SUBSET SUBSET T OBVIOUS
  <2> HIDE DEF G
  <2> QED BY <1>1, <1>2, <2>1, SubsetInduction
<1> QED BY <1>3

(* The sum is the value of such a function.                                *)
LEMMA SumIter ==
  ASSUME NEW w, NEW S, IsFiniteSet(S)
  PROVE  \E g : IsSum(w, S, g) /\ SumFunctionOnSet(w, S) = g[S]
<1> DEFINE g == CHOOSE g : IsSum(w, S, g)
<1>1. IsSum(w, S, g) BY SumFunctionExists, Zenon
<1>2. SumFunctionOnSet(w, S) = g[S] BY SumIs, Zenon DEF IsSum
<1> QED BY <1>1, <1>2, Zenon

(* The equations of the sum.                                               *)
LEMMA SumEquation ==
  ASSUME NEW w, NEW S, IsFiniteSet(S)
  PROVE  /\ S = {} => SumFunctionOnSet(w, S) = 0
         /\ S # {} => SumFunctionOnSet(w, S) = w[Pick(S)] + SumFunctionOnSet(w, S \ {Pick(S)})
<1> DEFINE T == S \ {Pick(S)}
<1>1. PICK g : IsSum(w, S, g) /\ SumFunctionOnSet(w, S) = g[S] BY SumIter
<1>2. IsFiniteSet(T) BY FS_Subset
<1>3. PICK h : IsSum(w, T, h) /\ SumFunctionOnSet(w, T) = h[T] BY <1>2, SumIter
<1>4. g[S] = SumFrom(w, S, g) BY <1>1 DEF IsSum
<1>5. g[T] = h[T] BY <1>1, <1>3, SumFunctionUnique
<1> QED BY <1>1, <1>3, <1>4, <1>5 DEF SumFrom

(* A sum of integers is an integer.                                        *)
LEMMA SumType ==
  ASSUME NEW w, NEW S, IsFiniteSet(S), \A x \in S : w[x] \in Int
  PROVE  \A U \in SUBSET S : SumFunctionOnSet(w, U) \in Int
<1> DEFINE G == {U \in SUBSET S : SumFunctionOnSet(w, U) \in Int}
<1>1. ASSUME NEW U \in SUBSET S, \A V \in SUBSET U : V # U => V \in G PROVE U \in G
  <2>1. IsFiniteSet(U) BY FS_Subset
  <2>2. CASE U = {}
    <3>1. SumFunctionOnSet(w, U) = 0 BY <2>1, <2>2, SumEquation
    <3> QED BY <3>1
  <2>3. CASE U # {}
    <3>1. Pick(U) \in U BY <2>3, PickIn
    <3>2. U \ {Pick(U)} \in G BY <1>1, <3>1
    <3>3. SumFunctionOnSet(w, U) = w[Pick(U)] + SumFunctionOnSet(w, U \ {Pick(U)})
      BY <2>1, <2>3, SumEquation
    <3>4. w[Pick(U)] \in Int BY <3>1
    <3> QED BY <3>2, <3>3, <3>4
  <2> QED BY <2>2, <2>3
<1>2. G = SUBSET S
  <2>1. G \in SUBSET SUBSET S OBVIOUS
  <2> HIDE DEF G
  <2> QED BY <1>1, <2>1, SubsetInduction
<1> QED BY <1>2

(* Any element may be taken first.                                         *)
LEMMA SumRemove ==
  ASSUME NEW w, NEW S, IsFiniteSet(S), \A x \in S : w[x] \in Int
  PROVE  \A U \in SUBSET S : \A x \in U :
           SumFunctionOnSet(w, U) = w[x] + SumFunctionOnSet(w, U \ {x})
<1> DEFINE Sum(U) == SumFunctionOnSet(w, U)
           G == {U \in SUBSET S : \A x \in U : Sum(U) = w[x] + Sum(U \ {x})}
<1>1. ASSUME NEW U \in SUBSET S, \A V \in SUBSET U : V # U => V \in G PROVE U \in G
  <2> SUFFICES ASSUME NEW x \in U PROVE Sum(U) = w[x] + Sum(U \ {x})
    OBVIOUS
  <2> DEFINE c == Pick(U)
  <2>1. IsFiniteSet(U) BY FS_Subset
  <2>2. c \in U BY PickIn
  <2>3. Sum(U) = w[c] + Sum(U \ {c}) BY <2>1, SumEquation
  <2>4. CASE x = c BY <2>3, <2>4
  <2>5. CASE x # c
    <3> HIDE DEF c, Sum
    <3>1. U \ {c} \in G /\ U \ {x} \in G BY <1>1, <2>2
    <3>2. Sum(U \ {c}) = w[x] + Sum((U \ {c}) \ {x}) BY <3>1, <2>5
    <3>3. Sum(U \ {x}) = w[c] + Sum((U \ {x}) \ {c}) BY <3>1, <2>2, <2>5
    <3>4. (U \ {c}) \ {x} = (U \ {x}) \ {c} OBVIOUS
    <3>5. Sum((U \ {x}) \ {c}) \in Int BY SumType DEF Sum
    <3>6. w[x] \in Int /\ w[c] \in Int BY <2>2
    <3>7. PICK r \in Int : r = Sum((U \ {x}) \ {c}) BY <3>5
    <3>8. Sum(U \ {c}) = w[x] + r BY <3>2, <3>4, <3>7, Zenon
    <3>9. Sum(U) = w[c] + (w[x] + r) BY <2>3, <3>8
    <3>10. Sum(U \ {x}) = w[c] + r BY <3>3, <3>7, Zenon
    <3> QED BY ONLY <3>6, <3>9, <3>10, r \in Int
  <2> QED BY <2>4, <2>5
<1>2. G = SUBSET S
  <2>1. G \in SUBSET SUBSET S OBVIOUS
  <2> HIDE DEF G
  <2> QED BY <1>1, <2>1, SubsetInduction
<1> QED BY <1>2

(* Functions that agree on a set have the same sum over it.                *)
LEMMA SumAgree ==
  ASSUME NEW w, NEW v, NEW S, IsFiniteSet(S), \A x \in S : w[x] = v[x]
  PROVE  SumFunctionOnSet(w, S) = SumFunctionOnSet(v, S)
<1> DEFINE G == {U \in SUBSET S : SumFunctionOnSet(w, U) = SumFunctionOnSet(v, U)}
<1>1. ASSUME NEW U \in SUBSET S, \A V \in SUBSET U : V # U => V \in G PROVE U \in G
  <2>1. IsFiniteSet(U) BY FS_Subset
  <2>2. CASE U = {} BY <2>1, <2>2, SumEquation
  <2>3. CASE U # {}
    <3>1. Pick(U) \in U BY <2>3, PickIn
    <3>2. U \ {Pick(U)} \in G BY <1>1, <3>1
    <3>3. /\ SumFunctionOnSet(w, U) = w[Pick(U)] + SumFunctionOnSet(w, U \ {Pick(U)})
          /\ SumFunctionOnSet(v, U) = v[Pick(U)] + SumFunctionOnSet(v, U \ {Pick(U)})
      BY <2>1, <2>3, SumEquation
    <3> QED BY <3>1, <3>2, <3>3
  <2> QED BY <2>2, <2>3
<1>2. G = SUBSET S
  <2>1. G \in SUBSET SUBSET S OBVIOUS
  <2> HIDE DEF G
  <2> QED BY <1>1, <2>1, SubsetInduction
<1> QED BY <1>2

(* Adding an element adds its value.                                       *)
LEMMA SumAdd ==
  ASSUME NEW w, NEW S, IsFiniteSet(S), NEW x, x \notin S,
         \A y \in S \cup {x} : w[y] \in Int
  PROVE  SumFunctionOnSet(w, S \cup {x}) = SumFunctionOnSet(w, S) + w[x]
<1> DEFINE T == S \cup {x}
<1>1. IsFiniteSet(T) BY FS_AddElement
<1>2. SumFunctionOnSet(w, T) = w[x] + SumFunctionOnSet(w, T \ {x})
  BY <1>1, SumRemove
<1>3. T \ {x} = S OBVIOUS
<1>4. SumFunctionOnSet(w, S) \in Int BY <1>1, SumType
<1>5. w[x] \in Int OBVIOUS
<1>6. SumFunctionOnSet(w, T) = w[x] + SumFunctionOnSet(w, S) BY <1>2, <1>3, Zenon
<1> QED BY ONLY <1>4, <1>5, <1>6

(* Changing the value of one element changes the sum by as much.           *)
LEMMA SumChange ==
  ASSUME NEW w, NEW v, NEW S, IsFiniteSet(S), NEW x \in S,
         \A y \in S : w[y] \in Int /\ v[y] \in Int,
         \A y \in S \ {x} : v[y] = w[y]
  PROVE  SumFunctionOnSet(v, S) = SumFunctionOnSet(w, S) + (v[x] - w[x])
<1> DEFINE T == S \ {x}
<1>1. IsFiniteSet(T) BY FS_Subset
<1>2. SumFunctionOnSet(v, T) = SumFunctionOnSet(w, T)
  <2> HIDE DEF T
  <2>1. \A y \in T : v[y] = w[y] BY DEF T
  <2> QED BY <1>1, <2>1, SumAgree
<1>3. PICK r \in Int : r = SumFunctionOnSet(w, T) BY SumType
<1>4. SumFunctionOnSet(w, S) = w[x] + r BY <1>3, SumRemove
<1>5. SumFunctionOnSet(v, S) = v[x] + r
  <2>1. SumFunctionOnSet(v, S) = v[x] + SumFunctionOnSet(v, T) BY SumRemove
  <2> QED BY <1>2, <1>3, <2>1, Zenon
<1>6. w[x] \in Int /\ v[x] \in Int OBVIOUS
<1> QED BY ONLY <1>4, <1>5, <1>6, r \in Int

(* A sum of zeros is zero.                                                 *)
LEMMA SumOfZeros ==
  ASSUME NEW w, NEW S, IsFiniteSet(S), \A x \in S : w[x] = 0
  PROVE  SumFunctionOnSet(w, S) = 0
<1> DEFINE G == {U \in SUBSET S : SumFunctionOnSet(w, U) = 0}
<1>1. ASSUME NEW U \in SUBSET S, \A V \in SUBSET U : V # U => V \in G PROVE U \in G
  <2>1. IsFiniteSet(U) BY FS_Subset
  <2>2. CASE U = {} BY <2>1, <2>2, SumEquation
  <2>3. CASE U # {}
    <3>1. Pick(U) \in U BY <2>3, PickIn
    <3>2. U \ {Pick(U)} \in G BY <1>1, <3>1
    <3>3. SumFunctionOnSet(w, U) = w[Pick(U)] + SumFunctionOnSet(w, U \ {Pick(U)})
      BY <2>1, <2>3, SumEquation
    <3>4. w[Pick(U)] = 0 BY <3>1
    <3> QED BY <3>2, <3>3, <3>4
  <2> QED BY <2>2, <2>3
<1>2. G = SUBSET S
  <2>1. G \in SUBSET SUBSET S OBVIOUS
  <2> HIDE DEF G
  <2> QED BY <1>1, <2>1, SubsetInduction
<1> QED BY <1>2

(* A finite set that is not empty has a first element in any total order.  *)
LEMMA FirstOfFinite ==
  ASSUME NEW S, IsFiniteSet(S), NEW R,
         \A x, y \in S : <<x, y>> \in R \/ <<y, x>> \in R,
         \A x, y, z \in S : <<x, y>> \in R /\ <<y, z>> \in R => <<x, z>> \in R,
         S # {}
  PROVE  \E x \in S : \A y \in S : <<x, y>> \in R
<1> DEFINE G == {U \in SUBSET S : U # {} => \E x \in U : \A y \in U : <<x, y>> \in R}
<1>1. ASSUME NEW U \in SUBSET S, \A V \in SUBSET U : V # U => V \in G PROVE U \in G
  <2> SUFFICES ASSUME U # {} PROVE \E x \in U : \A y \in U : <<x, y>> \in R
    OBVIOUS
  <2>1. PICK x : x \in U OBVIOUS
  <2>2. U \ {x} \in G BY <1>1, <2>1
  <2>3. CASE U \ {x} = {} BY <2>1, <2>3
  <2>4. CASE U \ {x} # {}
    <3>1. PICK z \in U \ {x} : \A y \in U \ {x} : <<z, y>> \in R BY <2>2, <2>4
    <3>2. CASE <<z, x>> \in R BY <3>1, <3>2
    <3>3. CASE <<x, z>> \in R BY <2>1, <3>1, <3>3
    <3> QED BY <2>1, <3>1, <3>2, <3>3
  <2> QED BY <2>3, <2>4
<1>2. G = SUBSET S
  <2>1. G \in SUBSET SUBSET S OBVIOUS
  <2> HIDE DEF G
  <2> QED BY <1>1, <2>1, SubsetInduction
<1> QED BY <1>2

(* What Min returns.                                                       *)
LEMMA MinIs ==
  ASSUME NEW S \in SUBSET Int, IsFiniteSet(S), S # {}
  PROVE  Min(S) \in S /\ \A y \in S : Min(S) <= y
<1>1. \E x \in S : \A y \in S : x <= y
  <2> DEFINE R == {p \in Int \X Int : p[1] <= p[2]}
  <2>1. \A x, y \in S : <<x, y>> \in R <=> x <= y OBVIOUS
  <2>2. \A x, y \in S : x <= y \/ y <= x OBVIOUS
  <2>3. \A x, y, z \in S : x <= y /\ y <= z => x <= z OBVIOUS
  <2> HIDE DEF R
  <2>4. \E x \in S : \A y \in S : <<x, y>> \in R BY <2>1, <2>2, <2>3, FirstOfFinite
  <2> QED BY <2>1, <2>4
<1> QED BY <1>1, Zenon DEF Min

(* What Max returns.                                                       *)
LEMMA MaxIs ==
  ASSUME NEW S \in SUBSET Int, IsFiniteSet(S), S # {}
  PROVE  Max(S) \in S /\ \A y \in S : Max(S) >= y
<1>1. \E x \in S : \A y \in S : x >= y
  <2> DEFINE R == {p \in Int \X Int : p[1] >= p[2]}
  <2>1. \A x, y \in S : <<x, y>> \in R <=> x >= y OBVIOUS
  <2>2. \A x, y \in S : x >= y \/ y >= x OBVIOUS
  <2>3. \A x, y, z \in S : x >= y /\ y >= z => x >= z OBVIOUS
  <2> HIDE DEF R
  <2>4. \E x \in S : \A y \in S : <<x, y>> \in R BY <2>1, <2>2, <2>3, FirstOfFinite
  <2> QED BY <2>1, <2>4
<1> QED BY <1>1, Zenon DEF Max

(* The same for the values of a function on the set.                       *)
LEMMA LeastValue ==
  ASSUME NEW S, IsFiniteSet(S), S # {}, NEW f, \A x \in S : f[x] \in Int
  PROVE  /\ \E x \in S : \A y \in S : f[x] <= f[y]
         /\ \E x \in S : \A y \in S : f[x] >= f[y]
<1> DEFINE R == {p \in S \X S : f[p[1]] <= f[p[2]]}
           Q == {p \in S \X S : f[p[1]] >= f[p[2]]}
<1>1. \A x, y \in S : (<<x, y>> \in R <=> f[x] <= f[y]) /\ (<<x, y>> \in Q <=> f[x] >= f[y])
  OBVIOUS
<1>2. \A x, y \in S : (f[x] <= f[y] \/ f[y] <= f[x]) /\ (f[x] >= f[y] \/ f[y] >= f[x])
  OBVIOUS
<1>3. \A x, y, z \in S : /\ f[x] <= f[y] /\ f[y] <= f[z] => f[x] <= f[z]
                         /\ f[x] >= f[y] /\ f[y] >= f[z] => f[x] >= f[z]
  OBVIOUS
<1> HIDE DEF R, Q
<1>4. \A x, y \in S : (<<x, y>> \in R \/ <<y, x>> \in R) /\ (<<x, y>> \in Q \/ <<y, x>> \in Q)
  BY <1>1, <1>2, Zenon
<1>5. \A x, y, z \in S : /\ <<x, y>> \in R /\ <<y, z>> \in R => <<x, z>> \in R
                         /\ <<x, y>> \in Q /\ <<y, z>> \in Q => <<x, z>> \in Q
  BY <1>1, <1>3, Zenon
<1>6. \E x \in S : \A y \in S : <<x, y>> \in R BY <1>4, <1>5, FirstOfFinite
<1>7. \E x \in S : \A y \in S : <<x, y>> \in Q BY <1>4, <1>5, FirstOfFinite
<1> QED BY <1>1, <1>6, <1>7, Zenon

(***************************************************************************)
(* FoldLeft is a recursive function on the subsets of the domain, the last *)
(* index first.  A step that keeps to a set X has such a function.         *)
(***************************************************************************)

FoldFrom(F, base, s, g) == IF s = {} THEN base ELSE F[Max(s)][g[s \ {Max(s)}]]

IsFold(F, base, n, X, g) ==
  /\ g \in [SUBSET (1 .. n) -> X]
  /\ \A s \in SUBSET (1 .. n) : g[s] = FoldFrom(F, base, s, g)

(* The last index of an initial segment, and what is before it.            *)
LEMMA Segment ==
  ASSUME NEW i \in Nat \ {0}
  PROVE  /\ Max(1 .. i) = i /\ (1 .. i) \ {i} = 1 .. i - 1 /\ 1 .. i # {}
<1>1. IsFiniteSet(1 .. i) BY FS_Interval
<1>2. 1 .. i \in SUBSET Int /\ 1 .. i # {} OBVIOUS
<1>3. Max(1 .. i) \in 1 .. i /\ \A y \in 1 .. i : Max(1 .. i) >= y BY <1>1, <1>2, MaxIs
<1>4. Max(1 .. i) = i
  <2> DEFINE m == Max(1 .. i)
  <2>1. m \in 1 .. i /\ m >= i BY <1>3
  <2> HIDE DEF m
  <2> QED BY <2>1 DEF m
<1> QED BY <1>2, <1>4

(* The recursion defines a function, built up layer by layer.              *)
LEMMA FoldExists ==
  ASSUME NEW n \in Nat, NEW X, NEW base \in X, NEW F, \A x \in X, i \in 1 .. n : F[i][x] \in X
  PROVE  \E g : IsFold(F, base, n, X, g)
<1> DEFINE S == 1 .. n
           Part(m, g) == /\ g \in [Layer(S, m) -> X]
                         /\ \A s \in Layer(S, m) : g[s] = FoldFrom(F, base, s, g)
           G == {m \in Nat : \E g : Part(m, g)}
<1>0. IsFiniteSet(S) BY FS_Interval
<1>a. ASSUME NEW s \in SUBSET S, s # {}
      PROVE  /\ Max(s) \in s /\ Max(s) \in 1 .. n
             /\ s \ {Max(s)} \in SUBSET S
             /\ Cardinality(s) \in Nat /\ Cardinality(s \ {Max(s)}) \in Nat
             /\ Cardinality(s \ {Max(s)}) = Cardinality(s) - 1
  <2>1. IsFiniteSet(s) BY <1>0, FS_Subset
  <2>2. s \in SUBSET Int OBVIOUS
  <2>3. Max(s) \in s BY <1>a, <2>1, <2>2, MaxIs
  <2>4. IsFiniteSet(s \ {Max(s)}) /\ Cardinality(s \ {Max(s)}) = Cardinality(s) - 1
    BY <2>1, <2>3, FS_RemoveElement
  <2>5. Cardinality(s) \in Nat /\ Cardinality(s \ {Max(s)}) \in Nat BY <2>1, <2>4, FS_CardinalityType
  <2> QED BY <2>3, <2>4, <2>5
<1> HIDE DEF S
<1>1. 0 \in G
  <2> DEFINE g == [s \in Layer(S, 0) |-> base]
  <2>1. ASSUME NEW s \in Layer(S, 0) PROVE s = {}
    <3>1. s \in SUBSET S /\ Cardinality(s) <= 0 BY DEF Layer
    <3>2. IsFiniteSet(s) BY <1>0, <3>1, FS_Subset
    <3>3. Cardinality(s) \in Nat BY <3>2, FS_CardinalityType
    <3> QED BY <3>1, <3>2, <3>3, FS_EmptySet
  <2>2. Part(0, g) BY <2>1 DEF FoldFrom
  <2> HIDE DEF g
  <2> QED BY <2>2
<1>2. ASSUME NEW m \in Nat, m \in G PROVE m + 1 \in G
  <2>1. PICK g : Part(m, g) BY <1>2
  <2> DEFINE h == [s \in Layer(S, m + 1) |-> IF s \in Layer(S, m) THEN g[s] ELSE FoldFrom(F, base, s, g)]
  <2>2. ASSUME NEW s \in Layer(S, m + 1) PROVE h[s] = FoldFrom(F, base, s, h) /\ h[s] \in X
    <3>1. h[s] = FoldFrom(F, base, s, g)
      <4>1. s \in Layer(S, m) => g[s] = FoldFrom(F, base, s, g) BY <2>1
      <4> QED BY <4>1
    <3>2. CASE s = {} BY <3>1, <3>2 DEF FoldFrom
    <3>3. CASE s # {}
      <4> DEFINE r == s \ {Max(s)}
      <4>1. s \in SUBSET S /\ Cardinality(s) <= m + 1 BY DEF Layer
      <4>2. /\ r \in SUBSET S /\ Cardinality(r) = Cardinality(s) - 1
            /\ Cardinality(s) \in Nat /\ Cardinality(r) \in Nat /\ Max(s) \in 1 .. n
        BY <1>a, <4>1, <3>3
      <4>3. Cardinality(r) <= m /\ Cardinality(r) <= m + 1 BY <4>1, <4>2
      <4>4. r \in Layer(S, m) /\ r \in Layer(S, m + 1) BY <4>2, <4>3 DEF Layer
      <4>5. h[r] = g[r] /\ g[r] \in X
        <5>1. g[r] \in X BY <2>1, <4>4
        <5>2. h[r] = g[r] BY <4>4
        <5> QED BY <5>1, <5>2
      <4> HIDE DEF h
      <4>6. F[Max(s)][g[r]] \in X BY <4>2, <4>5
      <4> QED BY <3>1, <3>3, <4>5, <4>6 DEF FoldFrom
    <3> QED BY <3>2, <3>3
  <2>3. Part(m + 1, h)
    <3>1. h = [s \in Layer(S, m + 1) |-> h[s]] OBVIOUS
    <3> HIDE DEF h
    <3>2. h \in [Layer(S, m + 1) -> X] BY <2>2, <3>1
    <3> QED BY <2>2, <3>2
  <2> HIDE DEF h
  <2> QED BY <2>3
<1>3. \A m \in Nat : m \in G
  <2> HIDE DEF G
  <2> QED BY <1>1, <1>2, NatInd
<1>4. Cardinality(S) \in G BY <1>0, <1>3, FS_CardinalityType
<1>5. Layer(S, Cardinality(S)) = SUBSET S
  BY <1>0, FS_Subset DEF Layer
<1>6. PICK g : Part(Cardinality(S), g) BY <1>4
<1> QED BY <1>5, <1>6 DEF S, IsFold


(* The recursion reaches, on each subset, what R allows for it: R allows   *)
(* the base for the empty set, and the next step wherever it allowed the   *)
(* one before.  The steps need not keep to X elsewhere.                    *)
Reaches(F, base, n, X, R, g) ==
  /\ g \in [SUBSET (1 .. n) -> X] /\ g[{}] = base
  /\ \A s \in SUBSET (1 .. n) : /\ <<s, g[s]>> \in R
                                /\ s # {} => g[s] = F[Max(s)][g[s \ {Max(s)}]]

LEMMA FoldReaches ==
  ASSUME NEW n \in Nat, NEW X, NEW base \in X, NEW F, NEW R, <<{}, base>> \in R,
         \A s \in SUBSET (1 .. n), x \in X :
           s # {} /\ <<s \ {Max(s)}, x>> \in R => F[Max(s)][x] \in X /\ <<s, F[Max(s)][x]>> \in R
  PROVE  \E g : Reaches(F, base, n, X, R, g)
<1> DEFINE K == [i \in 1 .. n |-> [x \in X |-> IF F[i][x] \in X THEN F[i][x] ELSE base]]
<1>1. \A x \in X, i \in 1 .. n : K[i][x] \in X /\ (F[i][x] \in X => K[i][x] = F[i][x])
  OBVIOUS
<1> HIDE DEF K
<1>2. PICK g : IsFold(K, base, n, X, g)
  <2>1. \A x \in X, i \in 1 .. n : K[i][x] \in X BY <1>1
  <2> QED BY <2>1, FoldExists
<1>3. /\ g \in [SUBSET (1 .. n) -> X]
      /\ \A s \in SUBSET (1 .. n) : g[s] = FoldFrom(K, base, s, g)
  BY <1>2 DEF IsFold
<1>4. g[{}] = base BY <1>3 DEF FoldFrom
<1>5. ASSUME NEW s \in SUBSET (1 .. n), s # {}
      PROVE  Max(s) \in 1 .. n /\ Max(s) \in s /\ s \ {Max(s)} \in SUBSET (1 .. n)
  <2>1. IsFiniteSet(s) /\ s \in SUBSET Int
    <3>1. IsFiniteSet(1 .. n) BY FS_Interval
    <3>2. IsFiniteSet(s) BY <3>1, FS_Subset
    <3>3. s \in SUBSET Int OBVIOUS
    <3> QED BY <3>2, <3>3
  <2>2. Max(s) \in s BY <1>5, <2>1, MaxIs
  <2> QED BY <2>2
<1>6. ASSUME NEW s \in SUBSET (1 .. n), s # {}, <<s \ {Max(s)}, g[s \ {Max(s)}]>> \in R
      PROVE  <<s, g[s]>> \in R /\ g[s] = F[Max(s)][g[s \ {Max(s)}]]
  <2> DEFINE m == Max(s)
             x == g[s \ {m}]
  <2>1. m \in 1 .. n /\ s \ {m} \in SUBSET (1 .. n) BY <1>5, <1>6
  <2>2. x \in X BY <1>3, <2>1
  <2>3. F[m][x] \in X /\ <<s, F[m][x]>> \in R BY <1>6, <2>2
  <2>4. g[s] = K[m][x] BY <1>3, <1>6 DEF FoldFrom
  <2> HIDE DEF m, x
  <2>5. g[s] = F[m][x] BY <1>1, <2>1, <2>2, <2>3, <2>4
  <2> QED BY <2>3, <2>5 DEF m, x
<1> DEFINE G == {s \in SUBSET (1 .. n) : <<s, g[s]>> \in R}
<1>7. ASSUME NEW U \in SUBSET (1 .. n), \A V \in SUBSET U : V # U => V \in G PROVE U \in G
  <2>1. CASE U = {} BY <1>4, <2>1
  <2>2. CASE U # {}
    <3>1. U \ {Max(U)} \in G BY <1>5, <1>7, <2>2
    <3> QED BY <1>6, <2>2, <3>1
  <2> QED BY <2>1, <2>2
<1>8. G = SUBSET (1 .. n)
  <2>1. G \in SUBSET SUBSET (1 .. n) OBVIOUS
  <2>2. IsFiniteSet(1 .. n) BY FS_Interval
  <2> HIDE DEF G
  <2> QED BY <1>7, <2>1, <2>2, SubsetInduction
<1>9. \A s \in SUBSET (1 .. n) : /\ <<s, g[s]>> \in R
                                 /\ s # {} => g[s] = F[Max(s)][g[s \ {Max(s)}]]
  <2> SUFFICES ASSUME NEW s \in SUBSET (1 .. n)
               PROVE  <<s, g[s]>> \in R /\ (s # {} => g[s] = F[Max(s)][g[s \ {Max(s)}]])
    OBVIOUS
  <2>1. s \in G BY <1>8
  <2>2. ASSUME s # {} PROVE s \ {Max(s)} \in G BY <1>8
  <2> QED BY <1>6, <2>1, <2>2
<1> QED BY <1>3, <1>4, <1>9 DEF Reaches


(* Two recursions that agree on the next step whenever they agreed on the  *)
(* one before have the same end.                                           *)
LEMMA SameFold ==
  ASSUME NEW n \in Nat, NEW g, NEW h, g[{}] = h[{}],
         \A U \in SUBSET (1 .. n) : U # {} /\ g[U \ {Max(U)}] = h[U \ {Max(U)}] => g[U] = h[U]
  PROVE  g[1 .. n] = h[1 .. n]
<1> DEFINE G == {U \in SUBSET (1 .. n) : g[U] = h[U]}
<1>1. IsFiniteSet(1 .. n) /\ G \in SUBSET SUBSET (1 .. n) BY FS_Interval
<1>2. ASSUME NEW U \in SUBSET (1 .. n), \A V \in SUBSET U : V # U => V \in G PROVE U \in G
  <2>1. CASE U = {} BY <2>1
  <2>2. CASE U # {}
    <3>1. Max(U) \in U
      <4>1. IsFiniteSet(U)
        <5>1. IsFiniteSet(1 .. n) /\ U \subseteq 1 .. n BY <1>1, <1>2
        <5> QED BY <5>1, FS_Subset
      <4>2. U \in SUBSET Int BY <1>2
      <4> QED BY <2>2, <4>1, <4>2, MaxIs
    <3>2. U \ {Max(U)} \in SUBSET U /\ U \ {Max(U)} # U BY <3>1
    <3>3. U \ {Max(U)} \in G BY <1>2, <3>2
    <3>4. g[U] = h[U] BY <2>2, <3>3
    <3> QED BY <1>2, <3>4
  <2> QED BY <2>1, <2>2
<1> HIDE DEF G
<1>3. G = SUBSET (1 .. n) BY <1>1, <1>2, SubsetInduction
<1>4. 1 .. n \in G BY <1>3
<1> QED BY <1>4 DEF G

(* The last of a set of indices, and how many come before it.              *)
LEMMA LastOf ==
  ASSUME NEW n \in Nat, NEW U \in SUBSET (1 .. n), U # {}
  PROVE  /\ Max(U) \in U /\ Cardinality(U \ {Max(U)}) \in Nat /\ Cardinality(U \ {Max(U)}) < n
         /\ Cardinality(U) = Cardinality(U \ {Max(U)}) + 1
<1>1. IsFiniteSet(1 .. n) /\ IsFiniteSet(U)
  <2>1. IsFiniteSet(1 .. n) /\ U \subseteq 1 .. n BY FS_Interval
  <2> QED BY <2>1, FS_Subset
<1>2. Cardinality(1 .. n) = n BY FS_Interval
<1>3. U \in SUBSET Int OBVIOUS
<1>4. Max(U) \in U BY <1>1, <1>3, MaxIs
<1> DEFINE V == U \ {Max(U)}
<1>5. Cardinality(V) = Cardinality(U) - 1 /\ IsFiniteSet(V) BY <1>1, <1>4, FS_RemoveElement
<1>6. Cardinality(V) \in Nat /\ Cardinality(U) \in Nat BY <1>1, <1>5, FS_CardinalityType
<1>7. Cardinality(U) <= n BY <1>1, <1>2, FS_Subset
<1> HIDE DEF V
<1>8. Cardinality(V) < n /\ Cardinality(U) = Cardinality(V) + 1 BY ONLY <1>5, <1>6, <1>7, n \in Nat
<1> QED BY <1>4, <1>6, <1>8 DEF V

=============================================================================
