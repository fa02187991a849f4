---------------------------- MODULE CountingProofs ----------------------------
(***************************************************************************)
(* Facts about the folds the models count with: the sum of a function over *)
(* a finite set (SumFunctionOnSet of the community module Functions), the  *)
(* least and the greatest element of a finite set of integers, and what    *)
(* Among selects from a sequence.                                          *)
(*                                                                         *)
(* Each is an induction over the size of a set, led as a search for the    *)
(* smallest counterexample: "<" is well founded on the naturals, so a      *)
(* non-empty set of sizes at which a fact fails has a least element.       *)
(***************************************************************************)
EXTENDS Integers, Lists, FiniteSetsExt, FiniteSetTheorems, SequenceTheorems, WellFoundedInduction, TLAPS

LEMMA LeastNatural ==
    ASSUME NEW T \in SUBSET Nat, T # {}
    PROVE  \E m \in T : \A n \in T : m =< n
<1>1. PICK m \in T : \A n \in T : ~ (<<n, m>> \in OpToRel(<, Nat))
  BY NatLessThanWellFounded, WFMin, Zenon
<1>2. \A n \in T : ~ (n < m)
  BY <1>1 DEF OpToRel
<1> HIDE <1>1
<1> QED  BY <1>2

(* Induction over the size of a finite set, as a fact about sets of sizes.  *)
LEMMA SizeInduction ==
    ASSUME NEW T \in SUBSET Nat,
           \A n \in T : n # 0,
           \A n \in T : \E m \in T : m < n
    PROVE  T = {}
BY LeastNatural

------------------------------------------------------------------------------
(* The greatest and the least of a finite set of integers.                  *)

HasGreatest(S) == \E m \in S : \A n \in S : m >= n

LEMMA GreatestExists ==
    ASSUME NEW S \in SUBSET Int, IsFiniteSet(S), S # {}
    PROVE  HasGreatest(S)
<1> DEFINE Bad == {n \in Nat : \E T \in SUBSET S : T # {} /\ Cardinality(T) = n /\ ~ HasGreatest(T)}
<1>1. \A n \in Bad : n # 0
  BY FS_Subset, FS_EmptySet
<1>2. \A n \in Bad : \E m \in Bad : m < n
  <2> SUFFICES ASSUME NEW n \in Bad PROVE \E m \in Bad : m < n
    OBVIOUS
  <2>1. PICK T \in SUBSET S : T # {} /\ Cardinality(T) = n /\ ~ HasGreatest(T)
    OBVIOUS
  <2>2. PICK x : x \in T
    BY <2>1
  <2>3. /\ IsFiniteSet(T) /\ IsFiniteSet(T \ {x})
        /\ Cardinality(T \ {x}) = n - 1
        /\ Cardinality(T \ {x}) \in Nat
    BY <2>1, <2>2, FS_Subset, FS_RemoveElement, FS_CardinalityType
  <2>4. T \ {x} # {}
    BY <2>1, <2>2 DEF HasGreatest
  <2>5. ~ HasGreatest(T \ {x})
    <3> SUFFICES ASSUME HasGreatest(T \ {x}) PROVE FALSE
      OBVIOUS
    <3>1. PICK m \in T \ {x} : \A k \in T \ {x} : m >= k
      BY DEF HasGreatest
    <3>2. CASE m >= x
      BY <2>1, <2>2, <3>1, <3>2 DEF HasGreatest
    <3>3. CASE m < x
      <4>1. \A k \in T : x >= k
        BY <2>2, <3>1, <3>3
      <4> QED BY <2>1, <2>2, <4>1 DEF HasGreatest
    <3> QED BY <2>2, <3>1, <3>2, <3>3
  <2>6. n - 1 \in Bad
    BY <2>3, <2>4, <2>5
  <2> QED BY <2>6
<1>3. Bad = {}
  <2> HIDE DEF Bad
  <2>1. Bad \in SUBSET Nat
    BY DEF Bad
  <2> QED BY <1>1, <1>2, <2>1, SizeInduction
<1> QED BY <1>3, FS_CardinalityType

LEMMA MaxIs ==
    ASSUME NEW S \in SUBSET Int, IsFiniteSet(S), S # {}
    PROVE  Max(S) \in S /\ \A n \in S : Max(S) >= n
BY GreatestExists DEF HasGreatest, Max

LEMMA MinIs ==
    ASSUME NEW S \in SUBSET Int, IsFiniteSet(S), S # {}
    PROVE  Min(S) \in S /\ \A n \in S : Min(S) =< n
<1> DEFINE N == {0 - n : n \in S}
           neg == [n \in S |-> 0 - n]
<1>1. neg \in Surjection(S, N)
  BY DEF Surjection
<1>2. IsFiniteSet(N)
  <2> HIDE DEF N, neg
  <2> QED BY <1>1, FS_Surjection, Zenon
<1>3. N \in SUBSET Int /\ N # {}
  <2>1. \A n \in S : 0 - n \in N
    OBVIOUS
  <2>2. \A n \in N : n \in Int
    OBVIOUS
  <2> HIDE DEF N
  <2> QED BY <2>1, <2>2
<1>4. PICK m \in N : \A n \in N : m >= n
  BY <1>2, <1>3, GreatestExists DEF HasGreatest
<1>5. PICK k \in S : m = 0 - k
  BY <1>4
<1>6. \A n \in S : k =< n
  BY <1>4, <1>5
<1> QED BY <1>6 DEF Min

------------------------------------------------------------------------------
(* The sum of a function over a finite set.                                 *)

Smaller(S, n) == {T \in SUBSET S : Cardinality(T) =< n}
OneOf(T)      == CHOOSE x \in T : TRUE

(* s answers the recursion behind SumFunctionOnSet for every set in D.      *)
Sums(s, f, D) == s = [T \in D |-> IF T = {} THEN 0 ELSE f[OneOf(T)] + s[T \ {OneOf(T)}]]

LEMMA SumIs ==
    ASSUME NEW f, NEW S
    PROVE  SumFunctionOnSet(f, S) = (CHOOSE s : Sums(s, f, SUBSET S))[S]
BY Zenon DEF SumFunctionOnSet, FoldFunctionOnSet, MapThenFoldSet, Sums, OneOf

LEMMA OneOfIsAMember ==
    ASSUME NEW T, T # {}
    PROVE  OneOf(T) \in T
BY DEF OneOf

LEMMA NoneIsSmallest ==
    ASSUME NEW S, IsFiniteSet(S)
    PROVE  \A T \in Smaller(S, 0) : T = {}
BY FS_Subset, FS_EmptySet, FS_CardinalityType DEF Smaller

LEMMA SmallerGrows ==
    ASSUME NEW S, IsFiniteSet(S), NEW n \in Nat
    PROVE  \A T \in Smaller(S, n - 1) : T \in Smaller(S, n)
BY FS_Subset, FS_CardinalityType DEF Smaller

LEMMA WithoutOne ==
    ASSUME NEW S, IsFiniteSet(S), NEW n \in Nat, NEW T \in Smaller(S, n), NEW x \in T
    PROVE  T \ {x} \in Smaller(S, n - 1)
<1>1. IsFiniteSet(T) /\ Cardinality(T) \in Nat
  BY FS_Subset, FS_CardinalityType DEF Smaller
<1>2. Cardinality(T \ {x}) = Cardinality(T) - 1
  BY <1>1, FS_RemoveElement
<1> QED BY <1>1, <1>2 DEF Smaller

(* Taking one out of a set of n + 1 leaves a set of n.                      *)
LEMMA OneLess ==
    ASSUME NEW S, IsFiniteSet(S), NEW n \in Nat, NEW T \in Smaller(S, n + 1), T # {}
    PROVE  T \ {OneOf(T)} \in Smaller(S, n)
<1>1. IsFiniteSet(T) /\ Cardinality(T) \in Nat
  BY FS_Subset, FS_CardinalityType DEF Smaller
<1>2. Cardinality(T \ {OneOf(T)}) = Cardinality(T) - 1
  BY <1>1, OneOfIsAMember, FS_RemoveElement
<1> QED BY <1>1, <1>2 DEF Smaller

LEMMA SumsExistUpTo ==
    ASSUME NEW f, NEW S, IsFiniteSet(S)
    PROVE  \A n \in Nat : \E s : Sums(s, f, Smaller(S, n))
<1> DEFINE Bad == {n \in Nat : ~ \E s : Sums(s, f, Smaller(S, n))}
<1>1. \A n \in Bad : n # 0
  <2>1. \A T \in Smaller(S, 0) : T = {}
    BY FS_Subset, FS_EmptySet, FS_CardinalityType DEF Smaller
  <2>2. Sums([T \in Smaller(S, 0) |-> 0], f, Smaller(S, 0))
    BY <2>1 DEF Sums
  <2> QED BY <2>2
<1>2. \A n \in Bad : \E m \in Bad : m < n
  <2> SUFFICES ASSUME NEW n \in Bad, n - 1 \notin Bad PROVE FALSE
    BY <1>1
  <2>1. n \in Nat /\ n - 1 \in Nat
    BY <1>1
  <2>2. PICK s : Sums(s, f, Smaller(S, n - 1))
    BY <2>1
  <2> DEFINE t == [T \in Smaller(S, n) |-> IF T = {} THEN 0 ELSE f[OneOf(T)] + s[T \ {OneOf(T)}]]
  <2>3. \A T \in Smaller(S, n - 1) : t[T] = s[T]
    <3>1. \A T \in Smaller(S, n - 1) : T \in Smaller(S, n)
      BY <2>1, FS_Subset, FS_CardinalityType DEF Smaller
    <3> QED BY <2>2, <3>1 DEF Sums
  <2>4. \A T \in Smaller(S, n) : T # {} => T \ {OneOf(T)} \in Smaller(S, n - 1)
    BY <2>1, OneLess
  <2>5. Sums(t, f, Smaller(S, n))
    BY <2>3, <2>4 DEF Sums
  <2> QED BY <2>5
<1>3. Bad = {}
  <2>1. Bad \in SUBSET Nat
    OBVIOUS
  <2> HIDE DEF Bad
  <2> QED BY <1>1, <1>2, <2>1, SizeInduction
<1> QED BY <1>3

LEMMA SumsExist ==
    ASSUME NEW f, NEW S, IsFiniteSet(S)
    PROVE  \E s : Sums(s, f, SUBSET S)
<1>1. Smaller(S, Cardinality(S)) = SUBSET S
  BY FS_Subset DEF Smaller
<1>2. Cardinality(S) \in Nat
  BY FS_CardinalityType
<1>3. \E s : Sums(s, f, Smaller(S, Cardinality(S)))
  BY <1>2, SumsExistUpTo, Zenon
<1> QED BY <1>1, <1>3

SameOn(f, g, S) == \A x \in S : f[x] = g[x]

(* Two answers agree wherever both are given, on functions that agree.      *)
LEMMA SumsAgree ==
    ASSUME NEW f, NEW g, NEW R, NEW S, IsFiniteSet(R), R \subseteq S, SameOn(f, g, R)
    PROVE  \A s, t : Sums(s, f, SUBSET R) /\ Sums(t, g, SUBSET S) => s[R] = t[R]
<1> SUFFICES ASSUME NEW s, Sums(s, f, SUBSET R), NEW t, Sums(t, g, SUBSET S)
             PROVE  s[R] = t[R]
  OBVIOUS
<1> DEFINE Bad == {n \in Nat : \E T \in SUBSET R : Cardinality(T) = n /\ s[T] # t[T]}
<1>1. \A n \in Bad : n # 0
  BY FS_Subset, FS_EmptySet DEF Sums
<1>2. \A n \in Bad : \E m \in Bad : m < n
  <2> SUFFICES ASSUME NEW n \in Bad PROVE \E m \in Bad : m < n
    OBVIOUS
  <2>1. PICK T \in SUBSET R : Cardinality(T) = n /\ s[T] # t[T]
    OBVIOUS
  <2>2. T # {}
    BY <1>1, <2>1, FS_EmptySet
  <2>3. /\ s[T] = f[OneOf(T)] + s[T \ {OneOf(T)}]
        /\ t[T] = g[OneOf(T)] + t[T \ {OneOf(T)}]
    BY <2>2 DEF Sums
  <2>4. OneOf(T) \in R
    BY <2>2, OneOfIsAMember
  <2>5. s[T \ {OneOf(T)}] # t[T \ {OneOf(T)}]
    BY <2>1, <2>3, <2>4 DEF SameOn
  <2>6. Cardinality(T \ {OneOf(T)}) = n - 1 /\ n - 1 \in Nat
    <3>1. IsFiniteSet(T) /\ IsFiniteSet(T \ {OneOf(T)}) /\ OneOf(T) \in T
      BY <2>2, OneOfIsAMember, FS_RemoveElement, FS_Subset
    <3>2. Cardinality(T \ {OneOf(T)}) = n - 1
      BY <2>1, <3>1, FS_RemoveElement
    <3> QED BY <3>1, <3>2, FS_CardinalityType
  <2>7. n - 1 \in Bad
    BY <2>5, <2>6
  <2> QED BY <2>7
<1>3. Bad = {}
  <2>1. Bad \in SUBSET Nat
    OBVIOUS
  <2> HIDE DEF Bad
  <2> QED BY <1>1, <1>2, <2>1, SizeInduction
<1> QED BY <1>3, FS_CardinalityType, FS_Subset

LEMMA SumUnfolds ==
    ASSUME NEW f, NEW S, IsFiniteSet(S)
    PROVE  \E s : Sums(s, f, SUBSET S) /\ SumFunctionOnSet(f, S) = s[S]
<1> DEFINE s == CHOOSE s : Sums(s, f, SUBSET S)
<1>1. Sums(s, f, SUBSET S)
  BY SumsExist
<1>2. SumFunctionOnSet(f, S) = s[S]
  BY SumIs, Zenon
<1> QED BY <1>1, <1>2

(* The sum of nothing.                                                      *)
LEMMA SumOfNone ==
    ASSUME NEW f
    PROVE  SumFunctionOnSet(f, {}) = 0
<1>1. PICK s : Sums(s, f, SUBSET {}) /\ SumFunctionOnSet(f, {}) = s[{}]
  BY FS_EmptySet, SumUnfolds
<1> QED BY <1>1 DEF Sums

(* The sum looks at nothing outside of the set.                             *)
LEMMA SumIsLocal ==
    ASSUME NEW f, NEW g, NEW S, IsFiniteSet(S), \A x \in S : f[x] = g[x]
    PROVE  SumFunctionOnSet(f, S) = SumFunctionOnSet(g, S)
<1>1. PICK s : Sums(s, f, SUBSET S) /\ SumFunctionOnSet(f, S) = s[S]
  BY SumUnfolds
<1>2. PICK t : Sums(t, g, SUBSET S) /\ SumFunctionOnSet(g, S) = t[S]
  BY SumUnfolds
<1>3. S \subseteq S /\ SameOn(f, g, S)
  BY DEF SameOn
<1>4. s[S] = t[S]
  BY <1>1, <1>2, <1>3, SumsAgree
<1> QED BY <1>1, <1>2, <1>4

LEMMA SumTakesAny ==
    ASSUME NEW f, NEW S, IsFiniteSet(S), S # {}
    PROVE  SumFunctionOnSet(f, S) = f[OneOf(S)] + SumFunctionOnSet(f, S \ {OneOf(S)})
<1> DEFINE R == S \ {OneOf(S)}
<1>1. PICK s : Sums(s, f, SUBSET S) /\ SumFunctionOnSet(f, S) = s[S]
  BY SumUnfolds
<1>2. IsFiniteSet(R)
  BY FS_Subset
<1>3. PICK t : Sums(t, f, SUBSET R) /\ SumFunctionOnSet(f, R) = t[R]
  BY <1>2, SumUnfolds
<1>4. t[R] = s[R]
  <2>1. R \subseteq S /\ SameOn(f, f, R)
    BY DEF SameOn
  <2> HIDE DEF R
  <2> QED BY <1>1, <1>2, <1>3, <2>1, SumsAgree
<1>5. s[S] = f[OneOf(S)] + s[R]
  BY <1>1 DEF Sums
<1> QED BY <1>1, <1>3, <1>4, <1>5

(* A sum of numbers of a kind that addition does not leave is of that kind. *)
LEMMA SumStaysIn ==
    ASSUME NEW N, 0 \in N, \A a, b \in N : a + b \in N,
           NEW f, NEW S, IsFiniteSet(S), \A x \in S : f[x] \in N
    PROVE  SumFunctionOnSet(f, S) \in N
<1> DEFINE Bad == {n \in Nat : \E T \in SUBSET S : Cardinality(T) = n /\ SumFunctionOnSet(f, T) \notin N}
<1>1. \A n \in Bad : n # 0
  BY FS_Subset, FS_EmptySet, SumOfNone
<1>2. \A n \in Bad : \E m \in Bad : m < n
  <2> SUFFICES ASSUME NEW n \in Bad PROVE \E m \in Bad : m < n
    OBVIOUS
  <2>1. PICK T \in SUBSET S : Cardinality(T) = n /\ SumFunctionOnSet(f, T) \notin N
    OBVIOUS
  <2>2. T # {} /\ IsFiniteSet(T)
    BY <1>1, <2>1, FS_EmptySet, FS_Subset
  <2>3. OneOf(T) \in T
    BY <2>2, OneOfIsAMember
  <2>4. SumFunctionOnSet(f, T) = f[OneOf(T)] + SumFunctionOnSet(f, T \ {OneOf(T)})
    BY <2>2, SumTakesAny
  <2>5. f[OneOf(T)] \in N
    BY <2>3
  <2>6. SumFunctionOnSet(f, T \ {OneOf(T)}) \notin N
    BY <2>1, <2>4, <2>5
  <2>7. IsFiniteSet(T \ {OneOf(T)}) /\ Cardinality(T \ {OneOf(T)}) = n - 1
    BY <2>1, <2>2, <2>3, FS_RemoveElement
  <2>8. n - 1 \in Nat
    BY <2>7, FS_CardinalityType
  <2>9. n - 1 \in Bad
    BY <2>6, <2>7, <2>8
  <2> QED BY <2>9
<1>3. Bad = {}
  <2>1. Bad \in SUBSET Nat
    OBVIOUS
  <2> HIDE DEF Bad
  <2> QED BY <1>1, <1>2, <2>1, SizeInduction
<1> QED BY <1>3, FS_CardinalityType, FS_Subset

LEMMA SumIsNat ==
    ASSUME NEW f, NEW S, IsFiniteSet(S), \A x \in S : f[x] \in Nat
    PROVE  SumFunctionOnSet(f, S) \in Nat
<1>1. 0 \in Nat /\ \A a, b \in Nat : a + b \in Nat
  OBVIOUS
<1> QED BY <1>1, SumStaysIn

LEMMA SumIsInt ==
    ASSUME NEW f, NEW S, IsFiniteSet(S), \A x \in S : f[x] \in Int
    PROVE  SumFunctionOnSet(f, S) \in Int
<1>1. 0 \in Int /\ \A a, b \in Int : a + b \in Int
  OBVIOUS
<1> QED BY <1>1, SumStaysIn

(* The order the members are taken in is nobody's business.                 *)
LEMMA SumTakes ==
    ASSUME NEW f, NEW S, IsFiniteSet(S), \A x \in S : f[x] \in Int, NEW x \in S
    PROVE  SumFunctionOnSet(f, S) = f[x] + SumFunctionOnSet(f, S \ {x})
<1> DEFINE Fails(T) == \E y \in T : SumFunctionOnSet(f, T) # f[y] + SumFunctionOnSet(f, T \ {y})
           Bad == {n \in Nat : \E T \in SUBSET S : Cardinality(T) = n /\ Fails(T)}
<1>1. \A n \in Bad : n # 0
  BY FS_Subset, FS_EmptySet
<1>2. \A n \in Bad : \E m \in Bad : m < n
  <2> SUFFICES ASSUME NEW n \in Bad, n - 1 \notin Bad PROVE FALSE
    BY <1>1
  <2>1. PICK T \in SUBSET S : Cardinality(T) = n /\ Fails(T)
    OBVIOUS
  <2>2. PICK y \in T : SumFunctionOnSet(f, T) # f[y] + SumFunctionOnSet(f, T \ {y})
    BY <2>1
  <2> DEFINE p == OneOf(T)
  <2>3. p \in T /\ IsFiniteSet(T)
    BY <2>2, OneOfIsAMember, FS_Subset
  <2>4. SumFunctionOnSet(f, T) = f[p] + SumFunctionOnSet(f, T \ {p})
    BY <2>2, <2>3, SumTakesAny
  <2> HIDE DEF p
  <2>5. p # y
    BY <2>2, <2>4
  <2>6. /\ IsFiniteSet(T \ {p}) /\ Cardinality(T \ {p}) = n - 1
        /\ IsFiniteSet(T \ {y}) /\ Cardinality(T \ {y}) = n - 1
        /\ n - 1 \in Nat
    <3>1. Cardinality(T) = n
      BY <2>1
    <3>2. IsFiniteSet(T \ {p}) /\ Cardinality(T \ {p}) = n - 1
      BY <2>3, <3>1, FS_RemoveElement
    <3>3. IsFiniteSet(T \ {y}) /\ Cardinality(T \ {y}) = n - 1
      BY <2>3, <3>1, FS_RemoveElement
    <3> QED BY <3>2, <3>3, FS_CardinalityType
  <2>7. ~ Fails(T \ {p}) /\ ~ Fails(T \ {y})
    BY <2>6
  <2>8. SumFunctionOnSet(f, T \ {p}) = f[y] + SumFunctionOnSet(f, (T \ {p}) \ {y})
    BY <2>5, <2>7
  <2>9. SumFunctionOnSet(f, T \ {y}) = f[p] + SumFunctionOnSet(f, (T \ {y}) \ {p})
    BY <2>3, <2>5, <2>7
  <2>10. (T \ {p}) \ {y} = (T \ {y}) \ {p}
    OBVIOUS
  <2>11. SumFunctionOnSet(f, (T \ {p}) \ {y}) \in Int
    <3>1. IsFiniteSet((T \ {p}) \ {y}) /\ \A z \in (T \ {p}) \ {y} : f[z] \in Int
      BY <2>6, FS_RemoveElement
    <3> QED BY <3>1, SumIsInt
  <2>12. f[p] \in Int /\ f[y] \in Int
    BY <2>3
  <2> DEFINE rest == SumFunctionOnSet(f, (T \ {p}) \ {y})
  <2>13. SumFunctionOnSet(f, T) = f[p] + (f[y] + rest) /\ SumFunctionOnSet(f, T \ {y}) = f[p] + rest
    BY <2>4, <2>8, <2>9, <2>10
  <2>14. rest \in Int
    BY <2>11
  <2> HIDE DEF rest, Bad
  <2>15. f[p] + (f[y] + rest) = f[y] + (f[p] + rest)
    BY <2>12, <2>14
  <2> QED BY <2>2, <2>13, <2>15
<1>3. Bad = {}
  <2>1. Bad \in SUBSET Nat
    OBVIOUS
  <2> HIDE DEF Bad
  <2> QED BY <1>1, <1>2, <2>1, SizeInduction
<1>4. S \in SUBSET S /\ Cardinality(S) \in Nat
  BY FS_CardinalityType
<1>5. ~ Fails(S)
  BY <1>3, <1>4
<1> QED BY <1>5

(* No member counts for more than the whole.                                *)
LEMMA PartOfTheSum ==
    ASSUME NEW f, NEW S, IsFiniteSet(S), \A x \in S : f[x] \in Nat, NEW x \in S
    PROVE  f[x] =< SumFunctionOnSet(f, S)
<1>1. SumFunctionOnSet(f, S) = f[x] + SumFunctionOnSet(f, S \ {x})
  BY SumTakes
<1>2. IsFiniteSet(S \ {x}) /\ \A y \in S \ {x} : f[y] \in Nat
  BY FS_RemoveElement
<1>3. SumFunctionOnSet(f, S \ {x}) \in Nat
  BY <1>2, SumIsNat
<1> QED BY <1>1, <1>3

------------------------------------------------------------------------------
(* There are finitely many functions between finite sets.                   *)
LEMMA FunctionsAreFinite ==
    ASSUME NEW S, IsFiniteSet(S), NEW T, IsFiniteSet(T)
    PROVE  IsFiniteSet([S -> T])
<1> DEFINE graph == [f \in [S -> T] |-> {<<x, f[x]>> : x \in S}]
           Graphs == SUBSET (S \X T)
<1>1. IsFiniteSet(Graphs)
  BY FS_Product, FS_SUBSET
<1>2. graph \in [[S -> T] -> Graphs]
  OBVIOUS
<1>3. \A f, g \in [S -> T] : graph[f] = graph[g] => f = g
  <2> SUFFICES ASSUME NEW f \in [S -> T], NEW g \in [S -> T], graph[f] = graph[g]
               PROVE  f = g
    BY Zenon
  <2>1. \A x \in S : <<x, f[x]>> \in graph[g]
    OBVIOUS
  <2>2. \A x \in S : f[x] = g[x]
    BY <2>1
  <2> HIDE DEF graph, Graphs
  <2> QED BY <2>2
<1>4. graph \in Injection([S -> T], Graphs)
  BY <1>2, <1>3 DEF Injection, IsInjective
<1> HIDE DEF graph, Graphs
<1> QED BY <1>1, <1>4, FS_Injection

LEMMA ImageIsFinite ==
    ASSUME NEW S, IsFiniteSet(S), NEW m
    PROVE  IsFiniteSet({m[x] : x \in S})
<1> DEFINE Image == {m[x] : x \in S}
           g == [x \in S |-> m[x]]
<1>1. g \in Surjection(S, Image)
  BY DEF Surjection
<1> HIDE DEF Image, g
<1>2. IsFiniteSet(Image)
  BY <1>1, FS_Surjection, Zenon
<1> QED BY <1>2 DEF Image

LEMMA AsManyImages ==
    ASSUME NEW S, IsFiniteSet(S), NEW m, \A x, y \in S : m[x] = m[y] => x = y
    PROVE  Cardinality({m[x] : x \in S}) = Cardinality(S)
<1> DEFINE Image == {m[x] : x \in S}
           g == [x \in S |-> m[x]]
<1>1. g \in Bijection(S, Image)
  BY DEF Bijection, Injection, IsInjective, Surjection
<1> HIDE DEF Image, g
<1>2. Cardinality(Image) = Cardinality(S)
  BY <1>1, FS_Bijection DEF ExistsBijection
<1> QED BY <1>2 DEF Image

(* A sum does not depend on what its terms are called.                      *)
LEMMA SumMoves ==
    ASSUME NEW S, IsFiniteSet(S), NEW f, \A x \in S : f[x] \in Int,
           NEW m, \A x, y \in S : m[x] = m[y] => x = y,
           NEW g, \A x \in S : g[m[x]] = f[x]
    PROVE  SumFunctionOnSet(g, {m[x] : x \in S}) = SumFunctionOnSet(f, S)
<1> DEFINE Image(T) == {m[x] : x \in T}
           Right(T) == SumFunctionOnSet(g, Image(T)) = SumFunctionOnSet(f, T)
           Bad == {n \in Nat : \E T \in SUBSET S : Cardinality(T) = n /\ ~Right(T)}
<1>1. \A n \in Bad : n # 0
  <2> SUFFICES ASSUME NEW T \in SUBSET S, Cardinality(T) = 0 PROVE Right(T)
    OBVIOUS
  <2>1. T = {} /\ Image({}) = {}
    BY FS_Subset, FS_EmptySet
  <2> QED BY <2>1, SumOfNone
<1>2. \A n \in Bad : \E k \in Bad : k < n
  <2>0. \A n \in Bad : n - 1 < n
    OBVIOUS
  <2> SUFFICES ASSUME NEW n \in Bad, n - 1 \notin Bad PROVE FALSE
    BY <2>0
  <2>1. n \in Nat /\ n - 1 \in Nat
    <3>1. n \in Nat /\ n # 0
      BY <1>1
    <3> HIDE DEF Bad
    <3> QED BY <3>1
  <2>2. PICK T \in SUBSET S : Cardinality(T) = n /\ ~Right(T)
    OBVIOUS
  <2>3. T # {} /\ IsFiniteSet(T)
    BY <1>1, <2>2, FS_EmptySet, FS_Subset
  <2>4. PICK x : x \in T
    BY <2>3
  <2>5. Cardinality(T \ {x}) = n - 1 /\ T \ {x} \in SUBSET S
    BY <2>2, <2>3, <2>4, FS_RemoveElement
  <2>6. Right(T \ {x})
    BY <2>1, <2>5
  <2>7. SumFunctionOnSet(f, T) = f[x] + SumFunctionOnSet(f, T \ {x})
    BY <2>3, <2>4, SumTakes
  <2>8. SumFunctionOnSet(g, Image(T)) = g[m[x]] + SumFunctionOnSet(g, Image(T) \ {m[x]})
    <3>1. IsFiniteSet(Image(T))
      BY <2>3, ImageIsFinite
    <3>2. (\A y \in Image(T) : g[y] \in Int) /\ m[x] \in Image(T)
      BY <2>4
    <3> HIDE DEF Image
    <3> QED BY <3>1, <3>2, SumTakes
  <2>9. Image(T) \ {m[x]} = Image(T \ {x})
    BY <2>4
  <2>10. g[m[x]] = f[x]
    BY <2>4
  <2> HIDE DEF Image
  <2> QED BY <2>2, <2>6, <2>7, <2>8, <2>9, <2>10
<1>3. Bad = {}
  <2>1. Bad \in SUBSET Nat
    OBVIOUS
  <2> HIDE DEF Bad
  <2> QED BY <1>1, <1>2, <2>1, SizeInduction
<1>4. Right(S)
  BY <1>3, FS_CardinalityType
<1> QED BY <1>4

(* Two sets that share nothing are as large as their union.                 *)
LEMMA DisjointSizes ==
    ASSUME NEW S, NEW T, IsFiniteSet(S), IsFiniteSet(T), S \cap T = {}
    PROVE  IsFiniteSet(S \cup T) /\ Cardinality(S \cup T) = Cardinality(S) + Cardinality(T)
<1>1. /\ IsFiniteSet(S \cup T)
      /\ Cardinality(S \cup T) = Cardinality(S) + Cardinality(T) - Cardinality({})
  BY FS_Union
<1>2. Cardinality({}) = 0 /\ Cardinality(S) \in Nat /\ Cardinality(T) \in Nat
  BY FS_EmptySet, FS_CardinalityType
<1> QED BY <1>1, <1>2

------------------------------------------------------------------------------
(* What is selected from a sequence: Among, a fold over its positions from  *)
(* the last to the first.                                                   *)

Kept(q, x, S) == IF x \in S THEN Append(q, x) ELSE q

(* k answers that fold for every set of positions in D.                     *)
Keeps(k, seq, S, D) ==
    k = [T \in D |-> IF T = {} THEN <<>> ELSE Kept(k[T \ {Max(T)}], seq[Max(T)], S)]

LEMMA AmongFolds ==
    ASSUME NEW seq, NEW S
    PROVE  Among(seq, S) = (CHOOSE k : Keeps(k, seq, S, SUBSET DOMAIN seq))[DOMAIN seq]
BY Zenon DEF Among, FoldLeft, MapThenFoldSet, Keeps, Kept

LEMMA LastLess ==
    ASSUME NEW N \in SUBSET Int, IsFiniteSet(N), NEW n \in Nat, NEW T \in Smaller(N, n), T # {}
    PROVE  T \ {Max(T)} \in Smaller(N, n - 1)
<1>1. T \in SUBSET Int /\ IsFiniteSet(T)
  BY FS_Subset DEF Smaller
<1>2. Max(T) \in T
  BY <1>1, MaxIs
<1> QED BY <1>2, WithoutOne

LEMMA KeepsExistUpTo ==
    ASSUME NEW seq, NEW S, NEW N \in SUBSET Int, IsFiniteSet(N)
    PROVE  \A n \in Nat : \E k : Keeps(k, seq, S, Smaller(N, n))
<1> DEFINE Bad == {n \in Nat : ~ \E k : Keeps(k, seq, S, Smaller(N, n))}
<1>1. \A n \in Bad : n # 0
  <2>1. \A T \in Smaller(N, 0) : T = {}
    BY NoneIsSmallest
  <2>2. Keeps([T \in Smaller(N, 0) |-> <<>>], seq, S, Smaller(N, 0))
    BY <2>1 DEF Keeps
  <2> QED BY <2>2
<1>2. \A n \in Bad : \E m \in Bad : m < n
  <2> SUFFICES ASSUME NEW n \in Bad, n - 1 \notin Bad PROVE FALSE
    BY <1>1
  <2>1. n \in Nat /\ n - 1 \in Nat
    BY <1>1
  <2>2. PICK k : Keeps(k, seq, S, Smaller(N, n - 1))
    BY <2>1
  <2> DEFINE m == [T \in Smaller(N, n) |->
                     IF T = {} THEN <<>> ELSE Kept(k[T \ {Max(T)}], seq[Max(T)], S)]
  <2>3. \A T \in Smaller(N, n - 1) : m[T] = k[T]
    <3>1. \A T \in Smaller(N, n - 1) : T \in Smaller(N, n)
      BY <2>1, SmallerGrows
    <3> QED BY <2>2, <3>1 DEF Keeps
  <2>4. \A T \in Smaller(N, n) : T # {} => T \ {Max(T)} \in Smaller(N, n - 1)
    BY <2>1, LastLess
  <2>5. Keeps(m, seq, S, Smaller(N, n))
    BY <2>3, <2>4 DEF Keeps
  <2> QED BY <2>5
<1>3. Bad = {}
  <2>1. Bad \in SUBSET Nat
    OBVIOUS
  <2> HIDE DEF Bad
  <2> QED BY <1>1, <1>2, <2>1, SizeInduction
<1> QED BY <1>3

LEMMA AmongUnfolds ==
    ASSUME NEW seq, NEW S, DOMAIN seq \in SUBSET Int, IsFiniteSet(DOMAIN seq)
    PROVE  \E k : Keeps(k, seq, S, SUBSET DOMAIN seq) /\ Among(seq, S) = k[DOMAIN seq]
<1> DEFINE N == DOMAIN seq
           k == CHOOSE k : Keeps(k, seq, S, SUBSET N)
<1>1. Smaller(N, Cardinality(N)) = SUBSET N
  BY FS_Subset DEF Smaller
<1>2. Cardinality(N) \in Nat
  BY FS_CardinalityType
<1>3. \E m : Keeps(m, seq, S, Smaller(N, Cardinality(N)))
  BY <1>2, KeepsExistUpTo, Zenon
<1>4. Keeps(k, seq, S, SUBSET N)
  BY <1>1, <1>3
<1>5. Among(seq, S) = k[N]
  BY AmongFolds, Zenon
<1> QED BY <1>4, <1>5

LEMMA OneMore ==
    ASSUME NEW X, NEW q \in Seq(X), NEW x \in X
    PROVE  Append(q, x) \in Seq(X) /\ ToSet(Append(q, x)) = ToSet(q) \cup {x}
<1> DEFINE a == Append(q, x)
           n == Len(q)
<1>1. /\ n \in Nat /\ DOMAIN q = 1..n /\ DOMAIN a = 1..(n + 1) /\ a \in Seq(X)
      /\ \A i \in 1..n : a[i] = q[i]
      /\ a[n + 1] = x
  OBVIOUS
<1> HIDE DEF a, n
<1>2. ToSet(a) \subseteq ToSet(q) \cup {x}
  <2> SUFFICES ASSUME NEW i \in 1..(n + 1) PROVE a[i] \in ToSet(q) \cup {x}
    BY <1>1 DEF ToSet
  <2>1. CASE i \in 1..n
    BY <1>1, <2>1 DEF ToSet
  <2>2. CASE i = n + 1
    BY <1>1, <2>2
  <2> QED BY <1>1, <2>1, <2>2
<1>3. ToSet(q) \cup {x} \subseteq ToSet(a)
  <2>1. \A i \in 1..n : i \in 1..(n + 1)
    BY <1>1
  <2>2. n + 1 \in 1..(n + 1)
    BY <1>1
  <2>3. x \in ToSet(a)
    BY <1>1, <2>2 DEF ToSet
  <2>4. ToSet(q) \subseteq ToSet(a)
    BY <1>1, <2>1 DEF ToSet
  <2> QED BY <2>3, <2>4
<1>4. ToSet(a) = ToSet(q) \cup {x}
  BY <1>2, <1>3
<1> QED BY <1>1, <1>4 DEF a

(* Whatever the order, exactly the elements that are in the set are kept.   *)
LEMMA AmongIs ==
    ASSUME NEW X, NEW seq \in Seq(X), NEW S
    PROVE  Among(seq, S) \in Seq(X) /\ ToSet(Among(seq, S)) = ToSet(seq) \cap S
<1> DEFINE N == DOMAIN seq
<1>1. N \in SUBSET Int /\ IsFiniteSet(N) /\ \A i \in N : seq[i] \in X
  <2>1. N = 1..Len(seq) /\ Len(seq) \in Nat
    OBVIOUS
  <2>2. IsFiniteSet(1..Len(seq))
    BY <2>1, FS_Interval, 1 \in Int
  <2>3. \A i \in 1..Len(seq) : seq[i] \in X
    OBVIOUS
  <2> HIDE DEF N
  <2> QED BY <2>1, <2>2, <2>3
<1>2. PICK k : Keeps(k, seq, S, SUBSET N) /\ Among(seq, S) = k[N]
  BY <1>1, AmongUnfolds
<1>3. ToSet(seq) = {seq[i] : i \in N}
  BY DEF ToSet
<1> HIDE DEF N
<1> DEFINE Right(T) == k[T] \in Seq(X) /\ ToSet(k[T]) = {seq[i] : i \in T} \cap S
           Bad == {n \in Nat : \E T \in SUBSET N : Cardinality(T) = n /\ ~ Right(T)}
<1>4. \A n \in Bad : n # 0
  <2> SUFFICES ASSUME NEW T \in SUBSET N, Cardinality(T) = 0 PROVE Right(T)
    OBVIOUS
  <2>1. T = {}
    BY <1>1, FS_Subset, FS_EmptySet
  <2>2. k[T] = <<>>
    BY <1>2, <2>1 DEF Keeps
  <2>3. ToSet(<<>>) = {}
    BY DEF ToSet
  <2>4. k[T] \in Seq(X)
    BY <2>2
  <2>5. ToSet(k[T]) = {}
    BY <2>2, <2>3
  <2> QED BY <2>1, <2>4, <2>5
<1>5. \A n \in Bad : \E m \in Bad : m < n
  <2> SUFFICES ASSUME NEW n \in Bad, n - 1 \notin Bad PROVE FALSE
    BY <1>4
  <2>1. PICK T \in SUBSET N : Cardinality(T) = n /\ ~ Right(T)
    OBVIOUS
  <2>2. n \in Nat /\ n - 1 \in Nat
    <3>1. n \in Nat /\ n # 0
      BY <1>4
    <3> HIDE DEF Bad
    <3> QED BY <3>1
  <2>3. T # {}
    BY <1>4, <2>1, FS_EmptySet
  <2> DEFINE i == Max(T)
             R == T \ {Max(T)}
  <2>4. IsFiniteSet(T) /\ i \in T /\ R \in SUBSET N
    BY <1>1, <2>3, MaxIs, FS_Subset
  <2>5. Cardinality(R) = n - 1
    BY <2>1, <2>4, FS_RemoveElement
  <2>6. Right(R)
    BY <2>2, <2>4, <2>5
  <2>7. k[T] = Kept(k[R], seq[i], S)
    BY <1>2, <2>3 DEF Keeps
  <2>8. T = R \cup {i}
    BY <2>4
  <2> HIDE DEF i, R
  <2>9. seq[i] \in X
    BY <1>1, <2>4
  <2>10. {seq[j] : j \in T} = {seq[j] : j \in R} \cup {seq[i]}
    BY <2>8
  <2>11. CASE seq[i] \in S
    <3>1. k[T] = Append(k[R], seq[i])
      BY <2>7, <2>11 DEF Kept
    <3>2. k[T] \in Seq(X) /\ ToSet(k[T]) = ToSet(k[R]) \cup {seq[i]}
      BY <2>6, <2>9, <3>1, OneMore
    <3>3. ToSet(k[R]) = {seq[j] : j \in R} \cap S
      BY <2>6
    <3>4. ToSet(k[T]) = {seq[j] : j \in T} \cap S
      <4> DEFINE held == {seq[j] : j \in R}  all == {seq[j] : j \in T}  before == ToSet(k[R])  after == ToSet(k[T])
      <4>1. before = held \cap S /\ all = held \cup {seq[i]} /\ after = before \cup {seq[i]}
        BY <2>10, <3>2, <3>3
      <4> HIDE DEF held, all, before, after
      <4>2. after = all \cap S
        BY <2>11, <4>1
      <4> QED BY <4>2 DEF after, all
    <3> QED BY <2>1, <3>2, <3>4
  <2>12. CASE seq[i] \notin S
    <3>1. k[T] = k[R]
      BY <2>7, <2>12 DEF Kept
    <3> QED BY <2>1, <2>6, <2>10, <2>12, <3>1
  <2> QED BY <2>11, <2>12
<1>6. Bad = {}
  <2>1. Bad \in SUBSET Nat
    OBVIOUS
  <2> HIDE DEF Bad
  <2> QED BY <1>4, <1>5, <2>1, SizeInduction
<1>7. Right(N)
  BY <1>1, <1>6, FS_CardinalityType
<1> QED BY <1>2, <1>3, <1>7

(* When every element is in the set, nothing is left out.                   *)
LEMMA AmongAll ==
    ASSUME NEW X, NEW seq \in Seq(X), NEW S, \A i \in DOMAIN seq : seq[i] \in S
    PROVE  Among(seq, S) = seq
<1> DEFINE N == DOMAIN seq
<1>1. N = 1..Len(seq) /\ Len(seq) \in Nat
  OBVIOUS
<1>2. N \in SUBSET Int /\ IsFiniteSet(N)
  BY <1>1, FS_Interval
<1>3. PICK k : Keeps(k, seq, S, SUBSET N) /\ Among(seq, S) = k[N]
  BY <1>2, AmongUnfolds
<1> DEFINE Right(n) == k[1..n] \in Seq(X) /\ Len(k[1..n]) = n /\ \A i \in 1..n : k[1..n][i] = seq[i]
           Bad == {n \in 0..Len(seq) : ~Right(n)}
<1>4. Right(0)
  <2>1. 1..0 = {} /\ {} \in SUBSET N
    OBVIOUS
  <2>2. k[{}] = <<>>
    BY <1>3, <2>1 DEF Keeps
  <2>3. <<>> \in Seq(X) /\ Len(<<>>) = 0
    OBVIOUS
  <2>4. k[1..0] = <<>>
    BY <2>1, <2>2
  <2> QED BY <2>1, <2>3, <2>4
<1>5. ASSUME NEW n \in 1..Len(seq), Right(n - 1) PROVE Right(n)
  <2> DEFINE T == 1..n
             q == k[1..(n - 1)]
  <2>0. 1 \in Int /\ n \in Int
    BY <1>1
  <2>1. T \in SUBSET N /\ T # {} /\ n \in T /\ T \in SUBSET Int /\ IsFiniteSet(T) /\ \A i \in T : i =< n
    <3>1. IsFiniteSet(1..n)
      BY <2>0, FS_Interval
    <3>2. T \in SUBSET N /\ T # {} /\ n \in T /\ T \in SUBSET Int /\ \A i \in T : i =< n
      BY <1>1, <2>0
    <3> QED BY <3>1, <3>2
  <2>2. Max(T) = n
    <3>1. Max(T) \in T /\ \A i \in T : i =< Max(T)
      BY <2>1, MaxIs
    <3> QED BY <2>1, <3>1
  <2>3. T \ {n} = 1..(n - 1)
    BY <1>1
  <2>4. k[T] = Kept(k[T \ {Max(T)}], seq[Max(T)], S)
    <3> HIDE DEF T
    <3> QED BY <1>3, <2>1 DEF Keeps
  <2>5. seq[n] \in S /\ seq[n] \in X
    BY <1>1
  <2>6. k[T] = Append(q, seq[n])
    BY <2>2, <2>3, <2>4, <2>5 DEF Kept
  <2>7. q \in Seq(X) /\ Len(q) = n - 1 /\ \A i \in 1..(n - 1) : q[i] = seq[i]
    BY <1>5
  <2> HIDE DEF q
  <2>8. Append(q, seq[n]) \in Seq(X) /\ Len(Append(q, seq[n])) = n
    BY <2>5, <2>7
  <2>9. \A i \in 1..n : Append(q, seq[n])[i] = seq[i]
    BY <2>5, <2>7
  <2> QED BY <2>6, <2>8, <2>9
<1>6. Bad = {}
  <2>1. Bad \in SUBSET Nat /\ \A n \in Bad : n \in 0..Len(seq)
    OBVIOUS
  <2>2. \A n \in Bad : n # 0
    BY <1>4
  <2>3. \A n \in Bad : \E m \in Bad : m < n
    <3> SUFFICES ASSUME NEW n \in Bad PROVE n - 1 \in Bad /\ n - 1 < n
      OBVIOUS
    <3>1. n \in 1..Len(seq) /\ n - 1 \in 0..Len(seq) /\ n - 1 < n
      BY <1>1, <2>2
    <3>2. ~Right(n - 1)
      <4>1. ~Right(n)
        OBVIOUS
      <4> QED BY <1>5, <3>1, <4>1
    <3> QED BY <3>1, <3>2
  <2> HIDE DEF Bad
  <2> QED BY <2>1, <2>2, <2>3, SizeInduction
<1>7. Right(Len(seq))
  <2>1. Len(seq) \in 0..Len(seq)
    BY <1>1
  <2> QED BY <1>6, <2>1
<1>8. k[N] \in Seq(X) /\ Len(k[N]) = Len(seq) /\ \A i \in 1..Len(seq) : k[N][i] = seq[i]
  BY <1>1, <1>7
<1> QED BY <1>3, <1>8, SeqEqual

------------------------------------------------------------------------------
(* A sum over more elements, none of them negative, is no smaller.          *)
LEMMA SumOfMore ==
    ASSUME NEW f, NEW T, IsFiniteSet(T), \A x \in T : f[x] \in Int,
           NEW S \in SUBSET T, \A x \in T \ S : f[x] >= 0
    PROVE  SumFunctionOnSet(f, S) =< SumFunctionOnSet(f, T)
<1> DEFINE Low(U) == ~ (SumFunctionOnSet(f, S) =< SumFunctionOnSet(f, U))
           Bad == {n \in Nat : \E U \in SUBSET T : S \subseteq U /\ Cardinality(U) = n /\ Low(U)}
<1>1. \A U \in SUBSET T : /\ IsFiniteSet(U) /\ Cardinality(U) \in Nat /\ SumFunctionOnSet(f, U) \in Int
  BY FS_Subset, FS_CardinalityType, SumIsInt
<1>2. ASSUME NEW U \in SUBSET T, S \subseteq U, Low(U)
      PROVE  \E x \in U : /\ S \subseteq U \ {x} /\ Low(U \ {x})
                          /\ Cardinality(U \ {x}) = Cardinality(U) - 1
  <2>1. S # U
    BY <1>1, <1>2
  <2>2. PICK x \in U : x \notin S
    BY <1>2, <2>1
  <2>3. SumFunctionOnSet(f, U) = f[x] + SumFunctionOnSet(f, U \ {x})
    BY <1>1, SumTakes
  <2>4. f[x] \in Int /\ f[x] >= 0 /\ SumFunctionOnSet(f, U \ {x}) \in Int /\ SumFunctionOnSet(f, S) \in Int
    BY <1>1, <2>2
  <2>5. Low(U \ {x})
    BY <1>1, <1>2, <2>3, <2>4
  <2>6. Cardinality(U \ {x}) = Cardinality(U) - 1
    BY <1>1, FS_RemoveElement
  <2> QED BY <1>2, <2>2, <2>5, <2>6
<1>3. ASSUME NEW n \in Bad PROVE n # 0 /\ \E m \in Bad : m < n
  <2>1. PICK U \in SUBSET T : S \subseteq U /\ Cardinality(U) = n /\ Low(U)
    OBVIOUS
  <2>2. PICK x \in U : S \subseteq U \ {x} /\ Low(U \ {x}) /\ Cardinality(U \ {x}) = n - 1
    BY <1>2, <2>1
  <2>3. U \ {x} \in SUBSET T /\ Cardinality(U \ {x}) \in Nat /\ n \in Nat
    BY <1>1, <2>1
  <2>4. n - 1 \in Nat /\ n - 1 \in Bad
    BY <2>2, <2>3
  <2> QED BY <2>3, <2>4
<1>4. Bad = {}
  <2>1. Bad \in SUBSET Nat
    OBVIOUS
  <2> HIDE DEF Bad
  <2> QED BY <1>3, <2>1, SizeInduction
<1> QED BY <1>1, <1>4

(* Two different elements are more than one.                                *)
LEMMA TwoAreMoreThanOne ==
    ASSUME NEW S, IsFiniteSet(S), NEW x \in S, NEW y \in S, x # y
    PROVE  Cardinality(S) > 1
<1>1. Cardinality(S \ {x}) = Cardinality(S) - 1 /\ IsFiniteSet(S \ {x})
  BY FS_RemoveElement
<1>2. y \in S \ {x}
  OBVIOUS
<1>3. Cardinality(S \ {x}) # 0 /\ Cardinality(S \ {x}) \in Nat /\ Cardinality(S) \in Nat
  BY <1>1, <1>2, FS_EmptySet, FS_CardinalityType
<1> QED BY <1>1, <1>3

(* A set whose elements differ in something of which there are finitely     *)
(* many.                                                                    *)
LEMMA FinitelyManyTold ==
    ASSUME NEW T, IsFiniteSet(T), NEW m, NEW S,
           \A x \in S : m[x] \in T, \A x, y \in S : m[x] = m[y] => x = y
    PROVE  IsFiniteSet(S)
<1> DEFINE back == [t \in T |-> CHOOSE x \in S : m[x] = t]
<1>1. \A x \in S : back[m[x]] = x
  OBVIOUS
<1> HIDE DEF back
<1>2. IsFiniteSet({back[t] : t \in T})
  BY ImageIsFinite
<1>3. S \subseteq {back[t] : t \in T}
  BY <1>1
<1> QED BY <1>2, <1>3, FS_Subset
==============================================================================
