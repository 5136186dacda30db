----------------------------- MODULE DataLemmas -----------------------------
(***************************************************************************)
(* Facts about numbers, finite sets, sums and joined sequences that the    *)
(* proofs about several components rest on.  Each induction is a minimal   *)
(* counterexample: a set of naturals has a least element, a set of subsets *)
(* of a finite set one that contains no other.                             *)
(***************************************************************************)
EXTENDS Ranked, SequencesExt, Functions, FiniteSetTheorems, SequenceTheorems, WellFoundedInduction, TLAPS

-----------------------------------------------------------------------------
(* Minimal elements.                                                       *)

\* A set of subsets of a finite set has one that contains none of the others.
LEMMA SmallestSet ==
    ASSUME NEW S, IsFiniteSet(S), NEW B, B \subseteq SUBSET S, B # {}
    PROVE  \E T \in B : \A U \in B : U \subseteq T => U = T
<1>1. B \subseteq FiniteSubsetsOf(S)
  BY FS_FiniteSubsetsOfFinite
<1>2. IsWellFoundedOn(StrictSubsetOrdering(S), FiniteSubsetsOf(S))
  BY FS_StrictSubsetOrderingWellFounded
<1>3. PICK T \in B : \A U \in B : ~(<<U, T>> \in StrictSubsetOrdering(S))
  BY <1>1, <1>2, WFMin
<1>4. QED
  BY <1>3 DEF StrictSubsetOrdering

\* A set of naturals has a least element: the intervals below them are finite sets.
LEMMA LeastNatural ==
    ASSUME NEW T, T \subseteq Nat, T # {}
    PROVE  \E m \in T : \A n \in T : m <= n
<1> DEFINE I == {0 .. n : n \in T}
<1>1. I \subseteq FiniteSubsetsOf(Nat)
  <2>1. \A n \in T : IsFiniteSet(0 .. n)
    BY FS_Interval
  <2>2. QED
    BY <2>1 DEF FiniteSubsetsOf
<1>2. I # {}
  OBVIOUS
<1>3. IsWellFoundedOn(StrictSubsetOrdering(Nat), FiniteSubsetsOf(Nat))
  BY FS_StrictSubsetOrderingWellFounded
<1>4. PICK i \in I : \A j \in I : ~(<<j, i>> \in StrictSubsetOrdering(Nat))
  BY <1>1, <1>2, <1>3, WFMin
<1>5. PICK m \in T : i = 0 .. m
  OBVIOUS
<1>6. ASSUME NEW n \in T, ~(m <= n)
      PROVE  FALSE
  <2>1. 0 .. n \subseteq 0 .. m /\ m \in 0 .. m /\ m \notin 0 .. n
    BY <1>6
  <2>2. 0 .. n \in SUBSET Nat /\ 0 .. m \in SUBSET Nat
    OBVIOUS
  <2>3. <<0 .. n, 0 .. m>> \in StrictSubsetOrdering(Nat)
    BY <2>1, <2>2 DEF StrictSubsetOrdering
  <2>4. QED
    BY <1>4, <1>5, <2>3
<1>7. QED
  BY <1>6

\* The greatest of numbers that have a bound.
LEMMA MaxIs ==
    ASSUME NEW b \in Nat, NEW T, T \subseteq 0..b, T # {}
    PROVE  Max(T) \in T /\ \A n \in T : Max(T) >= n
<1> DEFINE U == {b - n : n \in T}
<1>1. U \subseteq Nat /\ U # {}
  <2>1. \A n \in T : n \in Int /\ b - n \in Nat
    OBVIOUS
  <2>2. QED
    BY <2>1
<1>2. PICK m \in U : \A n \in U : m <= n
  BY <1>1, LeastNatural
<1>3. b - m \in T /\ \A n \in T : b - m >= n
  BY <1>2
<1>4. \E x \in T : \A y \in T : x >= y
  BY <1>3
<1>5. QED
  BY <1>4 DEF Max

\* A set that has no two elements has one.
LEMMA OneOnly ==
    ASSUME NEW S, IsFiniteSet(S), ~(Cardinality(S) > 1), NEW a \in S, NEW b \in S
    PROVE  a = b
<1>1. SUFFICES ASSUME a # b PROVE FALSE
  OBVIOUS
<1>2. {a, b} \subseteq S
  OBVIOUS
<1>3. Cardinality({a, b}) = 2
  <2>1. IsFiniteSet({a}) /\ Cardinality({a}) = 1
    BY FS_Singleton
  <2>2. Cardinality({a} \cup {b}) = Cardinality({a}) + 1
    BY <1>1, <2>1, FS_AddElement
  <2>3. {a} \cup {b} = {a, b}
    OBVIOUS
  <2>4. QED
    BY <2>1, <2>2, <2>3
<1>4. Cardinality({a, b}) <= Cardinality(S) /\ Cardinality(S) \in Nat
  BY <1>2, FS_Subset, FS_CardinalityType
<1>5. QED
  BY <1>3, <1>4

-----------------------------------------------------------------------------
(* Sums over a finite set, as SumFunctionOnSet of Functions folds them: one *)
(* element is chosen, and the rest summed.                                  *)

SumBody(f, sums, s) ==
    IF s = {} THEN 0 ELSE f[CHOOSE x \in s : TRUE] + sums[s \ {CHOOSE x \in s : TRUE}]

Sums(sums, f, S) == sums = [s \in SUBSET S |-> SumBody(f, sums, s)]

TheSums(f, S) == CHOOSE sums : Sums(sums, f, S)

LEMMA SumUnfolds ==
    ASSUME NEW f, NEW S
    PROVE  SumFunctionOnSet(f, S) = TheSums(f, S)[S]
BY DEF SumFunctionOnSet, FoldFunctionOnSet, MapThenFoldSet, SumBody, Sums, TheSums

\* The recursive function of the fold exists, built level by level of cardinality.
LEMMA SumsExist ==
    ASSUME NEW f, NEW S, IsFiniteSet(S)
    PROVE  Sums(TheSums(f, S), f, S)
<1> DEFINE Upto(n) == {s \in SUBSET S : Cardinality(s) <= n}
           Has(n)  == \E g : g = [s \in Upto(n) |-> SumBody(f, g, s)]
           Lacking == {n \in Nat : ~Has(n)}
<1>1. \A s \in SUBSET S : IsFiniteSet(s) /\ Cardinality(s) \in Nat
  BY FS_Subset, FS_CardinalityType
<1>2. \A s \in SUBSET S : s # {} =>
         LET c == CHOOSE x \in s : TRUE
         IN  s \ {c} \in SUBSET S /\ Cardinality(s \ {c}) = Cardinality(s) - 1
  BY <1>1, FS_RemoveElement
<1>3. Has(0)
  <2> DEFINE g == [s \in Upto(0) |-> 0]
  <2>1. \A s \in Upto(0) : s = {}
    BY <1>1, FS_EmptySet
  <2>2. g = [s \in Upto(0) |-> SumBody(f, g, s)]
    BY <2>1 DEF SumBody
  <2>3. QED
    BY <2>2
<1>4. ASSUME NEW n \in Nat, Has(n)
      PROVE  Has(n + 1)
  <2>1. PICK g : g = [s \in Upto(n) |-> SumBody(f, g, s)]
    BY <1>4
  <2> DEFINE h == [s \in Upto(n + 1) |-> SumBody(f, g, s)]
  <2>2. Upto(n) \subseteq Upto(n + 1)
    BY <1>1
  <2>3. \A s \in Upto(n) : h[s] = g[s]
    BY <2>1, <2>2
  <2>4. \A s \in Upto(n + 1) : s # {} => s \ {CHOOSE x \in s : TRUE} \in Upto(n)
    BY <1>1, <1>2
  <2> HIDE DEF h, Upto
  <2>5. ASSUME NEW s \in Upto(n + 1)
        PROVE  SumBody(f, h, s) = SumBody(f, g, s)
    BY <2>3, <2>4 DEF SumBody
  <2>6. h = [s \in Upto(n + 1) |-> SumBody(f, h, s)]
    BY <2>5 DEF h
  <2>7. QED
    BY <2>6
<1> HIDE DEF Has
<1>5. Lacking = {}
  <2>1. SUFFICES ASSUME Lacking # {} PROVE FALSE
    OBVIOUS
  <2>2. PICK m \in Lacking : \A n \in Lacking : m <= n
    BY <2>1, LeastNatural
  <2>3. m # 0
    BY <1>3, <2>2
  <2>4. m - 1 \in Nat /\ m - 1 \notin Lacking
    BY <2>2, <2>3
  <2>5. Has((m - 1) + 1)
    BY <1>4, <2>4
  <2>6. QED
    BY <2>2, <2>5
<1>6. Cardinality(S) \in Nat /\ Upto(Cardinality(S)) = SUBSET S
  <2>1. \A s \in SUBSET S : Cardinality(s) <= Cardinality(S)
    BY FS_Subset
  <2>2. QED
    BY <2>1, FS_CardinalityType
<1>7. Has(Cardinality(S))
  BY <1>5, <1>6
<1>8. \E g : Sums(g, f, S)
  BY <1>6, <1>7 DEF Has, Sums
<1>9. QED
  BY <1>8 DEF TheSums

\* Two such functions agree where the summands do, on a set and on one it contains.
LEMMA SumsAgree ==
    ASSUME NEW f, NEW e, NEW S, IsFiniteSet(S), NEW T \in SUBSET S,
           \A x \in T : f[x] = e[x],
           NEW g, Sums(g, f, S),
           NEW h, Sums(h, e, T)
    PROVE  g[T] = h[T]
<1> DEFINE Bad == {s \in SUBSET T : g[s] # h[s]}
<1>1. SUFFICES ASSUME Bad # {} PROVE FALSE
  OBVIOUS
<1>2. IsFiniteSet(T) /\ Bad \subseteq SUBSET T
  BY FS_Subset
<1>3. PICK s \in Bad : \A u \in Bad : u \subseteq s => u = s
  <2> HIDE DEF Bad
  <2>1. QED
    BY <1>1, <1>2, SmallestSet
<1>4. g[s] = SumBody(f, g, s) /\ h[s] = SumBody(e, h, s)
  BY DEF Sums
<1>5. s # {}
  BY <1>4 DEF SumBody
<1> DEFINE c == CHOOSE x \in s : TRUE
<1>6. c \in s
  BY <1>5
<1>7. s \ {c} \in SUBSET T /\ s \ {c} \notin Bad
  BY <1>3, <1>6
<1>8. g[s \ {c}] = h[s \ {c}] /\ f[c] = e[c]
  BY <1>6, <1>7
<1>9. SumBody(f, g, s) = SumBody(e, h, s)
  BY <1>5, <1>8 DEF SumBody
<1>10. QED
  BY <1>4, <1>9

LEMMA SumOfNone ==
    ASSUME NEW f
    PROVE  SumFunctionOnSet(f, {}) = 0
<1>1. Sums(TheSums(f, {}), f, {})
  BY FS_EmptySet, SumsExist
<1>2. TheSums(f, {})[{}] = 0
  BY <1>1 DEF SumBody, Sums
<1>3. QED
  BY <1>2, SumUnfolds

LEMMA SumOfEqual ==
    ASSUME NEW f, NEW e, NEW S, IsFiniteSet(S), \A x \in S : f[x] = e[x]
    PROVE  SumFunctionOnSet(f, S) = SumFunctionOnSet(e, S)
<1>1. Sums(TheSums(f, S), f, S) /\ Sums(TheSums(e, S), e, S)
  BY SumsExist
<1>2. S \in SUBSET S
  OBVIOUS
<1>3. TheSums(f, S)[S] = TheSums(e, S)[S]
  BY <1>1, <1>2, SumsAgree
<1>4. QED
  BY <1>3, SumUnfolds

\* The order of a sum does not matter: any element can be taken out first.
LEMMA SumWithout ==
    ASSUME NEW S, IsFiniteSet(S), NEW f, \A x \in S : f[x] \in Nat
    PROVE  /\ SumFunctionOnSet(f, S) \in Nat
           /\ \A x \in S : SumFunctionOnSet(f, S) = f[x] + SumFunctionOnSet(f, S \ {x})
<1> DEFINE g == TheSums(f, S)
<1> HIDE DEF g
<1>1. Sums(g, f, S)
  BY SumsExist DEF g
<1>2. ASSUME NEW T \in SUBSET S
      PROVE  SumFunctionOnSet(f, T) = g[T]
  <2>1. IsFiniteSet(T)
    BY FS_Subset
  <2>2. Sums(TheSums(f, T), f, T)
    BY <2>1, SumsExist
  <2>3. \A x \in T : f[x] = f[x]
    OBVIOUS
  <2>4. g[T] = TheSums(f, T)[T]
    BY <1>1, <2>2, <2>3, SumsAgree
  <2>5. QED
    BY <2>4, SumUnfolds
<1>3. \A s \in SUBSET S : s # {} =>
        /\ (CHOOSE x \in s : TRUE) \in s
        /\ g[s] = f[CHOOSE x \in s : TRUE] + g[s \ {CHOOSE x \in s : TRUE}]
  BY <1>1 DEF SumBody, Sums
<1>4. g[{}] = 0
  BY <1>1 DEF SumBody, Sums
<1> DEFINE Good(s) == g[s] \in Nat /\ \A x \in s : g[s] = f[x] + g[s \ {x}]
           Bad == {s \in SUBSET S : ~Good(s)}
<1>5. Bad = {}
  <2>1. SUFFICES ASSUME Bad # {} PROVE FALSE
    OBVIOUS
  <2>2. Bad \subseteq SUBSET S
    OBVIOUS
  <2>3. PICK s \in Bad : \A u \in Bad : u \subseteq s => u = s
    <3> HIDE DEF Bad
    <3>1. QED
      BY <2>1, <2>2, SmallestSet
  <2>4. Good({})
    BY <1>4
  <2>5. s # {}
    BY <2>3, <2>4
  <2> DEFINE c == CHOOSE x \in s : TRUE
  <2>6. c \in s /\ g[s] = f[c] + g[s \ {c}]
    BY <1>3, <2>5
  <2> HIDE DEF c
  <2>7. \A u \in SUBSET s : u # s => Good(u)
    BY <2>3
  <2>8. \A x \in s : Good(s \ {x}) /\ f[x] \in Nat
    BY <2>7
  <2>9. g[s] \in Nat
    BY <2>6, <2>8, SMTT(20)
  <2>10. ASSUME NEW x \in s, x # c
         PROVE  g[s] = f[x] + g[s \ {x}]
    <3>1. g[s \ {c}] = f[x] + g[(s \ {c}) \ {x}]
      BY <2>6, <2>8, <2>10
    <3>2. g[s \ {x}] = f[c] + g[(s \ {x}) \ {c}]
      BY <2>6, <2>8, <2>10
    <3>3. (s \ {c}) \ {x} = (s \ {x}) \ {c}
      OBVIOUS
    <3>4. Good((s \ {c}) \ {x})
      BY <2>6, <2>7
    <3>5. f[x] \in Nat /\ f[c] \in Nat /\ g[(s \ {x}) \ {c}] \in Nat
      BY <2>6, <2>8, <3>3, <3>4
    <3>6. QED
      BY <2>6, <3>1, <3>2, <3>3, <3>5
  <2>11. Good(s)
    BY <2>6, <2>9, <2>10
  <2>12. QED
    BY <2>3, <2>11
<1>6. Good(S) /\ \A x \in S : S \ {x} \in SUBSET S
  BY <1>5
<1>7. QED
  BY <1>2, <1>6

LEMMA SumOfZeros ==
    ASSUME NEW S, IsFiniteSet(S), NEW f, \A x \in S : f[x] = 0
    PROVE  SumFunctionOnSet(f, S) = 0
<1> DEFINE Bad == {s \in SUBSET S : SumFunctionOnSet(f, s) # 0}
<1>1. SUFFICES ASSUME Bad # {} PROVE FALSE
  BY <1>1
<1>2. Bad \subseteq SUBSET S
  OBVIOUS
<1>3. PICK s \in Bad : \A u \in Bad : u \subseteq s => u = s
  <2> HIDE DEF Bad
  <2>1. QED
    BY <1>1, <1>2, SmallestSet
<1>4. PICK x \in s : TRUE
  BY SumOfNone
<1>5. IsFiniteSet(s) /\ \A y \in s : f[y] \in Nat
  BY FS_Subset
<1>6. SumFunctionOnSet(f, s) = f[x] + SumFunctionOnSet(f, s \ {x})
  BY <1>5, SumWithout
<1>7. SumFunctionOnSet(f, s \ {x}) = 0
  BY <1>3
<1>8. QED
  BY <1>6, <1>7

\* Changing one summand changes the sum by as much.
LEMMA SumOfOneChanged ==
    ASSUME NEW S, IsFiniteSet(S), NEW f, NEW e, NEW x \in S,
           \A y \in S : f[y] \in Nat, \A y \in S : e[y] \in Nat,
           \A y \in S \ {x} : e[y] = f[y]
    PROVE  SumFunctionOnSet(e, S) = SumFunctionOnSet(f, S) - f[x] + e[x]
<1>1. IsFiniteSet(S \ {x})
  BY FS_Subset
<1>2. SumFunctionOnSet(e, S \ {x}) = SumFunctionOnSet(f, S \ {x})
  BY <1>1, SumOfEqual
<1>3. SumFunctionOnSet(e, S) = e[x] + SumFunctionOnSet(e, S \ {x})
  BY SumWithout
<1>4. SumFunctionOnSet(f, S) = f[x] + SumFunctionOnSet(f, S \ {x})
  BY SumWithout
<1>5. SumFunctionOnSet(f, S \ {x}) \in Nat /\ f[x] \in Nat /\ e[x] \in Nat
  BY <1>1, SumWithout
<1>6. QED
  BY <1>2, <1>3, <1>4, <1>5

-----------------------------------------------------------------------------
(* Ranks: what is at the n-th place of a finite set of numbers, and what a  *)
(* filter keeps of a sequence.                                              *)

\* The greater of two numbers has more before it.
LEMMA BeforeGrows ==
    ASSUME NEW ids \in SUBSET Nat, IsFiniteSet(ids), NEW a \in ids, NEW b \in ids
    PROVE  /\ Cardinality(Before(ids, a)) \in 0..(Cardinality(ids) - 1)
           /\ a < b <=> Cardinality(Before(ids, a)) < Cardinality(Before(ids, b))
           /\ a = b <=> Cardinality(Before(ids, a)) = Cardinality(Before(ids, b))
<1>1. \A x \in ids : /\ Before(ids, x) \in SUBSET ids /\ x \notin Before(ids, x) /\ x \in Nat
                     /\ Cardinality(Before(ids, x)) \in Nat /\ IsFiniteSet(Before(ids, x))
  <2>1. \A x \in ids : Before(ids, x) \in SUBSET ids /\ x \notin Before(ids, x) /\ x \in Nat
    BY DEF Before
  <2>2. \A x \in ids : IsFiniteSet(Before(ids, x))
    BY <2>1, FS_Subset
  <2>3. QED
    BY <2>1, <2>2, FS_CardinalityType
<1>2. \A x, y \in ids : x < y => Cardinality(Before(ids, x)) < Cardinality(Before(ids, y))
  <2>1. SUFFICES ASSUME NEW x \in ids, NEW y \in ids, x < y
                 PROVE  Cardinality(Before(ids, x)) < Cardinality(Before(ids, y))
    OBVIOUS
  <2>2. Before(ids, x) \in SUBSET Before(ids, y) /\ x \in Before(ids, y)
    <3>1. x \in Nat /\ y \in Nat /\ \A z \in ids : z \in Nat
      BY <1>1
    <3>2. \A z \in ids : z < x => z < y
      BY <2>1, <3>1
    <3>3. QED
      BY <2>1, <3>2 DEF Before
  <2>3. Before(ids, x) # Before(ids, y)
    BY <1>1, <2>2
  <2>4. /\ Cardinality(Before(ids, x)) <= Cardinality(Before(ids, y))
        /\ Cardinality(Before(ids, x)) # Cardinality(Before(ids, y))
    BY <1>1, <2>2, <2>3, FS_Subset
  <2>5. QED
    BY <1>1, <2>4
<1>3. Cardinality(Before(ids, a)) < Cardinality(ids)
  <2>1. Cardinality(ids) \in Nat
    BY FS_CardinalityType
  <2>2. /\ Cardinality(Before(ids, a)) <= Cardinality(ids)
        /\ Cardinality(Before(ids, a)) # Cardinality(ids)
    BY <1>1, FS_Subset
  <2>3. QED
    BY <1>1, <2>1, <2>2
<1>4. Cardinality(ids) \in Nat
  BY FS_CardinalityType
<1>5. a < b \/ a = b \/ b < a
  BY <1>1
<1>6. QED
  BY <1>1, <1>2, <1>3, <1>4, <1>5

\* The n-th of a finite set of numbers is one of them, and n-1 are before it.
LEMMA NthIs ==
    ASSUME NEW ids \in SUBSET Nat, IsFiniteSet(ids), NEW n \in 1..Cardinality(ids)
    PROVE  Nth(ids, n) \in ids /\ Cardinality(Before(ids, Nth(ids, n))) = n - 1
<1> DEFINE k == Cardinality(ids)
           f == [id \in ids |-> Cardinality(Before(ids, id))]
<1>1. k \in Nat
  BY FS_CardinalityType
<1>2. f \in Injection(ids, 0..(k - 1))
  <2>1. \A x, y \in ids : f[x] \in 0..(k - 1) /\ (f[x] = f[y] => x = y)
    BY BeforeGrows
  <2> HIDE DEF k
  <2>2. f \in [ids -> 0..(k - 1)]
    BY <2>1
  <2> HIDE DEF f
  <2>3. QED
    BY <2>1, <2>2 DEF Injection, IsInjective
<1>3. IsFiniteSet(0..(k - 1)) /\ Cardinality(0..(k - 1)) = k
  <2> HIDE DEF k
  <2>1. 0 \in Int /\ k - 1 \in Int /\ (0 > k - 1 <=> k = 0) /\ (k - 1) - 0 + 1 = k
    BY <1>1
  <2>2. /\ IsFiniteSet(0..(k - 1))
        /\ Cardinality(0..(k - 1)) = IF 0 > k - 1 THEN 0 ELSE (k - 1) - 0 + 1
    BY <2>1, FS_Interval
  <2>3. QED
    BY <2>1, <2>2
<1>4. f \in Surjection(ids, 0..(k - 1))
  BY <1>2, <1>3, FS_Injection
<1>5. n - 1 \in 0..(k - 1)
  BY <1>1
<1>6. \E id \in ids : f[id] = n - 1
  <2> HIDE DEF f
  <2>1. QED
    BY <1>4, <1>5 DEF Surjection
<1>7. \E id \in ids : Cardinality(Before(ids, id)) = n - 1
  BY <1>6
<1>8. QED
  BY <1>7 DEF Nth

\* Of a sequence, what is at some places, in order, none lost and none twice.
LEMMA ElementsAre ==
    ASSUME NEW S, NEW list \in Seq(S), NEW places \in SUBSET (1..Len(list))
    PROVE  LET some == ElementsAt(list, places) IN
           /\ some \in Seq(S) /\ Len(some) = Cardinality(places) /\ DOMAIN some = 1..Len(some)
           /\ \A n \in 1..Len(some) : Nth(places, n) \in places /\ some[n] = list[Nth(places, n)]
           /\ \A m, n \in 1..Len(some) : Nth(places, m) = Nth(places, n) => m = n
           /\ \A i \in places : \E n \in 1..Len(some) : Nth(places, n) = i
<1> DEFINE k == Cardinality(places)
           some == ElementsAt(list, places)
<1>1. /\ Len(list) \in Nat /\ places \in SUBSET Nat /\ IsFiniteSet(places) /\ k \in Nat
      /\ \A i \in places : list[i] \in S
  <2>1. Len(list) \in Nat /\ IsFiniteSet(1..Len(list))
    BY LenProperties, FS_Interval
  <2>2. IsFiniteSet(places)
    BY <2>1, FS_Subset
  <2>3. QED
    BY <2>1, <2>2, FS_CardinalityType, ElementOfSeq
<1>2. \A n \in 1..k : Nth(places, n) \in places /\ Cardinality(Before(places, Nth(places, n))) = n - 1
  BY <1>1, NthIs
<1> HIDE DEF k
<1>3. some = [n \in 1..k |-> list[Nth(places, n)]]
  BY DEF ElementsAt, k
<1> HIDE DEF some
<1>4. some \in Seq(S) /\ Len(some) = k /\ DOMAIN some = 1..k
  <2>1. some \in [1..k -> S]
    BY <1>1, <1>2, <1>3
  <2>2. QED
    BY <1>1, <2>1
<1>5. \A m, n \in 1..k : Nth(places, m) = Nth(places, n) => m = n
  BY <1>1, <1>2
<1>6. ASSUME NEW i \in places PROVE \E n \in 1..k : Nth(places, n) = i
  <2> DEFINE n == Cardinality(Before(places, i)) + 1
  <2>1. Cardinality(Before(places, i)) \in 0..(k - 1)
    BY <1>1, BeforeGrows DEF k
  <2>2. n \in 1..k /\ n - 1 = Cardinality(Before(places, i))
    BY <1>1, <2>1
  <2> HIDE DEF n
  <2> DEFINE j == Nth(places, n)
  <2>3. j \in places /\ Cardinality(Before(places, j)) = Cardinality(Before(places, i))
    BY <1>2, <2>2
  <2> HIDE DEF j
  <2>4. j = i
    BY <1>1, <2>3, BeforeGrows
  <2>5. QED
    BY <2>2, <2>4 DEF j
<1>7. \A n \in 1..k : Nth(places, n) \in places /\ some[n] = list[Nth(places, n)]
  BY <1>2, <1>3
<1>8. QED
  BY <1>4, <1>5, <1>6, <1>7 DEF some, k

\* A list without repetitions is as long as its elements are many.
LEMMA DistinctCount ==
    ASSUME NEW S, NEW list \in Seq(S), \A i, j \in 1..Len(list) : list[i] = list[j] => i = j
    PROVE  IsFiniteSet(ToSet(list)) /\ Len(list) = Cardinality(ToSet(list))
<1> DEFINE n == Len(list)
           f == [i \in 1..n |-> list[i]]
<1>1. n \in Nat /\ DOMAIN list = 1..n
  BY LenProperties
<1>2. (\A i \in 1..n : list[i] \in ToSet(list)) /\ \A x \in ToSet(list) : \E i \in 1..n : list[i] = x
  BY <1>1 DEF ToSet
<1> HIDE DEF n
<1>3. f \in [1..n -> ToSet(list)] /\ \A i \in 1..n : f[i] = list[i]
  BY <1>2
<1> HIDE DEF f
<1>4. f \in Injection(1..n, ToSet(list))
  BY <1>3 DEF Injection, IsInjective, n
<1>5. f \in Surjection(1..n, ToSet(list))
  BY <1>2, <1>3 DEF Surjection
<1>6. ExistsBijection(1..n, ToSet(list))
  BY <1>4, <1>5 DEF Bijection, ExistsBijection
<1>7. IsFiniteSet(1..n) /\ Cardinality(1..n) = IF 1 > n THEN 0 ELSE n - 1 + 1
  BY <1>1, FS_Interval
<1>8. IsFiniteSet(ToSet(list)) /\ Cardinality(ToSet(list)) = Cardinality(1..n)
  BY <1>6, <1>7, FS_Bijection
<1>9. QED
  BY <1>1, <1>7, <1>8 DEF n

\* Of all places of a sequence, what is there is the sequence.
LEMMA AllElements ==
    ASSUME NEW S, NEW list \in Seq(S)
    PROVE  ElementsAt(list, 1..Len(list)) = list
<1> DEFINE n == Len(list)
           some == ElementsAt(list, 1..n)
<1>1. n \in Nat /\ IsFiniteSet(1..n) /\ Cardinality(1..n) = n
  BY LenProperties, FS_Interval, SMTT(20)
<1>2. ASSUME NEW i \in 1..n PROVE Nth(1..n, i) = i
  <2> DEFINE x == Nth(1..n, i)
  <2>1. x \in 1..n /\ Cardinality(Before(1..n, x)) = i - 1
    BY <1>1, NthIs
  <2> HIDE DEF n, x
  <2>2. Before(1..n, x) = 1..(x - 1)
    BY <1>1, <2>1 DEF Before
  <2>3. Cardinality(1..(x - 1)) = x - 1
    <3>1. x - 1 \in Nat /\ (1 > x - 1 => x - 1 = 0) /\ (x - 1) - 1 + 1 = x - 1 /\ 1 \in Int
          /\ x - 1 \in Int
      BY <1>1, <2>1
    <3>2. Cardinality(1..(x - 1)) = IF 1 > x - 1 THEN 0 ELSE (x - 1) - 1 + 1
      BY <3>1, FS_Interval
    <3>3. QED
      BY <3>1, <3>2
  <2>4. QED
    BY <1>1, <2>1, <2>2, <2>3 DEF x
<1>3. some \in Seq(S) /\ Len(some) = n
  BY <1>1, ElementsAre
<1>4. \A i \in 1..n : some[i] = list[i]
  BY <1>1, <1>2 DEF ElementsAt
<1>5. QED
  BY <1>3, <1>4, SeqEqual

\* A queue is its head and the rest.
LEMMA SetOfQueue ==
    ASSUME NEW S, NEW s \in Seq(S), s # <<>>
    PROVE  Head(s) \in S /\ Tail(s) \in Seq(S) /\ ToSet(s) = {Head(s)} \cup ToSet(Tail(s))
<1>1. /\ Head(s) \in S /\ Tail(s) \in Seq(S) /\ Len(Tail(s)) = Len(s) - 1
      /\ \A i \in 1..Len(Tail(s)) : Tail(s)[i] = s[i + 1]
  BY HeadTailProperties
<1>2. /\ Len(s) \in Nat \ {0} /\ DOMAIN s = 1..Len(s) /\ DOMAIN Tail(s) = 1..Len(Tail(s))
      /\ Head(s) = s[1]
  BY <1>1, LenProperties, EmptySeq
<1>3. \A i \in 1..Len(s) : i = 1 \/ (i - 1 \in 1..Len(Tail(s)) /\ Tail(s)[i - 1] = s[i])
  BY <1>1, <1>2
<1>4. \A i \in 1..Len(Tail(s)) : i + 1 \in 1..Len(s) /\ Tail(s)[i] = s[i + 1]
  BY <1>1, <1>2
<1>5. /\ ToSet(s) = {s[i] : i \in 1..Len(s)}
      /\ ToSet(Tail(s)) = {Tail(s)[i] : i \in 1..Len(Tail(s))}
  BY <1>2 DEF ToSet
<1>6. ToSet(s) \subseteq {Head(s)} \cup ToSet(Tail(s))
  <2>1. SUFFICES ASSUME NEW i \in 1..Len(s) PROVE s[i] \in {Head(s)} \cup ToSet(Tail(s))
    BY <1>5
  <2>2. CASE i = 1
    BY <1>2, <2>2
  <2>3. CASE i - 1 \in 1..Len(Tail(s)) /\ Tail(s)[i - 1] = s[i]
    BY <1>5, <2>3
  <2>4. QED
    BY <1>3, <2>2, <2>3
<1>7. {Head(s)} \cup ToSet(Tail(s)) \subseteq ToSet(s)
  <2>1. Head(s) \in ToSet(s)
    BY <1>2, <1>5
  <2>2. ToSet(Tail(s)) \subseteq ToSet(s)
    BY <1>4, <1>5
  <2>3. QED
    BY <2>1, <2>2
<1>8. QED
  BY <1>1, <1>6, <1>7

\* A queue that another joins has what both had.
LEMMA SetOfBoth ==
    ASSUME NEW S, NEW s \in Seq(S), NEW t \in Seq(S)
    PROVE  s \o t \in Seq(S) /\ ToSet(s \o t) = ToSet(s) \cup ToSet(t)
<1> DEFINE m == Len(s)
           n == Len(t)
           u == s \o t
<1>1. /\ u \in Seq(S) /\ Len(u) = m + n
      /\ \A i \in 1..(m + n) : u[i] = IF i <= m THEN s[i] ELSE t[i - m]
  BY ConcatProperties
<1>2. /\ m \in Nat /\ n \in Nat
      /\ DOMAIN s = 1..m /\ DOMAIN t = 1..n /\ DOMAIN u = 1..(m + n)
  BY <1>1, LenProperties
<1> HIDE DEF m, n, u
<1>3. \A i \in 1..m : i \in 1..(m + n) /\ u[i] = s[i]
  BY <1>1, <1>2
<1>4. \A i \in 1..n : m + i \in 1..(m + n) /\ u[m + i] = t[i]
  BY <1>1, <1>2
<1>5. \A i \in 1..(m + n) : \/ i \in 1..m /\ u[i] = s[i]
                            \/ i - m \in 1..n /\ u[i] = t[i - m]
  BY <1>1, <1>2
<1>6. /\ ToSet(s) = {s[i] : i \in 1..m} /\ ToSet(t) = {t[i] : i \in 1..n}
      /\ ToSet(u) = {u[i] : i \in 1..(m + n)}
  BY <1>2 DEF ToSet
<1>7. ToSet(u) \subseteq ToSet(s) \cup ToSet(t)
  <2>1. SUFFICES ASSUME NEW i \in 1..(m + n) PROVE u[i] \in ToSet(s) \cup ToSet(t)
    BY <1>6
  <2>2. CASE i \in 1..m /\ u[i] = s[i]
    BY <1>6, <2>2
  <2>3. CASE i - m \in 1..n /\ u[i] = t[i - m]
    BY <1>6, <2>3
  <2>4. QED
    BY <1>5, <2>2, <2>3
<1>8. ToSet(s) \subseteq ToSet(u)
  BY <1>3, <1>6
<1>9. ToSet(t) \subseteq ToSet(u)
  BY <1>4, <1>6
<1>10. QED
  BY <1>1, <1>7, <1>8, <1>9 DEF u

\* What a filter keeps is what was at the places it keeps.
LEMMA SetOfSome ==
    ASSUME NEW S, NEW list \in Seq(S), NEW places \in SUBSET (1..Len(list))
    PROVE  /\ ElementsAt(list, places) \in Seq(S)
           /\ ToSet(ElementsAt(list, places)) = {list[i] : i \in places}
<1> DEFINE some == ElementsAt(list, places)
<1>1. some \in Seq(S)
  BY ElementsAre
<1>2. \A n \in 1..Len(some) : Nth(places, n) \in places /\ some[n] = list[Nth(places, n)]
  BY ElementsAre
<1>3. \A i \in places : \E n \in 1..Len(some) : Nth(places, n) = i
  BY ElementsAre
<1> HIDE DEF some
<1>4. ToSet(some) = {some[n] : n \in 1..Len(some)}
  BY <1>1, LenProperties DEF ToSet
<1>5. ToSet(some) \subseteq {list[i] : i \in places}
  BY <1>2, <1>4
<1>6. {list[i] : i \in places} \subseteq ToSet(some)
  <2>1. SUFFICES ASSUME NEW i \in places PROVE list[i] \in ToSet(some)
    OBVIOUS
  <2>2. PICK n \in 1..Len(some) : Nth(places, n) = i
    BY <1>3
  <2>3. QED
    BY <1>2, <1>4, <2>2
<1>7. QED
  BY <1>1, <1>5, <1>6 DEF some

-----------------------------------------------------------------------------
(* Sequences that are joined.                                              *)

\* What FlattenSeq computes: the function that the fold over the parts is.
FlatBody(seqs, g, i) == IF i = 1 THEN seqs[i] ELSE g[i - 1] \o seqs[i]
Flats(g, seqs) == g = [i \in 1..Len(seqs) |-> FlatBody(seqs, g, i)]
TheFlats(seqs) == CHOOSE g : Flats(g, seqs)

LEMMA FlattenUnfolds ==
    ASSUME NEW seqs, Len(seqs) # 0
    PROVE  FlattenSeq(seqs) = TheFlats(seqs)[Len(seqs)]
BY DEF FlattenSeq, FlatBody, Flats, TheFlats

\* A function that joins the parts one by one ends with their concatenation.
LEMMA FlattenIs ==
    ASSUME NEW seqs, Len(seqs) \in Nat \ {0}, NEW f, Flats(f, seqs)
    PROVE  FlattenSeq(seqs) = f[Len(seqs)]
<1> DEFINE g == TheFlats(seqs)
           l == Len(seqs)
<1>1. Flats(g, seqs)
  BY DEF TheFlats
<1> HIDE DEF g
<1>2. \A i \in 1..l : f[i] = FlatBody(seqs, f, i) /\ g[i] = FlatBody(seqs, g, i)
  BY <1>1 DEF Flats
<1> DEFINE Bad == {i \in Nat : i \in 1..l /\ f[i] # g[i]}
<1>3. Bad = {}
  <2>1. SUFFICES ASSUME Bad # {} PROVE FALSE
    OBVIOUS
  <2>2. PICK i \in Bad : \A j \in Bad : i <= j
    BY <2>1, LeastNatural
  <2>3. i \in 1..l /\ f[i] # g[i]
    BY <2>2
  <2>4. CASE i = 1
    BY <1>2, <2>3, <2>4 DEF FlatBody
  <2>5. CASE i # 1
    <3>1. i - 1 \in Nat /\ i - 1 \in 1..l /\ ~(i <= i - 1)
      BY <2>3, <2>5
    <3>2. i - 1 \notin Bad
      BY <2>2, <3>1
    <3>3. f[i - 1] = g[i - 1]
      BY <3>1, <3>2
    <3>4. QED
      BY <1>2, <2>3, <3>3 DEF FlatBody
  <2>6. QED
    BY <2>4, <2>5
<1>4. l \in 1..l
  OBVIOUS
<1>5. f[l] = g[l]
  BY <1>3, <1>4
<1>6. QED
  BY <1>5, FlattenUnfolds DEF g

\* There is such a function, built part by part.
LEMMA FlatsExist ==
    ASSUME NEW seqs, Len(seqs) \in Nat \ {0}
    PROVE  Flats(TheFlats(seqs), seqs)
<1> DEFINE Has(n) == \E g : g = [i \in 1..n |-> FlatBody(seqs, g, i)]
           Lacking == {n \in Nat \ {0} : ~Has(n)}
<1>1. Has(1)
  <2> DEFINE g == [i \in 1..1 |-> seqs[i]]
  <2>1. \A i \in 1..1 : i = 1
    OBVIOUS
  <2>2. g = [i \in 1..1 |-> FlatBody(seqs, g, i)]
    BY <2>1 DEF FlatBody
  <2>3. QED
    BY <2>2
<1>2. ASSUME NEW n \in Nat \ {0}, Has(n) PROVE Has(n + 1)
  <2>1. PICK g : g = [i \in 1..n |-> FlatBody(seqs, g, i)]
    BY <1>2
  <2> DEFINE h == [i \in 1..(n + 1) |-> FlatBody(seqs, g, i)]
  <2>2. \A i \in 1..n : h[i] = g[i]
    BY <2>1
  <2>3. \A i \in 1..(n + 1) : i # 1 => i - 1 \in 1..n
    OBVIOUS
  <2> HIDE DEF h
  <2>4. ASSUME NEW i \in 1..(n + 1) PROVE FlatBody(seqs, h, i) = FlatBody(seqs, g, i)
    BY <2>2, <2>3 DEF FlatBody
  <2>5. h = [i \in 1..(n + 1) |-> FlatBody(seqs, h, i)]
    BY <2>4 DEF h
  <2>6. QED
    BY <2>5
<1> HIDE DEF Has
<1>3. Lacking = {}
  <2>1. SUFFICES ASSUME Lacking # {} PROVE FALSE
    OBVIOUS
  <2>2. PICK m \in Lacking : \A n \in Lacking : m <= n
    BY <2>1, LeastNatural
  <2>3. m # 1
    BY <1>1, <2>2
  <2>4. m - 1 \in Nat \ {0} /\ m - 1 \notin Lacking
    BY <2>2, <2>3
  <2>5. Has((m - 1) + 1)
    BY <1>2, <2>4
  <2>6. QED
    BY <2>2, <2>5
<1>4. \E g : Flats(g, seqs)
  BY <1>3 DEF Has, Flats
<1>5. QED
  BY <1>4 DEF TheFlats

\* Where the parts are once they are joined: each at its place, in its order, and nothing else.
PlacesIn(flat, seqs, start, n) ==
    /\ \A m \in 1..n : \A i \in 1..Len(seqs[m]) :
          start[m] + i \in 1..Len(flat) /\ flat[start[m] + i] = seqs[m][i]
    /\ \A k \in 1..Len(flat) : \E m \in 1..n : \E i \in 1..Len(seqs[m]) : k = start[m] + i

LEMMA JoinedPlaces ==
    ASSUME NEW T, NEW flat \in Seq(T), NEW seqs \in Seq(Seq(T)), NEW n \in Nat, n + 1 \in 1..Len(seqs),
           NEW start \in [1..Len(seqs) -> Nat], PlacesIn(flat, seqs, start, n),
           start[n + 1] = Len(flat)
    PROVE  PlacesIn(flat \o seqs[n + 1], seqs, start, n + 1)
<1> DEFINE part == seqs[n + 1]
           joined == flat \o part
<1>1. part \in Seq(T) /\ Len(part) \in Nat /\ Len(flat) \in Nat
      /\ \A m \in 1..Len(seqs) : Len(seqs[m]) \in Nat
  BY LenProperties, ElementOfSeq
<1>2. \A m \in 1..n : m \in 1..Len(seqs) /\ m \in 1..(n + 1)
  BY LenProperties
<1> HIDE DEF part
<1>3. /\ Len(joined) = Len(flat) + Len(part)
      /\ \A i \in 1..(Len(flat) + Len(part)) :
            joined[i] = IF i <= Len(flat) THEN flat[i] ELSE part[i - Len(flat)]
  BY <1>1, ConcatProperties
<1> HIDE DEF joined
<1>4. ASSUME NEW m \in 1..(n + 1), NEW i \in 1..Len(seqs[m])
      PROVE  start[m] + i \in 1..Len(joined) /\ joined[start[m] + i] = seqs[m][i]
  <2>1. CASE m \in 1..n
    <3>1. start[m] + i \in 1..Len(flat) /\ flat[start[m] + i] = seqs[m][i]
      BY <2>1 DEF PlacesIn
    <3>2. QED
      BY <1>1, <1>3, <3>1
  <2>2. CASE m = n + 1
    <3>1. start[m] = Len(flat) /\ i \in 1..Len(part)
      BY <2>2 DEF part
    <3>2. start[m] + i \in 1..(Len(flat) + Len(part)) /\ ~(start[m] + i <= Len(flat))
          /\ (start[m] + i) - Len(flat) = i
      BY <1>1, <3>1
    <3>3. QED
      BY <1>3, <2>2, <3>1, <3>2 DEF part
  <2>3. QED
    BY <2>1, <2>2
<1>5. ASSUME NEW k \in 1..Len(joined)
      PROVE  \E m \in 1..(n + 1) : \E i \in 1..Len(seqs[m]) : k = start[m] + i
  <2>1. CASE k \in 1..Len(flat)
    <3>1. PICK m \in 1..n : \E i \in 1..Len(seqs[m]) : k = start[m] + i
      BY <2>1 DEF PlacesIn
    <3>2. QED
      BY <1>2, <3>1
  <2>2. CASE k \notin 1..Len(flat)
    <3>1. k - Len(flat) \in 1..Len(part) /\ k = Len(flat) + (k - Len(flat))
      BY <1>1, <1>3, <2>2
    <3>2. n + 1 \in 1..(n + 1)
      OBVIOUS
    <3>3. QED
      BY <3>1, <3>2 DEF part
  <2>3. QED
    BY <2>1, <2>2
<1>6. QED
  BY <1>4, <1>5 DEF PlacesIn, joined, part

LEMMA FlattenPlaces ==
    ASSUME NEW T, NEW seqs \in Seq(Seq(T)), seqs # <<>>
    PROVE  /\ FlattenSeq(seqs) \in Seq(T)
           /\ \E start \in [1..Len(seqs) -> Nat] : PlacesIn(FlattenSeq(seqs), seqs, start, Len(seqs))
<1> DEFINE l == Len(seqs)
           f == TheFlats(seqs)
           start == [n \in 1..l |-> IF n = 1 THEN 0 ELSE Len(f[n - 1])]
<1>1. l \in Nat \ {0} /\ \A n \in 1..l : seqs[n] \in Seq(T)
  BY EmptySeq, LenProperties, ElementOfSeq
<1>2. Flats(f, seqs) /\ FlattenSeq(seqs) = f[l]
  BY <1>1, FlatsExist, FlattenIs
<1> HIDE DEF f
<1>3. \A n \in 1..l : f[n] = IF n = 1 THEN seqs[1] ELSE f[n - 1] \o seqs[n]
  BY <1>2 DEF Flats, FlatBody
<1>4. \A n \in 1..l : f[n] \in Seq(T)
  <2> DEFINE Other == {n \in Nat : n \in 1..l /\ f[n] \notin Seq(T)}
  <2>1. SUFFICES ASSUME Other # {} PROVE FALSE
    BY SMTT(20)
  <2>2. PICK n \in Other : \A m \in Other : n <= m
    BY <1>1, <2>1, LeastNatural
  <2>3. CASE n = 1
    BY <1>1, <1>3, <2>2, <2>3
  <2>4. CASE n # 1
    <3>1. n - 1 \in 1..l /\ ~(n <= n - 1)
      BY <1>1, <2>2, <2>4
    <3>2. f[n - 1] \in Seq(T)
      BY <2>2, <3>1
    <3>3. f[n] = f[n - 1] \o seqs[n] /\ seqs[n] \in Seq(T)
      BY <1>1, <1>3, <2>2, <2>4
    <3>4. f[n] \in Seq(T)
      BY <3>2, <3>3, ConcatProperties
    <3>5. QED
      BY <2>2, <3>4
  <2>5. QED
    BY <2>3, <2>4
<1>5. start \in [1..l -> Nat]
  <2>1. ASSUME NEW n \in 1..l PROVE (IF n = 1 THEN 0 ELSE Len(f[n - 1])) \in Nat
    <3>1. n # 1 => n - 1 \in 1..l
      BY <1>1
    <3>2. QED
      BY <1>4, <3>1, LenProperties
  <2>2. QED
    BY <2>1
<1>6. start[1] = 0 /\ \A n \in 1..l : n # 1 => start[n] = Len(f[n - 1])
  BY <1>1
<1> HIDE DEF start, l
<1>7. \A n \in 1..l : PlacesIn(f[n], seqs, start, n)
  <2> DEFINE Wrong == {n \in Nat : n \in 1..l /\ ~PlacesIn(f[n], seqs, start, n)}
  <2>1. SUFFICES ASSUME Wrong # {} PROVE FALSE
    OBVIOUS
  <2>2. PICK n \in Wrong : \A m \in Wrong : n <= m
    BY <1>1, <2>1, LeastNatural
  <2>3. CASE n = 1
    <3>1. f[1] = seqs[1] /\ 1 \in 1..l
      BY <1>1, <1>3
    <3>2. Len(seqs[1]) \in Nat
      BY <1>1, <3>1, LenProperties
    <3>3. \A m \in 1..1 : m = 1
      OBVIOUS
    <3>4. \A i \in 1..Len(seqs[1]) : 0 + i = i
      BY <3>2
    <3>5. PlacesIn(f[1], seqs, start, 1)
      BY <1>6, <3>1, <3>3, <3>4 DEF PlacesIn
    <3>6. QED
      BY <2>2, <2>3, <3>5
  <2>4. CASE n # 1
    <3>1. n - 1 \in 1..l /\ ~(n <= n - 1) /\ n - 1 \in Nat /\ (n - 1) + 1 = n
      BY <1>1, <2>2, <2>4
    <3>2. PlacesIn(f[n - 1], seqs, start, n - 1)
      BY <2>2, <3>1
    <3>3. f[n] = f[n - 1] \o seqs[n] /\ start[n] = Len(f[n - 1]) /\ f[n - 1] \in Seq(T)
      BY <1>3, <1>4, <1>6, <2>2, <2>4, <3>1
    <3> DEFINE before == f[n - 1]
               p == n - 1
    <3>4. /\ p \in Nat /\ p + 1 \in 1..Len(seqs) /\ before \in Seq(T) /\ start[p + 1] = Len(before)
          /\ PlacesIn(before, seqs, start, p) /\ start \in [1..Len(seqs) -> Nat]
      BY <1>5, <2>2, <3>1, <3>2, <3>3 DEF l
    <3> HIDE DEF before, p
    <3>5. PlacesIn(before \o seqs[p + 1], seqs, start, p + 1)
      BY <3>4, JoinedPlaces
    <3>6. PlacesIn(f[n], seqs, start, n)
      BY <3>1, <3>3, <3>5 DEF before, p
    <3>7. QED
      BY <2>2, <3>6
  <2>5. QED
    BY <2>3, <2>4
<1>8. l \in 1..l
  BY <1>1
<1>9. QED
  BY <1>2, <1>4, <1>5, <1>7, <1>8 DEF l

\* What is at the places of an interval, in order.
LEMMA IntervalElements ==
    ASSUME NEW list, NEW a \in Nat, NEW n \in Nat
    PROVE  ElementsAt(list, (a + 1)..(a + n)) = [i \in 1..n |-> list[a + i]]
<1> DEFINE places == (a + 1)..(a + n)
<1>1. IsFiniteSet(places) /\ Cardinality(places) = n /\ places \in SUBSET Nat
  <2>1. a + 1 \in Int /\ a + n \in Int /\ (a + 1 > a + n <=> n = 0) /\ (a + n) - (a + 1) + 1 = n
    OBVIOUS
  <2>2. IsFiniteSet(places)
        /\ Cardinality(places) = IF a + 1 > a + n THEN 0 ELSE (a + n) - (a + 1) + 1
    BY <2>1, FS_Interval
  <2>3. QED
    BY <2>1, <2>2
<1>2. ASSUME NEW i \in 1..n PROVE Nth(places, i) = a + i
  <2> DEFINE x == Nth(places, i)
  <2>1. x \in places /\ Cardinality(Before(places, x)) = i - 1
    BY <1>1, NthIs
  <2> HIDE DEF x
  <2>2. Before(places, x) = (a + 1)..(x - 1)
    BY <2>1 DEF Before
  <2>3. /\ x \in Int /\ a + 1 \in Int /\ x - 1 \in Int
        /\ (a + 1 > x - 1 <=> x = a + 1) /\ (x - 1) - (a + 1) + 1 = x - (a + 1)
    BY <2>1
  <2>4. Cardinality((a + 1)..(x - 1)) = IF a + 1 > x - 1 THEN 0 ELSE (x - 1) - (a + 1) + 1
    BY <2>3, FS_Interval
  <2>5. i - 1 = x - (a + 1)
    BY <2>1, <2>2, <2>3, <2>4
  <2>6. x = a + i
    BY <2>3, <2>5
  <2>7. QED
    BY <2>6 DEF x
<1> HIDE DEF places
<1>3. ElementsAt(list, places) = [i \in 1..n |-> list[Nth(places, i)]]
  BY <1>1 DEF ElementsAt
<1>4. QED
  BY <1>2, <1>3 DEF places

=============================================================================
