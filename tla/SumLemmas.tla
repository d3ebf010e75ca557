----------------------------- MODULE SumLemmas ------------------------------
(***************************************************************************)
(* Sums over finite sets, as the models take them with MapThenSumSet,      *)
(* least and greatest numbers, and quotients rounded down: what the proofs *)
(* about credit, receipts, rates and limits need of them. Induction over   *)
(* data takes a least counterexample here: a nonempty set of naturals has  *)
(* a least element (LeastNatural), so of the finite sets with a property   *)
(* one is minimal (SmallestSet).                                           *)
(***************************************************************************)
EXTENDS Integers, FiniteSets, FiniteSetsExt, FiniteSetTheorems,
        WellFoundedInduction, TLAPS

\* A nonempty set of naturals has a least element.
LEMMA LeastNatural ==
  ASSUME NEW T, T \subseteq Nat, T # {}
  PROVE  \E x \in T : \A y \in T : x <= y
<1>1. PICK R : R = OpToRel(<, Nat) /\ IsWellFoundedOn(R, Nat)
  BY NatLessThanWellFounded
<1>2. \A x, y \in Nat : x < y => <<x, y>> \in R
  BY <1>1 DEF OpToRel
<1>3. PICK x \in T : \A y \in T : ~(<<y, x>> \in R)
  BY <1>1, WFMin
<1>4. \A y \in T : x \in Nat /\ y \in Nat /\ ~(y < x)
  BY <1>2, <1>3
<1>5. \A y \in T : x <= y
  BY <1>4
<1>. QED
  BY <1>5

\* And one of bounded naturals a greatest.
LEMMA GreatestNatural ==
  ASSUME NEW T, T \subseteq Nat, T # {}, NEW bound \in Nat, \A y \in T : y <= bound
  PROVE  \E x \in T : \A y \in T : y <= x
<1>. DEFINE D == {n \in Nat : bound - n \in T}
<1>1. \A y \in T : y \in Nat /\ bound - y \in D
  <2>. SUFFICES ASSUME NEW y \in T PROVE y \in Nat /\ bound - y \in D
    OBVIOUS
  <2>1. y \in Nat /\ y <= bound
    OBVIOUS
  <2>2. bound - y \in Nat /\ bound - (bound - y) = y
    BY <2>1
  <2>. QED
    BY <2>1, <2>2
<1>2. PICK d \in D : \A e \in D : d <= e
  BY <1>1, LeastNatural
<1>3. PICK x \in T : x = bound - d /\ d \in Nat /\ x \in Nat
  BY <1>2
<1>4. ASSUME NEW y \in T PROVE y <= x
  BY <1>1, <1>2, <1>3
<1>. QED
  BY <1>4

\* Of the finite sets with a property, one of the smallest.
LEMMA SmallestSet ==
  ASSUME NEW F, F # {}, \A s \in F : IsFiniteSet(s)
  PROVE  \E s \in F : \A x \in s : s \ {x} \notin F
<1>. DEFINE T == {Cardinality(s) : s \in F}
<1>1. T \subseteq Nat /\ T # {}
  BY FS_CardinalityType
<1>2. PICK n \in T : \A m \in T : n <= m
  BY <1>1, LeastNatural
<1>3. PICK s \in F : n = Cardinality(s)
  BY <1>2
<1>4. ASSUME NEW x \in s PROVE s \ {x} \notin F
  <2>1. Cardinality(s \ {x}) = Cardinality(s) - 1 /\ Cardinality(s) \in Nat
    BY FS_RemoveElement, FS_CardinalityType
  <2>. QED
    BY <1>2, <1>3, <2>1
<1>. QED
  BY <1>4

-----------------------------------------------------------------------------
\* The sum of f over S: the recursion takes elements in an order of its own.
Total(f, S) == MapThenSumSet(LAMBDA x : f[x], S)
Some(s) == CHOOSE x \in s : TRUE
Solves(f, S, g) ==
  g = [s \in SUBSET S |-> IF s = {} THEN 0 ELSE f[Some(s)] + g[s \ {Some(s)}]]


\* The definition of the library, unfolded.
LEMMA TotalIs == \A f, S : Total(f, S) = (CHOOSE g : Solves(f, S, g))[S]
BY DEF Total, MapThenSumSet, MapThenFoldSet, Solves, Some

\* A function that adds up in whatever order.
Adds(f, S, h) ==
  /\ h \in [SUBSET S -> Int]
  /\ h[{}] = 0
  /\ \A s \in SUBSET S : \A x \in s : h[s] = f[x] + h[s \ {x}]

\* It can be extended by one more element.
LEMMA AddsMore ==
  ASSUME NEW f, NEW S, \A x \in S : f[x] \in Int, NEW h, Adds(f, S, h),
         NEW y, y \notin S, f[y] \in Int
  PROVE  \E k : Adds(f, S \cup {y}, k)
<1>1. PICK k : k = [s \in SUBSET (S \cup {y}) |->
                      IF y \in s THEN f[y] + h[s \ {y}] ELSE h[s]]
  OBVIOUS
<1>2. \A s \in SUBSET (S \cup {y}) : s \ {y} \in SUBSET S /\ h[s \ {y}] \in Int
  BY DEF Adds
<1>3. k \in [SUBSET (S \cup {y}) -> Int] /\ k[{}] = 0
  BY <1>1, <1>2 DEF Adds
<1>4. ASSUME NEW s \in SUBSET (S \cup {y}), NEW x \in s PROVE k[s] = f[x] + k[s \ {x}]
  <2>1. CASE y \notin s
    BY <1>1, <2>1 DEF Adds
  <2>2. CASE x = y
    BY <1>1, <2>2
  <2>3. CASE y \in s /\ x # y
    <3>1. x \in s \ {y} /\ s \ {y} \in SUBSET S /\ f[x] \in Int
      BY <2>3
    <3>2. h[s \ {y}] = f[x] + h[(s \ {y}) \ {x}] /\ h[(s \ {y}) \ {x}] \in Int
      BY <3>1 DEF Adds
    <3>3. (s \ {y}) \ {x} = (s \ {x}) \ {y}
      OBVIOUS
    <3>4. k[s] = f[y] + h[s \ {y}] /\ k[s \ {x}] = f[y] + h[(s \ {x}) \ {y}]
      BY <1>1, <2>3
    <3>5. PICK r \in Int : r = h[(s \ {y}) \ {x}]
      BY <3>2
    <3>6. PICK p, q \in Int : p = f[x] /\ q = f[y]
      BY <3>1
    <3>7. k[s] = q + (p + r) /\ k[s \ {x}] = q + r
      BY <3>2, <3>3, <3>4, <3>5, <3>6
    <3>8. q + (p + r) = p + (q + r)
      OBVIOUS
    <3>. QED
      BY <3>6, <3>7, <3>8
  <2>. QED
    BY <2>1, <2>2, <2>3
<1>. QED
  BY <1>3, <1>4 DEF Adds

\* On a finite set there is one.
LEMMA SomeAdds ==
  ASSUME NEW S, IsFiniteSet(S), NEW f, \A x \in S : f[x] \in Int
  PROVE  \E h : Adds(f, S, h)
<1>. DEFINE F == {s \in SUBSET S : ~\E h : Adds(f, s, h)}
<1>. SUFFICES ASSUME F # {} PROVE FALSE
  OBVIOUS
<1>1. PICK s \in F : \A x \in s : s \ {x} \notin F
  BY SmallestSet, FS_Subset
<1>2. CASE s = {}
  <2>1. Adds(f, {}, [t \in SUBSET {} |-> 0])
    BY DEF Adds
  <2>. QED
    BY <1>1, <1>2, <2>1
<1>3. ASSUME NEW x \in s PROVE FALSE
  <2>1. \E h : Adds(f, s \ {x}, h)
    BY <1>1
  <2>2. \E k : Adds(f, (s \ {x}) \cup {x}, k)
    BY <2>1, AddsMore
  <2>3. (s \ {x}) \cup {x} = s
    OBVIOUS
  <2>. QED
    BY <1>1, <2>2, <2>3
<1>. QED
  BY <1>2, <1>3

\* And the sum is what it says.
LEMMA TotalIsAdded ==
  ASSUME NEW S, IsFiniteSet(S), NEW f, NEW h, Adds(f, S, h)
  PROVE  Total(f, S) = h[S]
<1>1. \A s \in SUBSET S : s # {} => Some(s) \in s
  BY DEF Some
<1>2. Solves(f, S, h)
  <2>1. \A s \in SUBSET S : h[s] = IF s = {} THEN 0 ELSE f[Some(s)] + h[s \ {Some(s)}]
    BY <1>1 DEF Adds
  <2>2. h = [s \in SUBSET S |-> h[s]]
    BY DEF Adds
  <2>. QED
    BY <2>1, <2>2 DEF Solves
<1>3. PICK g : g = (CHOOSE k : Solves(f, S, k))
  OBVIOUS
<1>4. Solves(f, S, g)
  BY <1>2, <1>3
<1>5. \A s \in SUBSET S : g[s] = IF s = {} THEN 0 ELSE f[Some(s)] + g[s \ {Some(s)}]
  BY <1>4 DEF Solves
<1>. DEFINE F == {s \in SUBSET S : g[s] # h[s]}
<1>6. ASSUME F # {} PROVE FALSE
  <2>1. PICK s \in F : \A x \in s : s \ {x} \notin F
    BY <1>6, SmallestSet, FS_Subset
  <2>2. s # {}
    BY <2>1, <1>5 DEF Adds
  <2>3. g[s \ {Some(s)}] = h[s \ {Some(s)}]
    BY <1>1, <2>1, <2>2
  <2>4. h[s] = f[Some(s)] + h[s \ {Some(s)}]
    BY <1>1, <2>2 DEF Adds
  <2>5. g[s] = f[Some(s)] + g[s \ {Some(s)}]
    BY <1>5, <2>2
  <2>. QED
    BY <2>1, <2>3, <2>4, <2>5
<1>. QED
  BY <1>3, <1>6, TotalIs

\* The sum over nothing.
LEMMA TotalEmpty == \A f : Total(f, {}) = 0
<1>. SUFFICES ASSUME NEW f PROVE Total(f, {}) = 0
  OBVIOUS
<1>1. PICK h : Adds(f, {}, h)
  BY SomeAdds, FS_EmptySet
<1>. QED
  BY <1>1, TotalIsAdded, FS_EmptySet DEF Adds

\* Any one element may be taken out first.
LEMMA TotalWith ==
  ASSUME NEW S, IsFiniteSet(S), NEW f, \A x \in S : f[x] \in Int, NEW y \in S
  PROVE  Total(f, S) = f[y] + Total(f, S \ {y}) /\ Total(f, S) \in Int /\ Total(f, S \ {y}) \in Int
<1>1. PICK h : Adds(f, S, h)
  BY SomeAdds
<1>2. PICK k : k = [s \in SUBSET (S \ {y}) |-> h[s]]
  OBVIOUS
<1>3. Adds(f, S \ {y}, k)
  BY <1>1, <1>2 DEF Adds
<1>4. Total(f, S) = h[S] /\ Total(f, S \ {y}) = k[S \ {y}]
  BY <1>1, <1>3, TotalIsAdded, FS_Subset
<1>. QED
  BY <1>1, <1>2, <1>4 DEF Adds

\* Only the values on the set count.
LEMMA TotalSame ==
  ASSUME NEW S, IsFiniteSet(S), NEW f, NEW e, \A x \in S : f[x] = e[x]
  PROVE  Total(f, S) = Total(e, S)
<1>1. ASSUME NEW g PROVE Solves(f, S, g) <=> Solves(e, S, g)
  <2>1. \A s \in SUBSET S : s # {} => f[Some(s)] = e[Some(s)]
    BY DEF Some
  <2>. QED
    BY <2>1 DEF Solves
<1>2. (CHOOSE g : Solves(f, S, g)) = (CHOOSE g : Solves(e, S, g))
  BY <1>1
<1>. QED
  BY <1>2, TotalIs

\* One more element.
LEMMA TotalAdded ==
  ASSUME NEW S, IsFiniteSet(S), NEW f, NEW y, y \notin S,
         \A x \in S \cup {y} : f[x] \in Int
  PROVE  Total(f, S \cup {y}) = f[y] + Total(f, S)
<1>1. IsFiniteSet(S \cup {y}) /\ (S \cup {y}) \ {y} = S
  BY FS_AddElement
<1>. QED
  BY <1>1, TotalWith

\* A sum is a number.
LEMMA TotalType ==
  ASSUME NEW S, IsFiniteSet(S), NEW f, \A x \in S : f[x] \in Int
  PROVE  Total(f, S) \in Int
<1>1. CASE S = {}
  BY <1>1, TotalEmpty
<1>2. ASSUME NEW y \in S PROVE Total(f, S) \in Int
  BY <1>2, TotalWith
<1>. QED
  BY <1>1, <1>2

\* Another value for one element changes the sum by the difference.
LEMMA TotalChanged ==
  ASSUME NEW S, IsFiniteSet(S), NEW f, NEW e, NEW y \in S,
         \A x \in S : f[x] \in Int /\ e[x] \in Int,
         \A x \in S \ {y} : e[x] = f[x]
  PROVE  Total(e, S) = Total(f, S) - f[y] + e[y]
<1>1. /\ Total(f, S) = f[y] + Total(f, S \ {y}) /\ Total(f, S \ {y}) \in Int
      /\ Total(e, S) = e[y] + Total(e, S \ {y})
  BY TotalWith
<1>2. Total(f, S \ {y}) = Total(e, S \ {y})
  BY TotalSame, FS_Subset
<1>. QED
  BY <1>1, <1>2

\* Larger values have the larger sum.
LEMMA TotalGrows ==
  ASSUME NEW S, IsFiniteSet(S), NEW f, NEW e,
         \A x \in S : f[x] \in Int /\ e[x] \in Int /\ f[x] <= e[x]
  PROVE  Total(f, S) <= Total(e, S)
<1>. DEFINE F == {s \in SUBSET S : ~(Total(f, s) <= Total(e, s))}
<1>. SUFFICES ASSUME F # {} PROVE FALSE
  OBVIOUS
<1>1. PICK s \in F : \A x \in s : s \ {x} \notin F
  BY SmallestSet, FS_Subset
<1>2. s # {}
  BY <1>1, TotalEmpty
<1>3. PICK y \in s : TRUE
  BY <1>2
<1>4. IsFiniteSet(s) /\ s \ {y} \in SUBSET S /\ f[y] \in Int /\ e[y] \in Int /\ f[y] <= e[y]
  BY FS_Subset
<1>5. Total(f, s) = f[y] + Total(f, s \ {y}) /\ Total(f, s \ {y}) \in Int
  BY <1>4, TotalWith
<1>6. Total(e, s) = e[y] + Total(e, s \ {y}) /\ Total(e, s \ {y}) \in Int
  BY <1>4, TotalWith
<1>7. Total(f, s \ {y}) <= Total(e, s \ {y})
  BY <1>1, <1>4
<1>. QED
  BY <1>1, <1>4, <1>5, <1>6, <1>7

\* Elements that count nothing may be left out.
LEMMA TotalWithoutZeros ==
  ASSUME NEW S, IsFiniteSet(S), NEW R \in SUBSET S, NEW e,
         \A x \in S : e[x] \in Int, \A x \in S \ R : e[x] = 0
  PROVE  Total(e, S) = Total(e, R)
<1>. DEFINE F == {s \in SUBSET (S \ R) : Total(e, R \cup s) # Total(e, R)}
<1>1. \A s \in SUBSET S : IsFiniteSet(s)
  BY FS_Subset
<1>. SUFFICES ASSUME F # {} PROVE FALSE
  <2>1. R \cup (S \ R) = S /\ S \ R \in SUBSET (S \ R)
    OBVIOUS
  <2>2. S \ R \notin F => Total(e, R \cup (S \ R)) = Total(e, R)
    BY <2>1
  <2>. QED
    BY <2>1, <2>2
<1>2. PICK s \in F : \A x \in s : s \ {x} \notin F
  BY <1>1, SmallestSet
<1>3. s # {}
  <2>1. R \cup {} = R
    OBVIOUS
  <2>. QED
    BY <1>2, <2>1
<1>4. PICK y \in s : TRUE
  BY <1>3
<1>5. (R \cup s) \ {y} = R \cup (s \ {y}) /\ y \in R \cup s /\ R \cup s \in SUBSET S
  BY <1>2, <1>4
<1>6. Total(e, R \cup s) = e[y] + Total(e, (R \cup s) \ {y}) /\ e[y] = 0
      /\ Total(e, (R \cup s) \ {y}) \in Int
  <2>1. IsFiniteSet(R \cup s) /\ (\A x \in R \cup s : e[x] \in Int) /\ e[y] = 0
    BY <1>1, <1>2, <1>4, <1>5
  <2>. QED
    BY <1>5, <2>1, TotalWith
<1>7. Total(e, R \cup (s \ {y})) = Total(e, R)
  BY <1>2, <1>4
<1>. QED
  BY <1>2, <1>5, <1>6, <1>7

\* A sum of naturals counts each of them, and that of a part is the smaller.
LEMMA TotalOfPart ==
  ASSUME NEW S, IsFiniteSet(S), NEW R \in SUBSET S, NEW f, \A x \in S : f[x] \in Nat
  PROVE  Total(f, R) <= Total(f, S) /\ 0 <= Total(f, R)
<1>. DEFINE e == [x \in S |-> IF x \in R THEN f[x] ELSE 0]
<1>0. \A x \in S : e[x] \in Int /\ f[x] \in Int /\ e[x] <= f[x] /\ 0 <= f[x]
  OBVIOUS
<1>1. IsFiniteSet(R) /\ \A s \in SUBSET S : IsFiniteSet(s)
  BY FS_Subset
<1>2. Total(e, S) = Total(e, R)
  <2>1. \A x \in S \ R : e[x] = 0
    OBVIOUS
  <2>. HIDE DEF e
  <2>. QED
    BY <1>0, <2>1, TotalWithoutZeros
<1>3. Total(e, S) <= Total(f, S)
  <2>. HIDE DEF e
  <2>. QED
    BY <1>0, TotalGrows
<1>4. Total(e, R) = Total(f, R)
  <2>1. \A x \in R : e[x] = f[x]
    OBVIOUS
  <2>. HIDE DEF e
  <2>. QED
    BY <1>1, <2>1, TotalSame
<1>5. 0 <= Total(f, R)
  <2>. DEFINE G == {s \in SUBSET S : ~(0 <= Total(f, s))}
  <2>. SUFFICES ASSUME G # {} PROVE FALSE
    OBVIOUS
  <2>1. PICK s \in G : \A x \in s : s \ {x} \notin G
    BY <1>1, SmallestSet
  <2>2. PICK y \in s : TRUE
    BY <2>1, TotalEmpty
  <2>3. Total(f, s) = f[y] + Total(f, s \ {y}) /\ Total(f, s \ {y}) \in Int /\ f[y] \in Nat
    BY <1>0, <1>1, <2>1, TotalWith
  <2>4. 0 <= Total(f, s \ {y})
    BY <2>1
  <2>. QED
    BY <2>1, <2>3, <2>4
<1>. QED
  BY <1>2, <1>3, <1>4, <1>5
-----------------------------------------------------------------------------
\* A quotient rounded down.
LEMMA Quotient ==
  ASSUME NEW a \in Nat, NEW b \in Nat, b > 0
  PROVE  /\ a \div b \in Nat
         /\ b * (a \div b) <= a /\ a < b * (a \div b) + b
<1>1. PICK q \in Int : q = a \div b
  OBVIOUS
<1>2. b * q <= a /\ a < b * q + b
  BY <1>1
<1>3. ASSUME q < 0 PROVE FALSE
  <2>1. PICK d \in Nat : q = -1 - d
    BY <1>3
  <2>2. b * q = - b - b * d /\ b * d \in Nat
    BY <2>1
  <2>. QED
    BY <1>2, <2>2
<1>. QED
  BY <1>1, <1>2, <1>3

\* Products of a number are in the order of the numbers multiplied.
LEMMA Multiples ==
  ASSUME NEW b \in Nat, NEW n \in Nat, NEW m \in Nat
  PROVE  /\ b * n \in Nat /\ n * b = b * n
         /\ n <= m => b * n <= b * m
         /\ n < m => b * n + b <= b * m
<1>1. ASSUME n <= m PROVE b * n <= b * m
  <2>1. PICK d \in Nat : m = n + d
    BY <1>1
  <2>2. b * m = b * n + b * d /\ b * d \in Nat
    BY <2>1
  <2>. QED
    BY <2>2
<1>2. ASSUME n < m PROVE b * n + b <= b * m
  <2>1. PICK d \in Nat : m = n + 1 + d
    BY <1>2
  <2>2. b * m = b * n + b + b * d /\ b * d \in Nat
    BY <2>1
  <2>. QED
    BY <2>2
<1>. QED
  BY <1>1, <1>2

LEMMA QuotientOfMultiple ==
  ASSUME NEW n \in Nat, NEW b \in Nat, b > 0
  PROVE  (n * b) \div b = n
<1>1. PICK k \in Nat : k = n * b /\ k = b * n
  BY Multiples
<1>2. PICK q \in Nat : q = k \div b /\ b * q <= k /\ k < b * q + b
  BY Quotient
<1>3. ~(n < q) /\ ~(q < n)
  BY <1>1, <1>2, Multiples
<1>. QED
  BY <1>1, <1>2, <1>3
=============================================================================
