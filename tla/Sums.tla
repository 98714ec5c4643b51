-------------------------------- MODULE Sums ---------------------------------
(***************************************************************************)
(* Induction over the natural numbers for a set of them, and what it shows *)
(* of the folds that the models sum up with: FoldSet adds each element     *)
(* once, whichever it takes first, and FoldLeft goes from left to right.   *)
(***************************************************************************)
EXTENDS Integers, Sequences, FiniteSetsExt, SequencesExt,
        FiniteSetTheorems, SequenceTheorems, WellFoundedInduction, TLAPS

\* The smallest of some numbers.
LEMMA LeastNumber ==
  ASSUME NEW T \in SUBSET Nat, T # {}
  PROVE  \E m \in T : \A n \in T : m <= n
<1> DEFINE R == OpToRel(<, Nat)
<1>1. IsWellFoundedOn(R, Nat)
  BY NatLessThanWellFounded
<1>2. \A x, y \in Nat : y < x => <<y, x>> \in R
  BY DEF OpToRel
<1> HIDE DEF R
<1>3. PICK m \in T : \A y \in T : ~ (<<y, m>> \in R)
  BY <1>1, WFMin
<1>4. \A n \in T : m <= n
  <2> TAKE n \in T
  <2>1. m \in Nat /\ n \in Nat
    OBVIOUS
  <2>2. ~(n < m)
    BY <1>2, <1>3, <2>1
  <2> QED
    BY <2>1, <2>2
<1> QED
  BY <1>4

\* Induction, for the set of the numbers of which something holds.
LEMMA SetInduction ==
  ASSUME NEW T, 0 \in T, \A n \in Nat : n \in T => n + 1 \in T
  PROVE  \A n \in Nat : n \in T
<1> SUFFICES ASSUME Nat \ T # {} PROVE FALSE
  OBVIOUS
<1>1. PICK m \in Nat \ T : \A n \in Nat \ T : m <= n
  BY LeastNumber
<1>2. m # 0 /\ m - 1 \in Nat
  BY <1>1
<1>3. m - 1 \in T
  BY <1>1, <1>2
<1> QED
  BY <1>1, <1>2, <1>3

LEMMA SubsetFacts ==
  ASSUME NEW S, IsFiniteSet(S), NEW s \in SUBSET S
  PROVE  /\ IsFiniteSet(s) /\ Cardinality(s) \in Nat
         /\ Cardinality(s) <= Cardinality(S)
         /\ Cardinality(s) = 0 <=> s = {}
         /\ \A x \in s : Cardinality(s \ {x}) = Cardinality(s) - 1
  BY FS_Subset, FS_CardinalityType, FS_EmptySet, FS_RemoveElement

\* A family of subsets of a finite set that holds a set when it holds those that
\* lack one of its elements holds all of them.
LEMMA SubsetInduction ==
  ASSUME NEW S, IsFiniteSet(S), NEW F,
         \A s \in SUBSET S : (\A x \in s : s \ {x} \in F) => s \in F
  PROVE  SUBSET S \subseteq F
<1> DEFINE T == {n \in Nat : \A s \in SUBSET S : Cardinality(s) = n => s \in F}
<1>1. \A s \in SUBSET S : IsFiniteSet(s) /\ Cardinality(s) \in Nat
  BY SubsetFacts
<1>2. 0 \in T
  <2>1. \A s \in SUBSET S : Cardinality(s) = 0 => s = {}
    BY SubsetFacts
  <2> QED
    BY <2>1
<1>3. \A n \in Nat : n \in T => n + 1 \in T
  <2> TAKE n \in Nat
  <2> HAVE n \in T
  <2> SUFFICES ASSUME NEW s \in SUBSET S, Cardinality(s) = n + 1 PROVE s \in F
    OBVIOUS
  <2>1. \A x \in s : Cardinality(s \ {x}) = n
    BY SubsetFacts
  <2> QED
    BY <2>1
<1>4. \A n \in Nat : n \in T
  <2> HIDE DEF T
  <2> QED
    BY <1>2, <1>3, SetInduction
<1> QED
  BY <1>1, <1>4

-----------------------------------------------------------------------------
(* Folds over a set exist: the elements are taken in the order of c.       *)

Folds(g, S, c, base, F) ==
  \A s \in SUBSET S : g[s] = IF s = {} THEN base ELSE F[<<c[s], g[s \ {c[s]}]>>]

LEMMA FoldExists ==
  ASSUME NEW S, IsFiniteSet(S), NEW A, NEW base \in A, NEW F \in [S \X A -> A],
         NEW c, \A s \in SUBSET S : s # {} => c[s] \in s
  PROVE  \E g \in [SUBSET S -> A] : Folds(g, S, c, base, F)
<1> DEFINE Upto(n, g) ==
             \A s \in SUBSET S : Cardinality(s) <= n =>
                 g[s] = IF s = {} THEN base ELSE F[<<c[s], g[s \ {c[s]}]>>]
           T == {n \in Nat : \E g \in [SUBSET S -> A] : Upto(n, g)}
<1>1. \A s \in SUBSET S : IsFiniteSet(s) /\ Cardinality(s) \in Nat
  BY SubsetFacts
<1>2. 0 \in T
  <2> DEFINE g == [s \in SUBSET S |-> base]
  <2>1. \A s \in SUBSET S : Cardinality(s) <= 0 => s = {}
    BY SubsetFacts
  <2>2. g \in [SUBSET S -> A] /\ Upto(0, g)
    BY <2>1
  <2> QED
    BY <2>2
<1>3. \A n \in Nat : n \in T => n + 1 \in T
  <2> TAKE n \in Nat
  <2> HAVE n \in T
  <2>1. PICK g \in [SUBSET S -> A] : Upto(n, g)
    OBVIOUS
  <2> DEFINE h == [s \in SUBSET S |-> IF s = {} THEN base ELSE F[<<c[s], g[s \ {c[s]}]>>]]
  <2>2. h \in [SUBSET S -> A]
    <3>1. \A s \in SUBSET S : s # {} => <<c[s], g[s \ {c[s]}]>> \in S \X A
      OBVIOUS
    <3> QED
      BY <3>1
  <2>3. ASSUME NEW s \in SUBSET S, Cardinality(s) <= n + 1, s # {}
        PROVE  h[s \ {c[s]}] = g[s \ {c[s]}]
    <3>1. Cardinality(s \ {c[s]}) <= n
      BY <1>1, <2>3, SubsetFacts
    <3> QED
      BY <2>1, <3>1
  <2>4. Upto(n + 1, h)
    BY <2>3
  <2> HIDE DEF h, Upto
  <2> QED
    BY <2>2, <2>4
<1>4. Cardinality(S) \in T
  <2>1. \A n \in Nat : n \in T
    <3> HIDE DEF T
    <3> QED
      BY <1>2, <1>3, SetInduction
  <2> QED
    BY <1>1, <2>1
<1>5. PICK g \in [SUBSET S -> A] : Upto(Cardinality(S), g)
  BY <1>4
<1>6. \A s \in SUBSET S : Cardinality(s) <= Cardinality(S)
  BY SubsetFacts
<1> QED
  BY <1>5, <1>6 DEF Folds
-----------------------------------------------------------------------------
(* Folds over a sequence of n elements take the last one of what is left.  *)

LEMMA MaxIsIn ==
  ASSUME NEW S \in SUBSET Int, IsFiniteSet(S), S # {}
  PROVE  Max(S) \in S /\ \A y \in S : Max(S) >= y
<1> DEFINE F == {s \in SUBSET S : s # {} => \E x \in s : \A y \in s : x >= y}
<1>1. ASSUME NEW s \in SUBSET S, \A x \in s : s \ {x} \in F PROVE s \in F
  <2> SUFFICES ASSUME NEW x \in s PROVE \E z \in s : \A y \in s : z >= y
    OBVIOUS
  <2>1. CASE s \ {x} = {}
    BY <2>1
  <2>2. CASE s \ {x} # {}
    <3>1. PICK z \in s \ {x} : \A y \in s \ {x} : z >= y
      BY <1>1, <2>2
    <3> QED
      BY <3>1, z >= x \/ x >= z
  <2> QED
    BY <2>1, <2>2
<1>2. SUBSET S \subseteq F
  <2>1. \A s \in SUBSET S : (\A x \in s : s \ {x} \in F) => s \in F
    BY <1>1
  <2> HIDE DEF F
  <2> QED
    BY <2>1, SubsetInduction
<1>3. \E x \in S : \A y \in S : x >= y
  BY <1>2
<1> QED
  BY <1>3 DEF Max

LEMMA MaxOfInterval ==
  ASSUME NEW k \in Nat
  PROVE  /\ Max(1 .. k + 1) = k + 1 /\ (1 .. k + 1) \ {k + 1} = 1 .. k
         /\ 1 .. k + 1 # {}
<1> DEFINE I == 1 .. k + 1
<1>1. k + 1 \in I /\ (\A y \in I : k + 1 >= y) /\ \A x \in I : (\A y \in I : x >= y) => x = k + 1
  OBVIOUS
<1>2. Max(I) = k + 1
  <2> HIDE DEF I
  <2> QED
    BY <1>1 DEF Max
<1> QED
  BY <1>1, <1>2

IsLoop(g, n, base, F) ==
  g = [s \in SUBSET (1 .. n) |-> IF s = {} THEN base ELSE F[<<Max(s), g[s \ {Max(s)}]>>]]

LEMMA LoopExists ==
  ASSUME NEW n \in Nat, NEW A, NEW base \in A, NEW F \in [(1 .. n) \X A -> A]
  PROVE  \E g \in [SUBSET (1 .. n) -> A] : IsLoop(g, n, base, F)
<1> DEFINE D == 1 .. n
           c == [s \in SUBSET D |-> Max(s)]
<1>1. IsFiniteSet(D)
  BY FS_Interval
<1>2. \A s \in SUBSET D : s # {} => c[s] \in s
  <2> TAKE s \in SUBSET D
  <2>1. s \in SUBSET Int
    OBVIOUS
  <2>2. IsFiniteSet(s)
    <3> HIDE DEF D, c
    <3> QED
      BY <1>1, FS_Subset
  <2> QED
    BY <2>1, <2>2, MaxIsIn
<1>3. PICK g \in [SUBSET D -> A] : Folds(g, D, c, base, F)
  <2> HIDE DEF c, D
  <2>1. F \in [D \X A -> A]
    BY DEF D
  <2> QED
    BY ONLY <1>1, <1>2, <2>1, base \in A, FoldExists
<1> QED
  BY <1>3 DEF Folds, IsLoop

\* What a loop has after its first k elements.
LEMMA LoopTurns ==
  ASSUME NEW n \in Nat, NEW base, NEW F, NEW g, IsLoop(g, n, base, F)
  PROVE  /\ g[1 .. 0] = base
         /\ \A k \in 0 .. n - 1 : g[1 .. k + 1] = F[<<k + 1, g[1 .. k]>>]
<1>1. 1 .. 0 = {}
  OBVIOUS
<1>2. g[1 .. 0] = base
  BY <1>1 DEF IsLoop
<1>3. ASSUME NEW k \in 0 .. n - 1 PROVE g[1 .. k + 1] = F[<<k + 1, g[1 .. k]>>]
  <2> DEFINE s == 1 .. k + 1
  <2>1. s \in SUBSET (1 .. n) /\ k \in Nat
    OBVIOUS
  <2>2. Max(s) = k + 1 /\ s \ {k + 1} = 1 .. k /\ s # {}
    BY <2>1, MaxOfInterval
  <2> HIDE DEF s
  <2>3. g[s] = F[<<Max(s), g[s \ {Max(s)}]>>]
    BY <2>1, <2>2 DEF IsLoop
  <2> QED
    BY <2>2, <2>3 DEF s
<1> QED
  BY <1>2, <1>3

-----------------------------------------------------------------------------
(* Sums of the values of a function over a finite set.                     *)

SumOf(f, S) == FoldSet(LAMBDA x, sum : sum + f[x], 0, S)

IsSum(g, S, f) ==
  g = [s \in SUBSET S |-> IF s = {} THEN 0
                          ELSE g[s \ {CHOOSE x \in s : TRUE}] + f[CHOOSE x \in s : TRUE]]

\* A function that sums up each subset.
LEMMA SumExists ==
  ASSUME NEW S, IsFiniteSet(S), NEW f, \A x \in S : f[x] \in Int
  PROVE  \E g \in [SUBSET S -> Int] : IsSum(g, S, f)
<1> DEFINE c == [s \in SUBSET S |-> CHOOSE x \in s : TRUE]
           F == [p \in S \X Int |-> p[2] + f[p[1]]]
<1>1. F \in [S \X Int -> Int]
  OBVIOUS
<1>2. \A s \in SUBSET S : s # {} => c[s] \in s
  OBVIOUS
<1>3. PICK g \in [SUBSET S -> Int] : Folds(g, S, c, 0, F)
  <2> HIDE DEF c, F
  <2>1. 0 \in Int
    OBVIOUS
  <2> QED
    BY ONLY <1>1, <1>2, <2>1, IsFiniteSet(S), FoldExists
<1>4. ASSUME NEW s \in SUBSET S
      PROVE  g[s] = IF s = {} THEN 0
                    ELSE g[s \ {CHOOSE x \in s : TRUE}] + f[CHOOSE x \in s : TRUE]
  <2>1. CASE s = {}
    BY <1>3, <2>1 DEF Folds
  <2>2. CASE s # {}
    <3>1. (CHOOSE x \in s : TRUE) \in S
      BY <2>2
    <3>2. g[s \ {CHOOSE x \in s : TRUE}] \in Int
      OBVIOUS
    <3> QED
      BY <1>3, <2>2, <3>1, <3>2 DEF Folds
  <2> QED
    BY <2>1, <2>2
<1> QED
  BY <1>4 DEF IsSum

\* Two of them agree where their functions do.
LEMMA SumUnique ==
  ASSUME NEW S, IsFiniteSet(S), NEW R, S \subseteq R, NEW f, NEW h,
         \A x \in S : f[x] = h[x],
         NEW g, IsSum(g, S, f), NEW k, IsSum(k, R, h)
  PROVE  \A s \in SUBSET S : g[s] = k[s]
<1> DEFINE F == {s \in SUBSET S : g[s] = k[s]}
<1>1. ASSUME NEW s \in SUBSET S, \A x \in s : s \ {x} \in F PROVE s \in F
  <2> DEFINE c == CHOOSE x \in s : TRUE
  <2>1. g[s] = IF s = {} THEN 0 ELSE g[s \ {c}] + f[c]
    BY DEF IsSum
  <2>2. k[s] = IF s = {} THEN 0 ELSE k[s \ {c}] + h[c]
    BY DEF IsSum
  <2>3. s # {} => c \in s
    OBVIOUS
  <2> HIDE DEF c
  <2> QED
    BY <1>1, <2>1, <2>2, <2>3
<1>2. SUBSET S \subseteq F
  <2> HIDE DEF F
  <2> QED
    BY <1>1, SubsetInduction
<1> QED
  BY <1>2

\* Sums of integers are integers, for the function.
LEMMA SumTyped ==
  ASSUME NEW S, IsFiniteSet(S), NEW f, \A x \in S : f[x] \in Int,
         NEW g, IsSum(g, S, f)
  PROVE  \A s \in SUBSET S : g[s] \in Int
<1>1. PICK k \in [SUBSET S -> Int] : IsSum(k, S, f)
  BY SumExists
<1>2. \A s \in SUBSET S : g[s] = k[s]
  BY <1>1, SumUnique
<1> QED
  BY <1>1, <1>2

\* Whichever element is taken first.
LEMMA SumTakesAny ==
  ASSUME NEW S, IsFiniteSet(S), NEW f, \A x \in S : f[x] \in Int,
         NEW g, IsSum(g, S, f), NEW r \in SUBSET S, NEW z \in r
  PROVE  g[r] = g[r \ {z}] + f[z]
<1> DEFINE F == {s \in SUBSET S : \A x \in s : g[s] = g[s \ {x}] + f[x]}
<1>1. ASSUME NEW s \in SUBSET S, \A x \in s : s \ {x} \in F PROVE s \in F
  <2> SUFFICES ASSUME NEW x \in s PROVE g[s] = g[s \ {x}] + f[x]
    OBVIOUS
  <2> DEFINE c == CHOOSE y \in s : TRUE
  <2>1. c \in s
    OBVIOUS
  <2>2. g[s] = g[s \ {c}] + f[c]
    BY DEF IsSum
  <2> HIDE DEF c
  <2>3. CASE x # c
    <3> DEFINE rest == g[(s \ {c}) \ {x}]
    <3>1. (s \ {c}) \ {x} = (s \ {x}) \ {c}
      OBVIOUS
    <3>2. g[s \ {c}] = rest + f[x] /\ g[s \ {x}] = rest + f[c]
      BY <1>1, <2>1, <2>3, <3>1
    <3>3. f[c] \in Int /\ f[x] \in Int /\ rest \in Int
      BY <2>1, SumTyped
    <3> HIDE DEF rest
    <3> QED
      BY <2>2, <3>2, <3>3
  <2> QED
    BY <2>2, <2>3
<1>2. SUBSET S \subseteq F
  <2>1. \A s \in SUBSET S : (\A x \in s : s \ {x} \in F) => s \in F
    BY <1>1
  <2> HIDE DEF F
  <2> QED
    BY <2>1, SubsetInduction
<1> QED
  BY <1>2

\* The fold is the value of the function at the whole set.
LEMMA SumIs ==
  ASSUME NEW S, IsFiniteSet(S), NEW f, \A x \in S : f[x] \in Int,
         NEW g, IsSum(g, S, f)
  PROVE  SumOf(f, S) = g[S]
<1>1. \E h : IsSum(h, S, f) /\ SumOf(f, S) = h[S]
  BY DEF IsSum, SumOf, FoldSet, MapThenFoldSet
<1> QED
  BY <1>1, SumUnique

\* Sums of integers are integers.
LEMMA SumType ==
  ASSUME NEW S, IsFiniteSet(S), NEW f, \A x \in S : f[x] \in Int
  PROVE  SumOf(f, S) \in Int
<1>1. PICK g : IsSum(g, S, f)
  BY SumExists
<1> QED
  BY <1>1, SumIs, SumTyped

\* Nothing sums up to 0.
LEMMA SumEmpty ==
  ASSUME NEW f
  PROVE  SumOf(f, {}) = 0
<1>1. PICK g : IsSum(g, {}, f)
  BY FS_EmptySet, SumExists
<1>2. SumOf(f, {}) = g[{}]
  BY <1>1, FS_EmptySet, SumIs
<1> QED
  BY <1>1, <1>2 DEF IsSum

\* Functions that agree on the set have one sum.
LEMMA SumAgrees ==
  ASSUME NEW S, IsFiniteSet(S), NEW f, \A x \in S : f[x] \in Int,
         NEW h, \A x \in S : h[x] = f[x]
  PROVE  SumOf(h, S) = SumOf(f, S)
<1>1. PICK g : IsSum(g, S, f)
  BY SumExists
<1>2. PICK k : IsSum(k, S, h)
  BY SumExists
<1> QED
  BY <1>1, <1>2, SumIs, SumUnique

\* One element apart from the others.
LEMMA SumRemove ==
  ASSUME NEW S, IsFiniteSet(S), NEW f, \A x \in S : f[x] \in Int, NEW x \in S
  PROVE  SumOf(f, S) = SumOf(f, S \ {x}) + f[x]
<1> DEFINE R == S \ {x}
<1>1. IsFiniteSet(R) /\ R \subseteq S /\ \A y \in R : f[y] \in Int
  BY FS_Subset
<1>2. S \in SUBSET S
  OBVIOUS
<1>3. PICK g : IsSum(g, S, f)
  BY SumExists
<1>4. SumOf(f, S) = g[S] /\ g[S] = g[R] + f[x]
  BY <1>2, <1>3, SumIs, SumTakesAny
<1> HIDE DEF R
<1>5. PICK k : IsSum(k, R, f)
  BY <1>1, SumExists
<1>6. \A s \in SUBSET R : k[s] = g[s]
  BY <1>1, <1>3, <1>5, SumUnique
<1>7. SumOf(f, R) = g[R]
  BY <1>1, <1>5, <1>6, SumIs
<1> QED
  BY <1>4, <1>7 DEF R

\* One more element.
LEMMA SumAdd ==
  ASSUME NEW S, IsFiniteSet(S), NEW x, x \notin S,
         NEW f, \A y \in S \cup {x} : f[y] \in Int
  PROVE  SumOf(f, S \cup {x}) = SumOf(f, S) + f[x]
<1>1. IsFiniteSet(S \cup {x}) /\ (S \cup {x}) \ {x} = S
  BY FS_AddElement
<1> QED
  BY <1>1, SumRemove

\* Nothing is below 0.
LEMMA SumNat ==
  ASSUME NEW S, IsFiniteSet(S), NEW f, \A x \in S : f[x] \in Nat
  PROVE  SumOf(f, S) \in Nat
<1> DEFINE F == {s \in SUBSET S : SumOf(f, s) \in Nat}
<1>1. ASSUME NEW s \in SUBSET S, \A x \in s : s \ {x} \in F PROVE s \in F
  <2>1. IsFiniteSet(s) /\ \A x \in s : f[x] \in Int
    BY FS_Subset
  <2>2. CASE s = {}
    BY <2>2, SumEmpty
  <2>3. ASSUME NEW x \in s PROVE SumOf(f, s) \in Nat
    <3>1. SumOf(f, s) = SumOf(f, s \ {x}) + f[x]
      BY <2>1, SumRemove
    <3> QED
      BY <1>1, <3>1
  <2> QED
    BY <2>2, <2>3
<1>2. SUBSET S \subseteq F
  <2> HIDE DEF F
  <2> QED
    BY <1>1, SubsetInduction
<1> QED
  BY <1>2

\* What is 0 everywhere sums up to 0.
LEMMA SumZero ==
  ASSUME NEW S, IsFiniteSet(S), NEW f, \A x \in S : f[x] = 0
  PROVE  SumOf(f, S) = 0
<1> DEFINE F == {s \in SUBSET S : SumOf(f, s) = 0}
<1>1. ASSUME NEW s \in SUBSET S, \A x \in s : s \ {x} \in F PROVE s \in F
  <2>1. IsFiniteSet(s) /\ \A x \in s : f[x] \in Int
    BY FS_Subset
  <2>2. CASE s = {}
    BY <2>2, SumEmpty
  <2>3. ASSUME NEW x \in s PROVE SumOf(f, s) = 0
    <3>1. SumOf(f, s) = SumOf(f, s \ {x}) + f[x]
      BY <2>1, SumRemove
    <3> QED
      BY <1>1, <3>1
  <2> QED
    BY <2>2, <2>3
<1>2. SUBSET S \subseteq F
  <2> HIDE DEF F
  <2> QED
    BY <1>1, SubsetInduction
<1> QED
  BY <1>2

\* One value changes.
LEMMA SumChange ==
  ASSUME NEW S, IsFiniteSet(S), NEW f, \A x \in S : f[x] \in Int,
         NEW h, NEW x \in S, h[x] \in Int, \A y \in S \ {x} : h[y] = f[y]
  PROVE  SumOf(h, S) = SumOf(f, S) - f[x] + h[x]
<1> DEFINE R == S \ {x}
<1>1. IsFiniteSet(R) /\ \A y \in R : f[y] \in Int /\ h[y] = f[y]
  BY FS_Subset
<1>2. \A y \in S : h[y] \in Int
  OBVIOUS
<1>3. SumOf(f, S) = SumOf(f, R) + f[x] /\ SumOf(h, S) = SumOf(h, R) + h[x]
  BY <1>2, SumRemove
<1> HIDE DEF R
<1>4. SumOf(h, R) = SumOf(f, R) /\ SumOf(f, R) \in Int
  BY <1>1, SumAgrees, SumType
<1> QED
  BY <1>3, <1>4

\* What is nowhere more sums up to no more.
LEMMA SumAtMost ==
  ASSUME NEW S, IsFiniteSet(S), NEW f, \A x \in S : f[x] \in Int,
         NEW h, \A x \in S : h[x] \in Int /\ h[x] <= f[x]
  PROVE  SumOf(h, S) <= SumOf(f, S)
<1> DEFINE F == {s \in SUBSET S : SumOf(h, s) <= SumOf(f, s)}
<1>1. ASSUME NEW s \in SUBSET S, \A x \in s : s \ {x} \in F PROVE s \in F
  <2>1. IsFiniteSet(s) /\ \A x \in s : f[x] \in Int /\ h[x] \in Int
    BY FS_Subset
  <2>2. CASE s = {}
    BY <2>2, SumEmpty
  <2>3. ASSUME NEW x \in s PROVE SumOf(h, s) <= SumOf(f, s)
    <3>1. SumOf(f, s) = SumOf(f, s \ {x}) + f[x] /\ SumOf(h, s) = SumOf(h, s \ {x}) + h[x]
      BY <2>1, SumRemove
    <3>2. SumOf(f, s \ {x}) \in Int /\ SumOf(h, s \ {x}) \in Int
      <4>1. IsFiniteSet(s \ {x})
        BY <2>1, FS_RemoveElement
      <4> QED
        BY <2>1, <4>1, SumType
    <3>3. SumOf(h, s \ {x}) <= SumOf(f, s \ {x}) /\ h[x] <= f[x] /\ f[x] \in Int /\ h[x] \in Int
      BY <1>1, <2>3
    <3> QED
      BY <3>1, <3>2, <3>3
  <2> QED
    BY <2>2, <2>3
<1>2. SUBSET S \subseteq F
  <2> HIDE DEF F
  <2> QED
    BY <1>1, SubsetInduction
<1> QED
  BY <1>2

\* If it is less somewhere, to less.
LEMMA SumLess ==
  ASSUME NEW S, IsFiniteSet(S), NEW f, \A x \in S : f[x] \in Int,
         NEW h, \A x \in S : h[x] \in Int /\ h[x] <= f[x],
         NEW y \in S, h[y] < f[y]
  PROVE  SumOf(h, S) < SumOf(f, S)
<1> DEFINE R == S \ {y}
<1>1. IsFiniteSet(R) /\ \A x \in R : f[x] \in Int /\ h[x] \in Int /\ h[x] <= f[x]
  BY FS_Subset
<1>2. SumOf(f, S) = SumOf(f, R) + f[y] /\ SumOf(h, S) = SumOf(h, R) + h[y]
  BY SumRemove
<1> HIDE DEF R
<1>3. SumOf(h, R) <= SumOf(f, R) /\ SumOf(f, R) \in Int /\ SumOf(h, R) \in Int
  BY <1>1, SumAtMost, SumType
<1> QED
  BY <1>2, <1>3

\* Sums along the numbers.
LEMMA SumUp ==
  ASSUME NEW n \in Nat, NEW f, \A i \in 1 .. n + 1 : f[i] \in Int
  PROVE  /\ SumOf(f, 1 .. n + 1) = SumOf(f, 1 .. n) + f[n + 1]
         /\ SumOf(f, 1 .. n) \in Int
<1> DEFINE I == 1 .. n
<1>1. IsFiniteSet(I)
  BY FS_Interval
<1>2. 1 .. n + 1 = I \cup {n + 1} /\ n + 1 \notin I
  OBVIOUS
<1>3. \A i \in I : f[i] \in Int
  OBVIOUS
<1> HIDE DEF I
<1>4. \A i \in I \cup {n + 1} : f[i] \in Int
  BY <1>2
<1>5. SumOf(f, I \cup {n + 1}) = SumOf(f, I) + f[n + 1]
  <2>1. PICK next : next = n + 1
    OBVIOUS
  <2>2. next \notin I /\ \A i \in I \cup {next} : f[i] \in Int
    BY <1>2, <1>4, <2>1
  <2>3. SumOf(f, I \cup {next}) = SumOf(f, I) + f[next]
    BY <1>1, <2>2, SumAdd
  <2> QED
    BY <2>1, <2>3
<1>6. SumOf(f, I) \in Int
  BY <1>1, <1>3, SumType
<1> QED
  BY <1>2, <1>5, <1>6 DEF I

\* The same value n times.
LEMMA SumCopies ==
  ASSUME NEW m \in Nat, NEW n \in Nat, NEW c \in Int, NEW f, \A i \in 1 .. m : f[i] \in Int,
         \A i \in m + 1 .. m + n : f[i] = c
  PROVE  SumOf(f, 1 .. m + n) = SumOf(f, 1 .. m) + n * c
<1> DEFINE T == {k \in Nat : k <= n => SumOf(f, 1 .. m + k) = SumOf(f, 1 .. m) + k * c}
<1>1. \A k \in 0 .. n : m + k \in Nat /\ \A i \in 1 .. m + k : f[i] \in Int
  <2> SUFFICES ASSUME NEW k \in 0 .. n, NEW i \in 1 .. m + k PROVE f[i] \in Int
    OBVIOUS
  <2>1. i \in 1 .. m \/ i \in m + 1 .. m + n
    OBVIOUS
  <2> QED
    BY <2>1
<1>2. SumOf(f, 1 .. m) \in Int
  <2> DEFINE I == 1 .. m
  <2>1. IsFiniteSet(I) /\ \A i \in I : f[i] \in Int
    BY FS_Interval
  <2> HIDE DEF I
  <2>2. SumOf(f, I) \in Int
    BY <2>1, SumType
  <2> QED
    BY <2>2 DEF I
<1>3. 0 \in T
  BY <1>2
<1>4. \A k \in Nat : k \in T => k + 1 \in T
  <2> SUFFICES ASSUME NEW k \in Nat, k \in T, k + 1 <= n
               PROVE  SumOf(f, 1 .. m + (k + 1)) = SumOf(f, 1 .. m) + (k + 1) * c
    OBVIOUS
  <2>1. SumOf(f, 1 .. m + k) = SumOf(f, 1 .. m) + k * c
    OBVIOUS
  <2>2. SumOf(f, 1 .. (m + k) + 1) = SumOf(f, 1 .. m + k) + f[(m + k) + 1]
    <3>1. m + k \in Nat /\ \A i \in 1 .. (m + k) + 1 : f[i] \in Int
      <4>1. k + 1 \in 0 .. n /\ m + (k + 1) = (m + k) + 1
        OBVIOUS
      <4> QED
        BY <1>1, <4>1
    <3> QED
      BY <3>1, SumUp
  <2>3. f[(m + k) + 1] = c /\ m + (k + 1) = (m + k) + 1
    OBVIOUS
  <2>4. (k + 1) * c = k * c + c /\ k * c \in Int
    OBVIOUS
  <2> QED
    BY <1>2, <2>1, <2>2, <2>3, <2>4
<1>5. n \in T
  <2> HIDE DEF T
  <2> QED
    BY <1>3, <1>4, SetInduction
<1> QED
  BY <1>5

\* Along a sequence that names each of its elements once, and over the set of them.
Named(seq, n) == {seq[i] : i \in 1 .. n}

LEMMA SumAlong ==
  ASSUME NEW n \in Nat, NEW seq, \A i, j \in 1 .. n : seq[i] = seq[j] => i = j,
         NEW f, \A i \in 1 .. n : f[seq[i]] \in Int,
         NEW h, \A i \in 1 .. n : h[i] = f[seq[i]]
  PROVE  SumOf(h, 1 .. n) = SumOf(f, Named(seq, n))
<1> DEFINE S(k) == {seq[i] : i \in 1 .. k}
           T == {k \in Nat : k <= n => IsFiniteSet(S(k)) /\ SumOf(h, 1 .. k) = SumOf(f, S(k))}
<1>1. 0 \in T
  <2>1. 1 .. 0 = {} /\ S(0) = {}
    OBVIOUS
  <2> QED
    BY <2>1, SumEmpty, FS_EmptySet
<1>2. \A k \in Nat : k \in T => k + 1 \in T
  <2> TAKE k \in Nat
  <2> SUFFICES ASSUME k \in T, k + 1 <= n
               PROVE  IsFiniteSet(S(k + 1)) /\ SumOf(h, 1 .. k + 1) = SumOf(f, S(k + 1))
    <3> HIDE DEF S
    <3> QED
      OBVIOUS
  <2>1. IsFiniteSet(S(k)) /\ SumOf(h, 1 .. k) = SumOf(f, S(k))
    <3> HIDE DEF S
    <3> QED
      OBVIOUS
  <2>2. 1 .. k + 1 = (1 .. k) \cup {k + 1} /\ 1 .. k + 1 \subseteq 1 .. n
    OBVIOUS
  <2>3. S(k + 1) = S(k) \cup {seq[k + 1]}
    BY <2>2
  <2>4. seq[k + 1] \notin S(k)
    OBVIOUS
  <2>5. \A y \in S(k) \cup {seq[k + 1]} : f[y] \in Int
    BY <2>2, <2>3
  <2>6. SumOf(h, 1 .. k + 1) = SumOf(h, 1 .. k) + h[k + 1]
    BY <2>2, SumUp
  <2>7. h[k + 1] = f[seq[k + 1]]
    BY <2>2
  <2> HIDE DEF S, T
  <2>8. SumOf(f, S(k) \cup {seq[k + 1]}) = SumOf(f, S(k)) + f[seq[k + 1]]
    <3>1. PICK U, x : U = S(k) /\ x = seq[k + 1]
      OBVIOUS
    <3>2. IsFiniteSet(U) /\ x \notin U /\ \A y \in U \cup {x} : f[y] \in Int
      BY <2>1, <2>4, <2>5, <3>1
    <3>3. SumOf(f, U \cup {x}) = SumOf(f, U) + f[x]
      BY <3>2, SumAdd
    <3> QED
      BY <3>1, <3>3
  <2>9. IsFiniteSet(S(k) \cup {seq[k + 1]})
    BY <2>1, FS_AddElement
  <2> QED
    BY <2>1, <2>3, <2>6, <2>7, <2>8, <2>9
<1>3. n \in T
  <2> HIDE DEF T
  <2> QED
    BY <1>1, <1>2, SetInduction
<1> QED
  BY <1>3 DEF Named

\* A sum as FoldLeft makes it.
IsSumLoop(g, n, v) ==
  g = [s \in SUBSET (1 .. n) |-> IF s = {} THEN 0 ELSE g[s \ {Max(s)}] + v[Max(s)]]

LEMMA SumLoop ==
  ASSUME NEW n \in Nat, NEW v, \A i \in 1 .. n : v[i] \in Int
  PROVE  /\ \E g : IsSumLoop(g, n, v)
         /\ \A g : IsSumLoop(g, n, v) => g[1 .. n] = SumOf(v, 1 .. n)
<1> DEFINE F == [p \in (1 .. n) \X Int |-> p[2] + v[p[1]]]
<1>1. F \in [(1 .. n) \X Int -> Int] /\ 0 \in Int
  OBVIOUS
<1>2. PICK g \in [SUBSET (1 .. n) -> Int] : IsLoop(g, n, 0, F)
  <2> HIDE DEF F
  <2> QED
    BY <1>1, LoopExists
<1>3. IsSumLoop(g, n, v)
  <2>1. ASSUME NEW s \in SUBSET (1 .. n), s # {}
        PROVE  F[<<Max(s), g[s \ {Max(s)}]>>] = g[s \ {Max(s)}] + v[Max(s)]
    <3>1. IsFiniteSet(1 .. n) /\ s \in SUBSET Int
      BY FS_Interval
    <3>2. Max(s) \in s
      BY <2>1, <3>1, FS_Subset, MaxIsIn
    <3>3. Max(s) \in 1 .. n /\ g[s \ {Max(s)}] \in Int
      BY <3>2
    <3> QED
      BY <3>3
  <2> HIDE DEF F
  <2> QED
    BY <2>1, <1>2 DEF IsLoop, IsSumLoop
<1>4. ASSUME NEW h, IsSumLoop(h, n, v)
      PROVE  h[1 .. n] = SumOf(v, 1 .. n)
  <2> DEFINE T == {k \in Nat : k <= n => h[1 .. k] = SumOf(v, 1 .. k)}
  <2>1. 0 \in T
    <3>1. 1 .. 0 = {}
      OBVIOUS
    <3> QED
      BY <3>1, <1>4, SumEmpty DEF IsSumLoop
  <2>2. \A k \in Nat : k \in T => k + 1 \in T
    <3> SUFFICES ASSUME NEW k \in Nat, k \in T, k + 1 <= n
                 PROVE  h[1 .. k + 1] = SumOf(v, 1 .. k + 1)
      OBVIOUS
    <3>1. h[1 .. k] = SumOf(v, 1 .. k)
      OBVIOUS
    <3> DEFINE I == 1 .. k + 1
    <3>2. I \in SUBSET (1 .. n)
      OBVIOUS
    <3>3. Max(I) = k + 1 /\ I # {} /\ I \ {k + 1} = 1 .. k
      BY MaxOfInterval
    <3>4. SumOf(v, I) = SumOf(v, 1 .. k) + v[k + 1]
      BY <3>2, SumUp
    <3> HIDE DEF I
    <3>5. h[I] = h[1 .. k] + v[k + 1]
      BY <1>4, <3>2, <3>3 DEF IsSumLoop
    <3> QED
      BY <3>1, <3>4, <3>5 DEF I
  <2>3. n \in T
    <3> HIDE DEF T
    <3> QED
      BY <2>1, <2>2, SetInduction
  <2> QED
    BY <2>3
<1> QED
  BY <1>3, <1>4

=============================================================================
