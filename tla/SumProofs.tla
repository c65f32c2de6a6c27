----------------------------- MODULE SumProofs -----------------------------
(***************************************************************************)
(* Facts about the community modules' SumFunctionOnSet, which every ledger *)
(* invariant of this project is stated with.  The operator is a fold: it   *)
(* removes the elements of the index set one by one in an order fixed by   *)
(* CHOOSE.  A function g on the subsets of S is a "tally" of f when adding *)
(* an element x to a subset adds f[x] to its value; a tally exists for     *)
(* every finite S and the fold over S is its value at S, so that what a    *)
(* ledger update does to a sum can be read off a tally.                    *)
(***************************************************************************)
EXTENDS Integers, FiniteSets, Functions, FiniteSetTheorems, WellFoundedInduction, TLAPS

IsTally(g, f, S) ==
  /\ g \in [SUBSET S -> Int]
  /\ g[{}] = 0
  /\ \A T \in SUBSET S : \A x \in S \ T : g[T \cup {x}] = g[T] + f[x]

\* What the fold computes is a function with this recursion equation.
IsFold(g, f, S) ==
  g = [T \in SUBSET S |-> IF T = {} THEN 0
                          ELSE LET x == CHOOSE x \in T : TRUE
                               IN  f[x] + g[T \ {x}]]

(***************************************************************************)
(* Every nonempty collection of subsets of a finite set has a smallest     *)
(* member.                                                                 *)
(***************************************************************************)
LEMMA SmallestSubset ==
  ASSUME NEW S, IsFiniteSet(S), NEW B \in SUBSET (SUBSET S), B # {}
  PROVE  \E T \in B : \A U \in SUBSET T : U # T => U \notin B
<1>1. IsWellFoundedOn(StrictSubsetOrdering(S), SUBSET S)
  BY FS_StrictSubsetOrderingWellFounded, FS_FiniteSubsetsOfFinite
<1>2. PICK T \in B : \A U \in B : ~ (<<U, T>> \in StrictSubsetOrdering(S))
  BY <1>1, WFMin, Zenon
<1>3. ASSUME NEW U \in SUBSET T, U # T
      PROVE  U \notin B
  <2>1. U \in SUBSET S /\ T \in SUBSET S
    OBVIOUS
  <2>2. <<U, T>> \in StrictSubsetOrdering(S)
    BY <1>3, <2>1 DEF StrictSubsetOrdering
  <2> QED BY <1>2, <2>2
<1> QED BY <1>3

\* Every function on a finite set has a tally.
LEMMA TallyExists ==
  ASSUME NEW S, IsFiniteSet(S), NEW f \in [S -> Int]
  PROVE  \E g : IsTally(g, f, S)
<1> DEFINE Bad == {T \in SUBSET S : ~ \E g : IsTally(g, f, T)}
<1>1. SUFFICES ASSUME Bad # {} PROVE FALSE
  OBVIOUS
<1>a. Bad \in SUBSET (SUBSET S)
  OBVIOUS
<1>2. PICK T \in Bad : \A U \in SUBSET T : U # T => U \notin Bad
  <2> HIDE DEF Bad
  <2> QED BY <1>1, <1>a, SmallestSubset
<1>3. T # {}
  <2>1. IsTally([U \in SUBSET {} |-> 0], f, {})
    BY DEF IsTally
  <2> QED BY <2>1
<1>4. PICK a \in T : TRUE
  BY <1>3
<1>5. PICK g : IsTally(g, f, T \ {a})
  BY <1>2, <1>4
<1> DEFINE h == [U \in SUBSET T |-> IF a \in U THEN g[U \ {a}] + f[a] ELSE g[U]]
<1>6. h \in [SUBSET T -> Int]
  BY <1>4, <1>5 DEF IsTally
<1>7. h[{}] = 0
  BY <1>5 DEF IsTally
<1>8. ASSUME NEW U \in SUBSET T, NEW x \in T \ U
      PROVE  h[U \cup {x}] = h[U] + f[x]
  <2>1. CASE x = a
    <3>1. (U \cup {x}) \ {a} = U
      BY <2>1
    <3>2. h[U \cup {x}] = g[U] + f[a]
      BY <2>1, <3>1
    <3>3. h[U] = g[U]
      BY <2>1
    <3> QED BY <3>2, <3>3, <2>1
  <2>2. CASE x # a /\ a \in U
    <3>1. (U \cup {x}) \ {a} = (U \ {a}) \cup {x}
      BY <2>2
    <3>2. g[(U \ {a}) \cup {x}] = g[U \ {a}] + f[x]
      BY <1>5, <2>2 DEF IsTally
    <3>3. g[U \ {a}] \in Int /\ f[x] \in Int /\ f[a] \in Int
      BY <1>5, <1>4 DEF IsTally
    <3>4. h[U \cup {x}] = g[(U \ {a}) \cup {x}] + f[a]
      BY <2>2, <3>1
    <3>5. h[U] = g[U \ {a}] + f[a]
      BY <2>2
    <3> HIDE DEF h
    <3> QED BY <3>2, <3>3, <3>4, <3>5
  <2>3. CASE x # a /\ a \notin U
    <3>1. g[U \cup {x}] = g[U] + f[x]
      BY <1>5, <2>3 DEF IsTally
    <3> QED BY <3>1, <2>3
  <2> QED BY <2>1, <2>2, <2>3
<1>9. IsTally(h, f, T)
  BY <1>6, <1>7, <1>8 DEF IsTally
<1> QED BY <1>9

(***************************************************************************)
(* The fold is the tally's value at the whole set.                         *)
(***************************************************************************)
LEMMA TallyIsFold ==
  ASSUME NEW S, NEW f, NEW g, IsTally(g, f, S), f \in [S -> Int]
  PROVE  IsFold(g, f, S)
<1> DEFINE body == [T \in SUBSET S |-> IF T = {} THEN 0
                          ELSE LET x == CHOOSE x \in T : TRUE
                               IN  f[x] + g[T \ {x}]]
<1>1. ASSUME NEW T \in SUBSET S, T # {}
      PROVE  LET x == CHOOSE x \in T : TRUE IN g[T] = f[x] + g[T \ {x}]
  <2> DEFINE x == CHOOSE x \in T : TRUE
  <2>1. x \in T
    BY <1>1
  <2> HIDE DEF x
  <2>2. (T \ {x}) \cup {x} = T
    BY <2>1
  <2>3. g[(T \ {x}) \cup {x}] = g[T \ {x}] + f[x]
    BY <2>1 DEF IsTally
  <2>4. g[T \ {x}] \in Int /\ f[x] \in Int
    BY <2>1 DEF IsTally
  <2>5. g[T] = f[x] + g[T \ {x}]
    <3>1. g[T] = g[T \ {x}] + f[x]
      BY <2>2, <2>3
    <3> QED BY <3>1, <2>4
  <2> QED BY <2>5 DEF x
<1>2. \A T \in SUBSET S : g[T] = body[T]
  BY <1>1 DEF IsTally
<1>3. g = body
  BY <1>2 DEF IsTally
<1> QED BY <1>3 DEF IsFold

\* Two folds of a function over a set agree, whatever order they take.
LEMMA FoldsAgree ==
  ASSUME NEW S, IsFiniteSet(S), NEW f, NEW g, NEW h, IsFold(g, f, S), IsFold(h, f, S)
  PROVE  g[S] = h[S]
<1> DEFINE Bad == {T \in SUBSET S : g[T] # h[T]}
<1>1. SUFFICES ASSUME Bad # {} PROVE FALSE
  OBVIOUS
<1>a. Bad \in SUBSET (SUBSET S)
  OBVIOUS
<1>2. PICK T \in Bad : \A U \in SUBSET T : U # T => U \notin Bad
  <2> HIDE DEF Bad
  <2> QED BY <1>1, <1>a, SmallestSubset
<1> DEFINE x == CHOOSE x \in T : TRUE
<1>3. T # {}
  BY DEF IsFold
<1>4. x \in T
  BY <1>3
<1>5. g[T] = f[x] + g[T \ {x}] /\ h[T] = f[x] + h[T \ {x}]
  BY <1>3 DEF IsFold
<1>6. g[T \ {x}] = h[T \ {x}]
  BY <1>2, <1>4
<1> QED BY <1>5, <1>6

\* The sum over a set adds up its elements one by one.
THEOREM SumIsTally ==
  ASSUME NEW S, IsFiniteSet(S), NEW f \in [S -> Int], NEW g, IsTally(g, f, S)
  PROVE  SumFunctionOnSet(f, S) = g[S]
<1>1. IsFold(g, f, S)
  BY TallyIsFold
<1> DEFINE c == CHOOSE h : IsFold(h, f, S)
<1>2. IsFold(c, f, S)
  BY <1>1
<1>3. SumFunctionOnSet(f, S) = c[S]
  BY DEF SumFunctionOnSet, FoldFunctionOnSet, MapThenFoldSet, IsFold
<1> QED BY <1>1, <1>2, <1>3, FoldsAgree

(***************************************************************************)
(* What ledger updates do to a sum.                                        *)
(***************************************************************************)
THEOREM SumIsInt ==
  ASSUME NEW S, IsFiniteSet(S), NEW f \in [S -> Int]
  PROVE  SumFunctionOnSet(f, S) \in Int
<1>1. PICK g : IsTally(g, f, S)
  BY TallyExists
<1>2. g[S] \in Int
  BY <1>1 DEF IsTally
<1> QED BY <1>1, <1>2, SumIsTally

\* Changing one entry by d changes the sum by d.
LEMMA SumUpdate ==
  ASSUME NEW S, IsFiniteSet(S), NEW f \in [S -> Int],
         NEW h \in [S -> Int], NEW a \in S, NEW d \in Int,
         h[a] = f[a] + d, \A x \in S \ {a} : h[x] = f[x]
  PROVE  SumFunctionOnSet(h, S) = SumFunctionOnSet(f, S) + d
<1>1. PICK g : IsTally(g, f, S)
  BY TallyExists
<1> DEFINE k == [T \in SUBSET S |-> IF a \in T THEN g[T] + d ELSE g[T]]
<1>2. k \in [SUBSET S -> Int] /\ k[{}] = 0
  <2>1. \A T \in SUBSET S : g[T] \in Int
    BY <1>1 DEF IsTally
  <2>2. {} \in SUBSET S /\ a \notin {}
    OBVIOUS
  <2>3. k[{}] = g[{}]
    BY <2>2
  <2>4. k \in [SUBSET S -> Int]
    BY <2>1
  <2> HIDE DEF k
  <2> QED BY <1>1, <2>3, <2>4 DEF IsTally
<1>3. ASSUME NEW T \in SUBSET S, NEW x \in S \ T
      PROVE  k[T \cup {x}] = k[T] + h[x]
  <2>1. g[T \cup {x}] = g[T] + f[x] /\ g[T] \in Int /\ f[x] \in Int
    BY <1>1, <1>3 DEF IsTally
  <2>2. h[x] = IF x = a THEN f[a] + d ELSE f[x]
    BY <1>3
  <2>3. k[T \cup {x}] = IF a \in T \cup {x} THEN g[T \cup {x}] + d ELSE g[T \cup {x}]
    BY <1>3
  <2>4. k[T] = IF a \in T THEN g[T] + d ELSE g[T]
    OBVIOUS
  <2> HIDE DEF k
  <2>5. CASE x = a
    BY <2>1, <2>2, <2>3, <2>4, <2>5, <1>3
  <2>6. CASE x # a /\ a \in T
    BY <2>1, <2>2, <2>3, <2>4, <2>6
  <2>7. CASE x # a /\ a \notin T
    BY <2>1, <2>2, <2>3, <2>4, <2>7
  <2> QED BY <2>5, <2>6, <2>7
<1>4. IsTally(k, h, S)
  BY <1>2, <1>3 DEF IsTally
<1>5. SumFunctionOnSet(h, S) = k[S] /\ SumFunctionOnSet(f, S) = g[S]
  BY <1>1, <1>4, SumIsTally
<1> QED BY <1>5

\* Moving d from one entry to another leaves the sum alone.
THEOREM SumMove ==
  ASSUME NEW S, IsFiniteSet(S), NEW f \in [S -> Int], NEW k \in [S -> Int],
         NEW a \in S, NEW b \in S, a # b, NEW d \in Int,
         k[a] = f[a] - d, k[b] = f[b] + d, \A x \in S \ {a, b} : k[x] = f[x]
  PROVE  SumFunctionOnSet(k, S) = SumFunctionOnSet(f, S)
<1> DEFINE h == [x \in S |-> IF x = a THEN f[x] - d ELSE f[x]]
<1>1. h \in [S -> Int]
  OBVIOUS
<1>2. h[a] = f[a] + (- d) /\ (\A x \in S \ {a} : h[x] = f[x]) /\ - d \in Int
  OBVIOUS
<1>3. k[b] = h[b] + d /\ (\A x \in S \ {b} : k[x] = h[x])
  OBVIOUS
<1> HIDE DEF h
<1>4. SumFunctionOnSet(h, S) = SumFunctionOnSet(f, S) + (- d)
  BY <1>1, <1>2, SumUpdate
<1>5. SumFunctionOnSet(k, S) = SumFunctionOnSet(h, S) + d
  BY <1>1, <1>3, SumUpdate
<1>6. SumFunctionOnSet(f, S) \in Int
  BY SumIsInt
<1> QED BY <1>4, <1>5, <1>6

\* A sum of amounts is at least each amount and at least zero.
THEOREM SumBound ==
  ASSUME NEW S, IsFiniteSet(S), NEW f \in [S -> Nat]
  PROVE  /\ SumFunctionOnSet(f, S) >= 0
         /\ \A a \in S : f[a] <= SumFunctionOnSet(f, S)
<1>0. f \in [S -> Int]
  OBVIOUS
<1>1. PICK g : IsTally(g, f, S)
  BY <1>0, TallyExists
<1> DEFINE Bad == {T \in SUBSET S : ~ (g[T] >= 0)}
<1>2. Bad = {}
  <2>1. SUFFICES ASSUME Bad # {} PROVE FALSE
    OBVIOUS
  <2>2. Bad \in SUBSET (SUBSET S)
    OBVIOUS
  <2>3. PICK T \in Bad : \A U \in SUBSET T : U # T => U \notin Bad
    <3> HIDE DEF Bad
    <3> QED BY <2>1, <2>2, SmallestSubset
  <2>4. T # {}
    <3>1. g[{}] = 0
      BY <1>1 DEF IsTally
    <3> QED BY <3>1, SMT
  <2>5. PICK x \in T : TRUE
    BY <2>4
  <2>6. g[T \ {x}] >= 0 /\ g[T \ {x}] \in Int
    BY <2>3, <1>1 DEF IsTally
  <2>7. (T \ {x}) \cup {x} = T
    OBVIOUS
  <2>8. g[T] = g[T \ {x}] + f[x] /\ f[x] \in Nat
    BY <1>1, <2>7 DEF IsTally
  <2> QED BY <2>6, <2>8
<1>3. \A T \in SUBSET S : g[T] >= 0 /\ g[T] \in Int
  BY <1>1, <1>2 DEF IsTally
<1>4. ASSUME NEW a \in S PROVE f[a] <= g[S]
  <2>1. (S \ {a}) \cup {a} = S
    OBVIOUS
  <2>2. g[S] = g[S \ {a}] + f[a]
    BY <1>1, <2>1 DEF IsTally
  <2> QED BY <1>3, <2>2
<1> QED BY <1>0, <1>1, <1>3, <1>4, SumIsTally

\* A table of zeros sums to zero.
THEOREM SumZero ==
  ASSUME NEW S, IsFiniteSet(S), NEW f \in [S -> Int], \A x \in S : f[x] = 0
  PROVE  SumFunctionOnSet(f, S) = 0
<1>1. IsTally([T \in SUBSET S |-> 0], f, S)
  BY DEF IsTally
<1> QED BY <1>1, SumIsTally

\* The sum over a part of the index set is a number.
THEOREM PartSumIsInt ==
  ASSUME NEW S, IsFiniteSet(S), NEW f \in [S -> Int], NEW T \in SUBSET S
  PROVE  SumFunctionOnSet(f, T) \in Int
<1> DEFINE k == [x \in T |-> f[x]]
<1>1. IsFiniteSet(T) /\ k \in [T -> Int]
  BY FS_Subset
<1>2. PICK g : IsTally(g, k, T)
  <2> HIDE DEF k
  <2> QED BY <1>1, TallyExists
<1>3. g[T] \in Int
  BY <1>2 DEF IsTally
<1>5. IsFold(g, k, T)
  <2> HIDE DEF k
  <2> QED BY <1>1, <1>2, TallyIsFold
<1>6. IsFold(g, f, T)
  <2>1. \A U \in SUBSET T : U # {} => (CHOOSE x \in U : TRUE) \in T
    OBVIOUS
  <2>2. \A U \in SUBSET T :
          (IF U = {} THEN 0 ELSE LET x == CHOOSE x \in U : TRUE IN k[x] + g[U \ {x}])
            = (IF U = {} THEN 0 ELSE LET x == CHOOSE x \in U : TRUE IN f[x] + g[U \ {x}])
    BY <2>1
  <2> QED BY <1>5, <2>2 DEF IsFold
<1> DEFINE c == CHOOSE h : IsFold(h, f, T)
<1>7. IsFold(c, f, T)
  BY <1>6
<1>8. SumFunctionOnSet(f, T) = c[T]
  BY DEF SumFunctionOnSet, FoldFunctionOnSet, MapThenFoldSet, IsFold
<1> QED BY <1>1, <1>3, <1>6, <1>7, <1>8, FoldsAgree

\* The entries of f, indexed by T, are those of k, indexed by S, and the rest: e
\* tells, one to one, where the entries of k are.
Splits(f, T, k, S, rest, e) ==
  /\ IsFiniteSet(S) /\ IsFiniteSet(T)
  /\ f \in [T -> Int] /\ k \in [S -> Int] /\ rest \in [T -> Int]
  /\ e \in [S -> T]
  /\ \A x, y \in S : e[x] = e[y] => x = y
  /\ \A x \in S : k[x] = f[e[x]]
  /\ \A x \in S : rest[e[x]] = 0
  /\ \A t \in T : (\A x \in S : e[x] # t) => rest[t] = f[t]

\* A sum is the sum of some of its entries and the sum of the others.
THEOREM SumSplit ==
  ASSUME NEW S, NEW T, NEW f, NEW k, NEW rest, NEW e, Splits(f, T, k, S, rest, e)
  PROVE  SumFunctionOnSet(f, T) = SumFunctionOnSet(k, S) + SumFunctionOnSet(rest, T)
<1>0. /\ IsFiniteSet(S) /\ IsFiniteSet(T)
      /\ f \in [T -> Int] /\ k \in [S -> Int] /\ rest \in [T -> Int]
      /\ e \in [S -> T] /\ \A x, y \in S : e[x] = e[y] => x = y
      /\ \A x \in S : k[x] = f[e[x]]
      /\ \A x \in S : rest[e[x]] = 0
      /\ \A t \in T : (\A x \in S : e[x] # t) => rest[t] = f[t]
  BY DEF Splits
<1> DEFINE masked(U) == [t \in T |-> IF \E x \in U : e[x] = t THEN 0 ELSE f[t]]
           total == SumFunctionOnSet(f, T)
           h == [U \in SUBSET S |-> total - SumFunctionOnSet(masked(U), T)]
<1>1. \A U \in SUBSET S : masked(U) \in [T -> Int]
  BY <1>0
<1>2. total \in Int
  BY <1>0, SumIsInt
<1>a. ASSUME NEW U \in SUBSET S PROVE SumFunctionOnSet(masked(U), T) \in Int
  <2> HIDE DEF masked
  <2> QED BY <1>0, <1>1, SumIsInt
<1>3. h \in [SUBSET S -> Int] /\ h[{}] = 0
  <2>1. masked({}) = f
    BY <1>0
  <2>2. h[{}] = total - SumFunctionOnSet(masked({}), T)
    OBVIOUS
  <2> HIDE DEF masked, total
  <2>3. h \in [SUBSET S -> Int]
    BY <1>2, <1>a
  <2>4. SumFunctionOnSet(masked({}), T) = total
    BY <2>1 DEF total
  <2> HIDE DEF h
  <2> QED BY <1>2, <2>2, <2>3, <2>4
<1>4. ASSUME NEW U \in SUBSET S, NEW x \in S \ U
      PROVE  h[U \cup {x}] = h[U] + k[x]
  <2> DEFINE V == U \cup {x}
             A == masked(U)
             B == masked(V)
  <2>1. V \in SUBSET S
    OBVIOUS
  <2>2. A \in [T -> Int] /\ B \in [T -> Int]
    BY <1>1, <2>1
  <2>3. k[x] = f[e[x]] /\ e[x] \in T /\ f[e[x]] \in Int /\ - f[e[x]] \in Int
    BY <1>0
  <2>4. A[e[x]] = f[e[x]] /\ B[e[x]] = 0
    BY <1>0
  <2>5. \A t \in T \ {e[x]} : B[t] = A[t]
    BY <1>0
  <2>6. h[V] = total - SumFunctionOnSet(B, T) /\ h[U] = total - SumFunctionOnSet(A, T)
    BY <2>1
  <2>7. SumFunctionOnSet(A, T) \in Int
    BY <1>0, <2>2, SumIsInt
  <2> HIDE DEF A, B, h, total, masked
  <2> DEFINE p == e[x]
             d == - f[p]
  <2>8. B[p] = A[p] + d
    BY <2>3, <2>4
  <2>9. p \in T /\ d \in Int
    BY <2>3
  <2>10. \A t \in T \ {p} : B[t] = A[t]
    BY <2>5
  <2>11. d = - k[x] /\ k[x] \in Int
    BY <2>3
  <2> HIDE DEF p, d
  <2>12. SumFunctionOnSet(B, T) = SumFunctionOnSet(A, T) + d
    BY <1>0, <2>2, <2>8, <2>9, <2>10, SumUpdate
  <2> QED BY <1>2, <2>6, <2>7, <2>11, <2>12
<1>5. SumFunctionOnSet(k, S) = h[S]
  <2>1. IsTally(h, k, S)
    <3> HIDE DEF h
    <3> QED BY <1>3, <1>4 DEF IsTally
  <2> HIDE DEF h
  <2> QED BY <1>0, <2>1, SumIsTally
<1>6. masked(S) = rest
  <2>1. ASSUME NEW t \in T PROVE masked(S)[t] = rest[t]
    <3>1. CASE \E x \in S : e[x] = t
      BY <1>0, <3>1
    <3>2. CASE \A x \in S : e[x] # t
      BY <1>0, <3>2
    <3> QED BY <3>1, <3>2
  <2> QED BY <1>0, <2>1
<1>7. h[S] = total - SumFunctionOnSet(rest, T)
  BY <1>6
<1>8. SumFunctionOnSet(rest, T) \in Int
  BY <1>0, SumIsInt
<1> HIDE DEF h
<1> QED BY <1>2, <1>5, <1>7, <1>8

-----------------------------------------------------------------------------
(***************************************************************************)
(* Whole numbers                                                           *)
(***************************************************************************)
\* Truncating division, as the contracts divide amounts of 64 and 128 bits: the
\* quotient is the largest number whose product with the divisor does not exceed
\* the dividend.
LEMMA DivBounds ==
  ASSUME NEW a \in Nat, NEW b \in Nat \ {0}
  PROVE  /\ a \div b \in Nat
         /\ b * (a \div b) <= a
         /\ a < b * (a \div b) + b
  BY SMT

\* A positive factor can be cancelled from an inequality of products.
LEMMA CancelFactor ==
  ASSUME NEW a \in Int, NEW b \in Int, NEW c \in Int, c > 0, c * a <= c * b
  PROVE  a <= b
  BY SMT

\* A product grows with each factor.
LEMMA Grows ==
  ASSUME NEW a \in Int, NEW b \in Int, NEW c \in Nat, a <= b
  PROVE  c * a <= c * b
  BY SMT

\* Every nonempty set of natural numbers has a smallest element.
LEMMA SmallestNumber ==
  ASSUME NEW S \in SUBSET Nat, S # {}
  PROVE  \E m \in S : \A k \in S : m <= k
<1>1. PICK m \in S : \A k \in S : ~ (<<k, m>> \in OpToRel(<, Nat))
  BY NatLessThanWellFounded, WFMin, Zenon
<1>2. ASSUME NEW k \in S PROVE m <= k
  <2>1. k \in Nat /\ m \in Nat /\ <<k, m>> \in Nat \X Nat
    OBVIOUS
  <2>2. ~ (k < m)
    BY <1>1, <2>1 DEF OpToRel
  <2> QED BY <2>1, <2>2
<1> QED BY <1>2

Even(n) == \E k \in Int : n = 2 * k

\* Sums and differences of even numbers are even.
LEMMA EvenSum ==
  ASSUME NEW m \in Int, NEW n \in Int, Even(m), Even(n)
  PROVE  Even(m + n) /\ Even(m - n)
<1>1. PICK k \in Int : m = 2 * k
  BY DEF Even
<1>2. PICK l \in Int : n = 2 * l
  BY DEF Even
<1>3. m + n = 2 * (k + l) /\ m - n = 2 * (k - l) /\ k + l \in Int /\ k - l \in Int
  BY <1>1, <1>2
<1> QED BY <1>3 DEF Even

\* Even numbers that differ, differ by more than one.
LEMMA EvenGap ==
  ASSUME NEW m \in Int, NEW n \in Int, Even(m), Even(n), ~ (n - m > 1), ~ (m - n > 1)
  PROVE  m = n
<1>1. PICK k \in Int : m = 2 * k
  BY DEF Even
<1>2. PICK l \in Int : n = 2 * l
  BY DEF Even
<1>3. ~ (2 * l - 2 * k > 1) /\ ~ (2 * k - 2 * l > 1)
  BY <1>1, <1>2
<1>4. k = l
  BY <1>3
<1> QED BY <1>1, <1>2, <1>4

\* A part n / m of an amount b is not more than b.
LEMMA PartOfAmount ==
  ASSUME NEW b \in Nat, NEW n \in Nat, NEW m \in Nat, m > 0
  PROVE  /\ (b * n) \div m \in Nat /\ (n * b) \div m \in Nat
         /\ n <= m => (b * n) \div m <= b /\ (n * b) \div m <= b
<1>1. PICK x \in Nat : x = b * n
  OBVIOUS
<1>2. n * b = x
  BY <1>1
<1>3. PICK q \in Nat : q = x \div m /\ m * q <= x
  BY <1>1, DivBounds
<1>4. ASSUME n <= m
      PROVE  q <= b
  <2>1. b * n <= b * m
    BY <1>4, Grows
  <2>2. b * m = m * b
    OBVIOUS
  <2>3. m * q \in Nat /\ m * b \in Nat
    BY <1>3
  <2>4. m * q <= m * b
    BY <1>1, <1>3, <2>1, <2>2, <2>3
  <2> QED BY <1>3, <2>4, CancelFactor
<1> QED BY <1>1, <1>2, <1>3, <1>4
=============================================================================
