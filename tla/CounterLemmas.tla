--------------------------- MODULE CounterLemmas ---------------------------
(***************************************************************************)
(* What the proofs about counters need: u64 arithmetic, the size of a set  *)
(* that gains or loses an element, and sums over finite sets.              *)
(*                                                                         *)
(* A sum is a fold, which is a function defined by recursion over the      *)
(* subsets of a finite set.  Facts about it are by induction in the form   *)
(* that a nonempty collection of subsets has a minimal member.             *)
(***************************************************************************)
EXTENDS TenantStats, FiniteSetTheorems, TLAPS

-----------------------------------------------------------------------------
(* u64 arithmetic.                                                         *)

\* fetch_add and fetch_sub on a u64 counter give a u64.
LEMMA FetchType ==
  ASSUME NEW x \in Counter, NEW n \in Nat
  PROVE  FetchAdd(x, n) \in Counter /\ FetchSub(x, n) \in Counter
  <1>1. x + n \in Int /\ x - n \in Int
    BY U64Assumption DEF Counter
  <1>2. \A y \in Int : y % U64 \in Counter
    BY U64Assumption DEF Counter
  <1> QED  BY <1>1, <1>2 DEF FetchAdd, FetchSub

\* Division with remainder, for a modulus that is not a literal.
LEMMA ModDiv ==
  ASSUME NEW m \in Nat \ {0}, NEW a \in Int
  PROVE  \E q \in Int, r \in 0 .. m - 1 : a = q * m + r /\ a % m = r
  <1>1. a = (a \div m) * m + (a % m) /\ a \div m \in Int /\ a % m \in 0 .. m-1
    BY SMT
  <1> QED BY <1>1

\* The remainder is unique.
LEMMA ModUnique ==
  ASSUME NEW m \in Nat \ {0}, NEW q \in Int, NEW r \in 0 .. m - 1
  PROVE  (q * m + r) % m = r
  <1> DEFINE a == q * m + r
  <1>0. a \in Int
    BY SMT
  <1> HIDE DEF a
  <1>1. PICK p \in Int, s \in 0 .. m - 1 : a = p * m + s /\ a % m = s
    BY <1>0, ModDiv
  <1>2. (p - q) * m = r - s
    <2>1. (p - q) * m = p * m - q * m
      BY SMT
    <2> QED BY <1>1, <2>1 DEF a
  <1>3. p - q < 1 /\ p - q > -1
    <2> DEFINE k == p - q
    <2>1. k \in Int /\ k * m < m /\ k * m > -m
      BY <1>2
    <2> HIDE DEF k
    <2>2. k < 1
      BY <2>1, SMT
    <2>3. k > -1
      BY <2>1, SMT
    <2> QED BY <2>1, <2>2, <2>3 DEF k
  <1>4. p = q
    BY <1>3
  <1> QED BY <1>1, <1>4 DEF a

\* Wrapping once at the end is wrapping at every step.
LEMMA AddMod ==
  ASSUME NEW m \in Nat \ {0}, NEW a \in Int, NEW b \in Int
  PROVE  ((a % m) + b) % m = (a + b) % m
  <1>1. PICK q \in Int, r \in 0 .. m - 1 : a = q * m + r /\ a % m = r
    BY ModDiv
  <1>2. PICK p \in Int, s \in 0 .. m - 1 : r + b = p * m + s /\ (r + b) % m = s
    BY ModDiv
  <1>3. a + b = (q + p) * m + s
    <2>1. (q + p) * m = q * m + p * m
      BY SMT
    <2> QED BY <1>1, <1>2, <2>1
  <1>4. ((q + p) * m + s) % m = s
    <2>1. q + p \in Int
      OBVIOUS
    <2> QED BY <2>1, ModUnique
  <1> QED BY <1>1, <1>2, <1>3, <1>4

\* fetch_add and fetch_sub on a counter that holds a number modulo U64.
LEMMA FetchMod ==
  ASSUME NEW c \in Int, NEW n \in Int
  PROVE  FetchAdd(c % U64, n) = (c + n) % U64 /\ FetchSub(c % U64, n) = (c - n) % U64
  <1>0. U64 \in Nat \ {0} /\ -n \in Int
    BY U64Assumption
  <1>1. ((c % U64) + n) % U64 = (c + n) % U64 /\ ((c % U64) + (-n)) % U64 = (c + (-n)) % U64
    BY <1>0, AddMod
  <1>2. c % U64 \in Int
    BY <1>0, SMT
  <1>3. (c % U64) - n = (c % U64) + (-n) /\ c - n = c + (-n)
    BY <1>2
  <1> QED  BY <1>1, <1>3 DEF FetchAdd, FetchSub

-----------------------------------------------------------------------------
(* Sizes of sets.                                                          *)

\* Two sets that agree outside x differ in size by what they say of x.
LEMMA OneChange ==
  ASSUME NEW A, NEW B, NEW x, IsFiniteSet(A), \A y : y # x => (y \in A <=> y \in B)
  PROVE  /\ IsFiniteSet(B) /\ Cardinality(A) \in Nat /\ Cardinality(B) \in Nat
         /\ Cardinality(B) = Cardinality(A) + (IF x \in B THEN 1 ELSE 0)
                                            - (IF x \in A THEN 1 ELSE 0)
  <1>1. CASE x \in B
    <2>1. B = A \cup {x}
      BY <1>1
    <2> QED  BY <1>1, <2>1, FS_AddElement, FS_CardinalityType
  <1>2. CASE x \notin B
    <2>1. B = A \ {x}
      BY <1>2
    <2> QED  BY <1>2, <2>1, FS_RemoveElement, FS_CardinalityType
  <1> QED  BY <1>1, <1>2

-----------------------------------------------------------------------------
(* Recursion over the subsets of a finite set.                             *)

\* Induction over the subsets of a finite set: a collection of subsets that
\* is not empty has a member that is minimal in it.
LEMMA MinimalSubset ==
  ASSUME NEW S, IsFiniteSet(S), NEW C \in SUBSET (SUBSET S), C # {}
  PROVE  \E m \in C : \A s \in C : s \subseteq m => s = m
  <1>1. IsWellFoundedOn(StrictSubsetOrdering(S), SUBSET S)
    BY FS_StrictSubsetOrderingWellFounded, FS_FiniteSubsetsOfFinite
  <1>2. PICK m \in C : \A s \in C : ~(<<s, m>> \in StrictSubsetOrdering(S))
    BY <1>1, WFMin
  <1> QED  BY <1>2 DEF StrictSubsetOrdering

\* The recursion of a sum of f, which takes the elements of a set one by one.
Pick(s) == CHOOSE x \in s : TRUE
Folds(g, f, D) ==
  g = [s \in D |-> IF s = {} THEN 0 ELSE f[Pick(s)] + g[s \ {Pick(s)}]]

\* What the definition of a sum says.
LEMMA SumDef ==
  ASSUME NEW f, NEW S
  PROVE  SumFunctionOnSet(f, S) = (CHOOSE g : Folds(g, f, SUBSET S))[S]
  BY DEF SumFunctionOnSet, FoldFunctionOnSet, MapThenFoldSet, Folds, Pick

\* The naturals are well ordered.
LEMMA LeastNat ==
  ASSUME NEW C \in SUBSET Nat, C # {}
  PROVE  \E m \in C : \A n \in C : m <= n
  <1> DEFINE R == {ss \in Nat \X Nat : ss[1] < ss[2]}
  <1>1. IsWellFoundedOn(R, Nat)
    BY NatLessThanWellFounded DEF OpToRel
  <1>2. PICK m \in C : \A n \in C : ~(<<n, m>> \in R)
    <2> HIDE DEF R
    <2> QED  BY <1>1, WFMin
  <1>3. ASSUME NEW n \in C PROVE m <= n
    <2>1. <<n, m>> \in Nat \X Nat /\ n \in Nat /\ m \in Nat
      OBVIOUS
    <2>2. ~(n < m)
      BY <1>2, <2>1
    <2> QED  BY <2>1, <2>2
  <1> QED  BY <1>3

\* The recursion has a solution: it is built up by cardinality.
LEMMA FoldsExist ==
  ASSUME NEW f, NEW S, IsFiniteSet(S)
  PROVE  \E g : Folds(g, f, SUBSET S)
  <1> DEFINE D(n) == {s \in SUBSET S : Cardinality(s) <= n}
             C == {n \in Nat : ~\E g : Folds(g, f, D(n))}
  <1>1. ASSUME NEW s \in SUBSET S
        PROVE  IsFiniteSet(s) /\ Cardinality(s) \in Nat /\ Cardinality(s) <= Cardinality(S)
    BY FS_Subset, FS_CardinalityType
  <1>2. D(Cardinality(S)) = SUBSET S /\ Cardinality(S) \in Nat
    BY <1>1, FS_CardinalityType
  <1>3. D(0) = {{}}
    BY <1>1, FS_EmptySet
  <1>4. 0 \notin C
    <2> DEFINE z == [s \in {{}} |-> 0]
    <2>1. Folds(z, f, {{}})
      BY DEF Folds
    <2> QED  BY <1>3, <2>1
  <1>5. ASSUME NEW n \in Nat, n \notin C PROVE n + 1 \notin C
    <2>1. PICK g : Folds(g, f, D(n))
      BY <1>5
    <2> DEFINE h == [s \in D(n + 1) |-> IF s = {} THEN 0 ELSE f[Pick(s)] + g[s \ {Pick(s)}]]
    <2>2. ASSUME NEW s \in D(n + 1), s # {} PROVE s \ {Pick(s)} \in D(n)
      <3>1. Pick(s) \in s
        BY <2>2 DEF Pick
      <3> QED  BY <1>1, <2>2, <3>1, FS_RemoveElement
    <2>3. ASSUME NEW s \in D(n) PROVE h[s] = g[s]
      <3>1. s \in D(n + 1)
        BY <1>1
      <3> QED  BY <2>1, <3>1 DEF Folds
    <2>4. Folds(h, f, D(n + 1))
      <3>1. ASSUME NEW s \in D(n + 1)
            PROVE  h[s] = IF s = {} THEN 0 ELSE f[Pick(s)] + h[s \ {Pick(s)}]
        BY <2>2, <2>3
      <3> HIDE DEF D
      <3>2. h = [s \in D(n + 1) |-> h[s]]
        OBVIOUS
      <3> HIDE DEF h
      <3> QED  BY <3>1, <3>2 DEF Folds
    <2> QED  BY <2>4
  <1>6. C = {}
    <2>1. SUFFICES ASSUME C # {} PROVE FALSE
      OBVIOUS
    <2>2. PICK m \in C : \A n \in C : m <= n
      <3> HIDE DEF D
      <3> QED  BY <2>1, LeastNat
    <2>3. m \in Nat /\ m # 0
      BY <1>4, <2>2
    <2>4. m - 1 \in Nat /\ m - 1 \notin C
      <3> HIDE DEF C
      <3> QED  BY <2>2, <2>3
    <2>5. (m - 1) + 1 \notin C
      <3> HIDE DEF C
      <3> QED  BY <1>5, <2>4
    <2> HIDE DEF C
    <2> QED  BY <2>2, <2>3, <2>5
  <1>7. \E g : Folds(g, f, D(Cardinality(S)))
    <2> HIDE DEF D
    <2> QED BY <1>2, <1>6
  <1> QED  BY <1>2, <1>7

\* The sum is what a solution of the recursion has at S.
LEMMA SumIsFold ==
  ASSUME NEW f, NEW S, IsFiniteSet(S)
  PROVE  \E g : Folds(g, f, SUBSET S) /\ SumFunctionOnSet(f, S) = g[S]
  <1> DEFINE g == CHOOSE g : Folds(g, f, SUBSET S)
  <1>1. Folds(g, f, SUBSET S)
    BY FoldsExist, Zenon
  <1>2. SumFunctionOnSet(f, S) = g[S]
    BY SumDef
  <1> HIDE DEF g
  <1> QED  BY <1>1, <1>2

\* One step of the recursion.
LEMMA FoldStep ==
  ASSUME NEW f, NEW S, NEW g, Folds(g, f, SUBSET S), NEW s \in SUBSET S
  PROVE  /\ s = {} => g[s] = 0
         /\ s # {} => Pick(s) \in s /\ g[s] = f[Pick(s)] + g[s \ {Pick(s)}]
  BY DEF Folds, Pick

\* Solutions for functions that agree on a set agree there.
LEMMA FoldsAgree ==
  ASSUME NEW f, NEW e, NEW S, IsFiniteSet(S), NEW T, NEW g, NEW h,
         Folds(g, f, SUBSET S), Folds(h, e, SUBSET T),
         NEW r \in SUBSET (S \cap T), \A x \in r : f[x] = e[x]
  PROVE  g[r] = h[r]
  <1> DEFINE C == {s \in SUBSET r : g[s] # h[s]}
  <1>1. IsFiniteSet(r)
    BY FS_Subset
  <1>2. SUFFICES ASSUME C # {} PROVE FALSE
    OBVIOUS
  <1>3. PICK m \in C : \A s \in C : s \subseteq m => s = m
    <2>1. C \in SUBSET (SUBSET r)
      OBVIOUS
    <2> HIDE DEF C
    <2> QED  BY <1>1, <1>2, <2>1, MinimalSubset
  <1>4. m # {}
    BY <1>3, FoldStep
  <1>5. Pick(m) \in m /\ m \ {Pick(m)} \in SUBSET r /\ m \ {Pick(m)} \notin C
    BY <1>3, <1>4 DEF Pick
  <1>6. g[m] = f[Pick(m)] + g[m \ {Pick(m)}] /\ h[m] = e[Pick(m)] + h[m \ {Pick(m)}]
    BY <1>3, <1>4, FoldStep
  <1> QED  BY <1>3, <1>5, <1>6

\* The values of a solution are integers.
LEMMA FoldInt ==
  ASSUME NEW f, NEW S, IsFiniteSet(S), \A x \in S : f[x] \in Int,
         NEW g, Folds(g, f, SUBSET S), NEW r \in SUBSET S
  PROVE  g[r] \in Int
  <1> DEFINE C == {s \in SUBSET S : g[s] \notin Int}
  <1>1. SUFFICES ASSUME C # {} PROVE FALSE
    OBVIOUS
  <1>2. PICK m \in C : \A s \in C : s \subseteq m => s = m
    <2>1. C \in SUBSET (SUBSET S)
      OBVIOUS
    <2> HIDE DEF C
    <2> QED  BY <1>1, <2>1, MinimalSubset
  <1>3. m # {}
    <2>1. m \in SUBSET S /\ g[m] \notin Int
      BY <1>2
    <2>2. m = {} => g[m] = 0
      BY <2>1, FoldStep
    <2> QED  BY <2>1, <2>2
  <1>4. Pick(m) \in m /\ m \ {Pick(m)} \in SUBSET S /\ m \ {Pick(m)} \notin C
    BY <1>2, <1>3 DEF Pick
  <1>5. g[m] = f[Pick(m)] + g[m \ {Pick(m)}]
    BY <1>2, <1>3, FoldStep
  <1> QED  BY <1>2, <1>4, <1>5

\* Any element may be taken first.
LEMMA FoldAny ==
  ASSUME NEW f, NEW S, IsFiniteSet(S), \A x \in S : f[x] \in Int,
         NEW g, Folds(g, f, SUBSET S)
  PROVE  \A a \in S : g[S] = f[a] + g[S \ {a}]
  <1> DEFINE C == {s \in SUBSET S : \E x \in s : g[s] # f[x] + g[s \ {x}]}
  <1>1. SUFFICES ASSUME C # {} PROVE FALSE
    OBVIOUS
  <1>2. PICK m \in C : \A s \in C : s \subseteq m => s = m
    <2>1. C \in SUBSET (SUBSET S)
      OBVIOUS
    <2> HIDE DEF C
    <2> QED  BY <1>1, <2>1, MinimalSubset
  <1>3. PICK x \in m : g[m] # f[x] + g[m \ {x}]
    BY <1>2
  <1> DEFINE y == Pick(m)
  <1>4. y \in m /\ g[m] = f[y] + g[m \ {y}]
    BY <1>2, <1>3, FoldStep
  <1>5. x # y
    BY <1>3, <1>4
  <1> HIDE DEF y
  <1>6. m \ {y} \in SUBSET S /\ m \ {x} \in SUBSET S /\ m \ {y} \notin C /\ m \ {x} \notin C
    BY <1>2, <1>3, <1>4
  <1>7. g[m \ {y}] = f[x] + g[(m \ {y}) \ {x}] /\ g[m \ {x}] = f[y] + g[(m \ {x}) \ {y}]
    BY <1>3, <1>4, <1>5, <1>6
  <1>8. (m \ {y}) \ {x} = (m \ {x}) \ {y} /\ (m \ {y}) \ {x} \in SUBSET S
    BY <1>6
  <1>9. f[x] \in Int /\ f[y] \in Int /\ g[(m \ {y}) \ {x}] \in Int
    BY <1>2, <1>3, <1>4, <1>8, FoldInt
  <1> DEFINE k == g[(m \ {y}) \ {x}]
  <1>10. g[m] = f[y] + (f[x] + k) /\ g[m \ {x}] = f[y] + k /\ k \in Int
    BY <1>4, <1>7, <1>8, <1>9
  <1> HIDE DEF k
  <1> QED  BY <1>3, <1>9, <1>10

-----------------------------------------------------------------------------
(* Sums.                                                                   *)

\* Nothing sums to zero.
LEMMA SumEmpty == ASSUME NEW f PROVE SumFunctionOnSet(f, {}) = 0
  <1>1. PICK g : Folds(g, f, SUBSET {}) /\ SumFunctionOnSet(f, {}) = g[{}]
    BY SumIsFold, FS_EmptySet
  <1>2. {} \in SUBSET {}
    OBVIOUS
  <1>3. g[{}] = 0
    BY <1>1, <1>2 DEF Folds
  <1> QED  BY <1>1, <1>3

\* A sum of integers is an integer.
LEMMA SumInt ==
  ASSUME NEW f, NEW S, IsFiniteSet(S), \A x \in S : f[x] \in Int
  PROVE  SumFunctionOnSet(f, S) \in Int
  <1>1. PICK g : Folds(g, f, SUBSET S) /\ SumFunctionOnSet(f, S) = g[S]
    BY SumIsFold
  <1>2. g[S] \in Int
    BY <1>1, FoldInt
  <1> QED  BY <1>1, <1>2

\* A sum looks only at the elements it is over.
LEMMA SumAgree ==
  ASSUME NEW f, NEW e, NEW S, IsFiniteSet(S), \A x \in S : f[x] = e[x]
  PROVE  SumFunctionOnSet(f, S) = SumFunctionOnSet(e, S)
  <1>1. PICK g : Folds(g, f, SUBSET S) /\ SumFunctionOnSet(f, S) = g[S]
    BY SumIsFold
  <1>2. PICK h : Folds(h, e, SUBSET S) /\ SumFunctionOnSet(e, S) = h[S]
    BY SumIsFold
  <1>3. g[S] = h[S]
    BY <1>1, <1>2, FoldsAgree
  <1> QED  BY <1>1, <1>2, <1>3

\* One element out.
LEMMA SumRemove ==
  ASSUME NEW f, NEW S, IsFiniteSet(S), \A x \in S : f[x] \in Int, NEW a \in S
  PROVE  SumFunctionOnSet(f, S) = f[a] + SumFunctionOnSet(f, S \ {a})
  <1> DEFINE R == S \ {a}
  <1>1. IsFiniteSet(R)
    BY FS_RemoveElement
  <1>2. PICK g : Folds(g, f, SUBSET S) /\ SumFunctionOnSet(f, S) = g[S]
    BY SumIsFold
  <1>3. PICK h : Folds(h, f, SUBSET R) /\ SumFunctionOnSet(f, R) = h[R]
    BY <1>1, SumIsFold
  <1>4. g[R] = h[R]
    <2>1. R \in SUBSET (S \cap R)
      OBVIOUS
    <2> HIDE DEF R
    <2> QED  BY <1>2, <1>3, <2>1, FoldsAgree
  <1>5. \A x \in S : g[S] = f[x] + g[S \ {x}]
    <2>1. Folds(g, f, SUBSET S)
      BY <1>2
    <2> HIDE DEF R
    <2>2. \A x \in S : f[x] \in Int
      OBVIOUS
    <2>3. IsFiniteSet(S)
      OBVIOUS
    <2> QED  BY <2>1, <2>2, <2>3, FoldAny
  <1> QED  BY <1>2, <1>3, <1>4, <1>5

\* Two sets that agree outside a, with values that agree there: the sums differ
\* by what they say of a.
LEMMA SumOneChange ==
  ASSUME NEW f, NEW e, NEW A, NEW B, NEW a, IsFiniteSet(A),
         \A x : x # a => (x \in A <=> x \in B),
         \A x \in A \ {a} : e[x] = f[x],
         \A x \in A : f[x] \in Int, a \in B => e[a] \in Int
  PROVE  /\ SumFunctionOnSet(f, A) \in Int /\ SumFunctionOnSet(e, B) \in Int
         /\ SumFunctionOnSet(e, B) = SumFunctionOnSet(f, A) + (IF a \in B THEN e[a] ELSE 0)
                                                            - (IF a \in A THEN f[a] ELSE 0)
  <1> DEFINE R == A \ {a}
  <1>1. /\ IsFiniteSet(R) /\ a \notin R /\ R = B \ {a}
        /\ \A x \in R : f[x] \in Int /\ e[x] \in Int /\ e[x] = f[x]
    BY FS_RemoveElement
  <1>2. IsFiniteSet(B)
    BY OneChange
  <1>3. SumFunctionOnSet(e, R) = SumFunctionOnSet(f, R) /\ SumFunctionOnSet(f, R) \in Int
    <2> HIDE DEF R
    <2> QED  BY <1>1, SumAgree, SumInt
  <1>4. SumFunctionOnSet(f, A) = SumFunctionOnSet(f, R) + (IF a \in A THEN f[a] ELSE 0)
    <2>1. CASE a \in A
      <3>1. SumFunctionOnSet(f, A) = f[a] + SumFunctionOnSet(f, R) /\ f[a] \in Int
        BY <2>1, SumRemove
      <3> QED  BY <1>3, <2>1, <3>1
    <2>2. CASE a \notin A
      <3>1. A = R
        BY <2>2
      <3> HIDE DEF R
      <3> QED  BY <1>3, <2>2, <3>1
    <2> QED  BY <2>1, <2>2
  <1>5. SumFunctionOnSet(e, B) = SumFunctionOnSet(e, R) + (IF a \in B THEN e[a] ELSE 0)
    <2>1. CASE a \in B
      <3>1. \A x \in B : e[x] \in Int
        BY <1>1, <2>1
      <3>2. SumFunctionOnSet(e, B) = e[a] + SumFunctionOnSet(e, B \ {a}) /\ e[a] \in Int
        BY <1>2, <2>1, <3>1, SumRemove
      <3>3. B \ {a} = R
        BY <1>1
      <3> HIDE DEF R
      <3>4. SumFunctionOnSet(e, B) = e[a] + SumFunctionOnSet(e, R)
        BY <3>2, <3>3
      <3> QED  BY <1>3, <2>1, <3>2, <3>4
    <2>2. CASE a \notin B
      <3>1. B = R
        BY <1>1, <2>2
      <3> HIDE DEF R
      <3> QED  BY <1>3, <2>2, <3>1
    <2> QED  BY <2>1, <2>2
  <1> DEFINE x == IF a \in A THEN f[a] ELSE 0
             y == IF a \in B THEN e[a] ELSE 0
  <1>6. x \in Int /\ y \in Int
    OBVIOUS
  <1> HIDE DEF R, x, y
  <1>7. SumFunctionOnSet(f, A) = SumFunctionOnSet(f, R) + x
    BY <1>4 DEF x
  <1>8. SumFunctionOnSet(e, B) = SumFunctionOnSet(e, R) + y
    BY <1>5 DEF y
  <1>9. /\ SumFunctionOnSet(f, A) \in Int /\ SumFunctionOnSet(e, B) \in Int
         /\ SumFunctionOnSet(e, B) = SumFunctionOnSet(f, A) + y - x
    BY <1>3, <1>6, <1>7, <1>8
  <1> QED  BY <1>9 DEF x, y

\* A sum of zeros is zero.
LEMMA SumZero ==
  ASSUME NEW f, NEW S, IsFiniteSet(S), \A x \in S : f[x] = 0
  PROVE  SumFunctionOnSet(f, S) = 0
  <1> DEFINE C == {T \in SUBSET S : SumFunctionOnSet(f, T) # 0}
  <1>1. C \in SUBSET (SUBSET S)
    OBVIOUS
  <1>2. ASSUME C # {} PROVE FALSE
    <2>1. PICK m \in C : \A s \in C : s \subseteq m => s = m
      <3> HIDE DEF C
      <3> QED  BY <1>1, <1>2, MinimalSubset
    <2>2. m \in SUBSET S /\ SumFunctionOnSet(f, m) # 0
      OBVIOUS
    <2>3. m # {}
      BY <2>2, SumEmpty
    <2>4. PICK a \in m : TRUE
      BY <2>3
    <2> DEFINE r == m \ {a}
    <2>5. r \in SUBSET S /\ r \subseteq m /\ r # m
      BY <2>2, <2>4
    <2>6. SumFunctionOnSet(f, r) = 0
      <3>1. r \notin C
        BY <2>1, <2>5
      <3> HIDE DEF r
      <3> QED  BY <2>5, <3>1
    <2>7. IsFiniteSet(m) /\ (\A x \in m : f[x] \in Int) /\ f[a] = 0
      BY <2>2, <2>4, FS_Subset
    <2>8. SumFunctionOnSet(f, m) = f[a] + SumFunctionOnSet(f, r)
      BY <2>4, <2>7, SumRemove
    <2> HIDE DEF r, C
    <2> QED  BY <2>2, <2>6, <2>7, <2>8
  <1>3. S \in SUBSET S
    OBVIOUS
  <1> QED  BY <1>2, <1>3

\* What x adds to a sum over S.
Part(x, S, v) == IF x \in S THEN v ELSE 0
=============================================================================
