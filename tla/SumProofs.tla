------------------------------ MODULE SumProofs ------------------------------
(***************************************************************************)
(* Lemmas about SumFunctionOnSet, the sum of a function over a finite set, *)
(* on which the theorems about amounts rest.  The fold it is defined by    *)
(* unfolds in an order nobody knows; its recursion is shown to be well     *)
(* founded by way of a smallest subset for which a statement fails.        *)
(***************************************************************************)
EXTENDS Functions, FiniteSetTheorems, TLAPS

\* What holds of a subset whenever it holds of all its own subsets holds of the set.
LEMMA SubsetInduction ==
    ASSUME NEW S, IsFiniteSet(S), NEW Good,
           \A U \in SUBSET S :
                (\A V \in SUBSET U : V # U => V \in Good) => U \in Good
    PROVE  S \in Good
  <1> SUFFICES ASSUME S \notin Good
               PROVE  FALSE
    OBVIOUS
  <1> DEFINE Bad == (SUBSET S) \ Good
  <1>1. PICK U \in Bad : \A V \in Bad : ~(<<V, U>> \in StrictSubsetOrdering(S))
    <2>1. Bad \subseteq FiniteSubsetsOf(S) /\ Bad # {}
      BY FS_FiniteSubsetsOfFinite
    <2> HIDE DEF Bad
    <2> QED
      BY <2>1, WFMin, FS_StrictSubsetOrderingWellFounded
  <1>2. \A V \in SUBSET U : V # U => V \in Good
    <2>1. \A V \in SUBSET U : V # U => <<V, U>> \in StrictSubsetOrdering(S)
      BY DEF StrictSubsetOrdering
    <2>2. SUFFICES ASSUME NEW V \in SUBSET U, V # U, V \notin Good
                   PROVE  FALSE
      OBVIOUS
    <2>3. V \in Bad
      BY <1>1, <2>2
    <2> HIDE DEF Bad
    <2> QED
      BY <1>1, <2>1, <2>2, <2>3
  <1> QED
    BY <1>1, <1>2

\* The element at which the fold unfolds a set, and the fold as a function of subsets.
Some(s) == CHOOSE x \in s : TRUE

Unfolds(g, f, S) ==
    g = [s \in SUBSET S |-> IF s = {} THEN 0 ELSE f[Some(s)] + g[s \ {Some(s)}]]

Partial(f, S) == (CHOOSE g : Unfolds(g, f, S))[S]

\* It is one of them.
LEMMA SomeIn == \A s : s # {} => Some(s) \in s
  BY DEF Some

\* The recursion at one subset.
LEMMA UnfoldsAt ==
    ASSUME NEW f, NEW S, NEW g, Unfolds(g, f, S), NEW s \in SUBSET S
    PROVE  g[s] = IF s = {} THEN 0 ELSE f[Some(s)] + g[s \ {Some(s)}]
  BY DEF Unfolds

\* The sum of a set does not depend on the set whose fold computes it.
LEMMA UnfoldsAlike ==
    ASSUME NEW f, NEW S, NEW T, NEW g, NEW h,
           Unfolds(g, f, S), Unfolds(h, f, T),
           NEW s \in SUBSET S, s \in SUBSET T, IsFiniteSet(s)
    PROVE  g[s] = h[s]
  <1> DEFINE Good == {u \in SUBSET s : g[u] = h[u]}
  <1>1. ASSUME NEW u \in SUBSET s,
               \A v \in SUBSET u : v # u => v \in Good
        PROVE  u \in Good
    <2>1. u \in SUBSET S /\ u \in SUBSET T
      OBVIOUS
    <2>2. CASE u = {}
      <3>1. g[u] = 0
        BY <2>1, <2>2, UnfoldsAt
      <3>2. h[u] = 0
        BY <2>1, <2>2, UnfoldsAt
      <3> QED
        BY <3>1, <3>2
    <2>3. CASE u # {}
      <3>1. g[u \ {Some(u)}] = h[u \ {Some(u)}]
        BY <1>1, <2>3, SomeIn
      <3>2. g[u] = f[Some(u)] + g[u \ {Some(u)}]
        BY <2>1, <2>3, UnfoldsAt
      <3>3. h[u] = f[Some(u)] + h[u \ {Some(u)}]
        BY <2>1, <2>3, UnfoldsAt
      <3> QED
        BY <3>1, <3>2, <3>3
    <2> QED
      BY <2>2, <2>3
  <1>2. s \in Good
    <2> HIDE DEF Good
    <2> QED
      BY <1>1, SubsetInduction
  <1> QED
    BY <1>2

\* The recursion of the fold has a solution.
LEMMA Unfolding ==
    ASSUME NEW f, NEW S, IsFiniteSet(S)
    PROVE  Unfolds(CHOOSE g : Unfolds(g, f, S), f, S)
  <1> DEFINE Good == {u \in SUBSET S : \E g : Unfolds(g, f, u)}
  <1>1. ASSUME NEW u \in SUBSET S,
               \A v \in SUBSET u : v # u => v \in Good
        PROVE  u \in Good
    <2> DEFINE h == [s \in SUBSET u |->
                       IF s = {} THEN 0 ELSE f[Some(s)] + Partial(f, s \ {Some(s)})]
    <2>1. ASSUME NEW t \in SUBSET u, t # u
          PROVE  h[t] = Partial(f, t)
      <3>1. Unfolds(CHOOSE g : Unfolds(g, f, t), f, t)
        BY <1>1, <2>1
      <3>2. CASE t = {}
        BY <3>1, <3>2, UnfoldsAt DEF Partial
      <3>3. CASE t # {}
        <4> DEFINE v == t \ {Some(t)}
        <4>1. v \in SUBSET u /\ v # u /\ v \in SUBSET t /\ IsFiniteSet(v)
          BY <2>1, <3>3, SomeIn, FS_Subset
        <4>2. Unfolds(CHOOSE g : Unfolds(g, f, v), f, v)
          BY <1>1, <4>1
        <4>3. (CHOOSE g : Unfolds(g, f, t))[v] = Partial(f, v)
          BY <3>1, <4>1, <4>2, UnfoldsAlike DEF Partial
        <4>4. Partial(f, t) = f[Some(t)] + Partial(f, v)
          BY <3>1, <3>3, <4>3, UnfoldsAt DEF Partial
        <4> QED
          BY <3>3, <4>4
      <3> QED
        BY <3>2, <3>3
    <2>2. ASSUME NEW s \in SUBSET u, s # {}
          PROVE  h[s \ {Some(s)}] = Partial(f, s \ {Some(s)})
      <3>1. s \ {Some(s)} \in SUBSET u /\ s \ {Some(s)} # u
        BY <2>2, SomeIn
      <3> HIDE DEF h
      <3> QED
        BY <2>1, <3>1
    <2>3. Unfolds(h, f, u)
      BY <2>2 DEF Unfolds
    <2> HIDE DEF h
    <2> QED
      BY <2>3
  <1>2. S \in Good
    <2> HIDE DEF Good
    <2> QED
      BY <1>1, SubsetInduction
  <1> QED
    BY <1>2

\* SumFunctionOnSet is that fold.
LEMMA SumIs ==
    ASSUME NEW f, NEW S
    PROVE  SumFunctionOnSet(f, S) = Partial(f, S)
  BY DEF SumFunctionOnSet, FoldFunctionOnSet, MapThenFoldSet, Partial, Unfolds, Some

\* One step of a sum.
LEMMA SumUnfolds ==
    ASSUME NEW f, NEW S, IsFiniteSet(S)
    PROVE  SumFunctionOnSet(f, S) =
             IF S = {} THEN 0
             ELSE f[Some(S)] + SumFunctionOnSet(f, S \ {Some(S)})
  <1>1. Unfolds(CHOOSE g : Unfolds(g, f, S), f, S)
    BY Unfolding
  <1>2. CASE S = {}
    BY <1>1, <1>2, UnfoldsAt, SumIs DEF Partial
  <1>3. CASE S # {}
    <2> DEFINE v == S \ {Some(S)}
    <2>1. v \in SUBSET S /\ IsFiniteSet(v)
      BY FS_Subset
    <2>2. Unfolds(CHOOSE g : Unfolds(g, f, v), f, v)
      BY <2>1, Unfolding
    <2>3. (CHOOSE g : Unfolds(g, f, S))[v] = Partial(f, v)
      BY <1>1, <2>1, <2>2, UnfoldsAlike DEF Partial
    <2>4. Partial(f, S) = f[Some(S)] + Partial(f, v)
      BY <1>1, <1>3, <2>3, UnfoldsAt DEF Partial
    <2> QED
      BY <1>3, <2>4, SumIs
  <1> QED
    BY <1>2, <1>3

\* What holds of the empty set, and of a set as soon as it holds of one with an
\* element less, holds of every finite set.
LEMMA FiniteInduction ==
    ASSUME NEW S, IsFiniteSet(S), NEW Good, {} \in Good,
           \A U \in SUBSET S : U # {} =>
                \E x \in U : U \ {x} \in Good => U \in Good
    PROVE  S \in Good
  <1>1. ASSUME NEW U \in SUBSET S,
               \A V \in SUBSET U : V # U => V \in Good
        PROVE  U \in Good
    <2>1. CASE U # {}
      <3>1. PICK x \in U : U \ {x} \in Good => U \in Good
        BY <2>1
      <3>2. U \ {x} \in SUBSET U /\ U \ {x} # U
        BY <3>1
      <3> QED
        BY <1>1, <3>1, <3>2
    <2> QED
      BY <2>1
  <1> QED
    BY <1>1, SubsetInduction

\* f has integers on S.
Ints(f, S) == \A x \in S : f[x] \in Int

\* The sum of nothing.
LEMMA SumEmpty == \A f : SumFunctionOnSet(f, {}) = 0
  BY SumUnfolds, FS_EmptySet

\* A sum of integers is an integer.
LEMMA SumType ==
    ASSUME NEW f, NEW S, IsFiniteSet(S), Ints(f, S)
    PROVE  SumFunctionOnSet(f, S) \in Int
  <1> DEFINE Good == {U \in SUBSET S : SumFunctionOnSet(f, U) \in Int}
  <1>1. {} \in Good
    BY SumEmpty
  <1>2. ASSUME NEW U \in SUBSET S, U # {}
        PROVE  U \ {Some(U)} \in Good => U \in Good
    <2>1. IsFiniteSet(U) /\ f[Some(U)] \in Int
      BY <1>2, FS_Subset, SomeIn DEF Ints
    <2> QED
      BY <1>2, <2>1, SumUnfolds
  <1>3. \A U \in SUBSET S : U # {} => \E x \in U : U \ {x} \in Good => U \in Good
    BY <1>2, SomeIn
  <1>4. S \in Good
    <2> HIDE DEF Good
    <2> QED
      BY <1>1, <1>3, FiniteInduction
  <1> QED
    BY <1>4

\* Any element may be taken out of a sum, not only the one the fold unfolds first.
LEMMA SumRemove ==
    ASSUME NEW f, NEW S, IsFiniteSet(S), Ints(f, S), NEW d \in S
    PROVE  SumFunctionOnSet(f, S) = f[d] + SumFunctionOnSet(f, S \ {d})
  <1> DEFINE Good == {U \in SUBSET S :
                \A x \in U : SumFunctionOnSet(f, U) = f[x] + SumFunctionOnSet(f, U \ {x})}
  <1>1. ASSUME NEW U \in SUBSET S,
               \A V \in SUBSET U : V # U => V \in Good
        PROVE  U \in Good
    <2> SUFFICES ASSUME NEW x \in U
                 PROVE  SumFunctionOnSet(f, U) = f[x] + SumFunctionOnSet(f, U \ {x})
      OBVIOUS
    <2> DEFINE c == Some(U)
    <2>1. IsFiniteSet(U) /\ c \in U
      BY FS_Subset, SomeIn
    <2>2. SumFunctionOnSet(f, U) = f[c] + SumFunctionOnSet(f, U \ {c})
      BY <2>1, SumUnfolds
    <2>3. CASE x # c
      <3>1. U \ {c} \in Good /\ U \ {x} \in Good
        BY <1>1, <2>1
      <3>2. x \in U \ {c} /\ c \in U \ {x}
        BY <2>1, <2>3
      <3>3. SumFunctionOnSet(f, U \ {c}) = f[x] + SumFunctionOnSet(f, (U \ {c}) \ {x})
        BY <3>1, <3>2
      <3>4. SumFunctionOnSet(f, U \ {x}) = f[c] + SumFunctionOnSet(f, (U \ {x}) \ {c})
        BY <3>1, <3>2
      <3>5. (U \ {x}) \ {c} = (U \ {c}) \ {x} /\ IsFiniteSet((U \ {c}) \ {x})
        BY <2>1, FS_Subset
      <3>6. /\ f[c] \in Int /\ f[x] \in Int
            /\ SumFunctionOnSet(f, (U \ {c}) \ {x}) \in Int
        BY <2>1, <3>5, SumType DEF Ints
      <3>7. SumFunctionOnSet(f, U \ {x})
              = f[c] + SumFunctionOnSet(f, (U \ {c}) \ {x})
        BY <3>4, <3>5
      <3> HIDE DEF c
      <3> QED
        BY <2>2, <3>3, <3>6, <3>7
    <2> QED
      BY <2>2, <2>3
  <1>2. S \in Good
    <2> HIDE DEF Good
    <2> QED
      BY <1>1, SubsetInduction
  <1> QED
    BY <1>2

\* Only the values on the set count.
LEMMA SumAlike ==
    ASSUME NEW f, NEW g, NEW S, IsFiniteSet(S), \A x \in S : f[x] = g[x]
    PROVE  SumFunctionOnSet(f, S) = SumFunctionOnSet(g, S)
  <1> DEFINE Good == {U \in SUBSET S : SumFunctionOnSet(f, U) = SumFunctionOnSet(g, U)}
  <1>1. {} \in Good
    BY SumEmpty
  <1>2. ASSUME NEW U \in SUBSET S, U # {}
        PROVE  U \ {Some(U)} \in Good => U \in Good
    <2>1. IsFiniteSet(U) /\ f[Some(U)] = g[Some(U)]
      BY <1>2, FS_Subset, SomeIn
    <2> QED
      BY <1>2, <2>1, SumUnfolds
  <1>3. \A U \in SUBSET S : U # {} => \E x \in U : U \ {x} \in Good => U \in Good
    BY <1>2, SomeIn
  <1>4. S \in Good
    <2> HIDE DEF Good
    <2> QED
      BY <1>1, <1>3, FiniteInduction
  <1> QED
    BY <1>4

\* Sums compare as their terms do.
LEMMA SumAtMost ==
    ASSUME NEW f, NEW g, NEW S, IsFiniteSet(S), Ints(f, S), Ints(g, S),
           \A x \in S : f[x] <= g[x]
    PROVE  SumFunctionOnSet(f, S) <= SumFunctionOnSet(g, S)
  <1> DEFINE Good == {U \in SUBSET S : SumFunctionOnSet(f, U) <= SumFunctionOnSet(g, U)}
  <1>1. {} \in Good
    BY SumEmpty
  <1>2. ASSUME NEW U \in SUBSET S, U # {}
        PROVE  U \ {Some(U)} \in Good => U \in Good
    <2> DEFINE x == Some(U)
               V == U \ {x}
    <2>1. IsFiniteSet(U) /\ IsFiniteSet(V) /\ x \in S /\ f[x] <= g[x]
      BY <1>2, FS_Subset, SomeIn
    <2>2. /\ f[x] \in Int /\ g[x] \in Int
          /\ SumFunctionOnSet(f, V) \in Int /\ SumFunctionOnSet(g, V) \in Int
      BY <2>1, SumType DEF Ints
    <2>3. /\ SumFunctionOnSet(f, U) = f[x] + SumFunctionOnSet(f, V)
          /\ SumFunctionOnSet(g, U) = g[x] + SumFunctionOnSet(g, V)
      BY <1>2, <2>1, SumUnfolds
    <2> QED
      BY <2>1, <2>2, <2>3
  <1>3. \A U \in SUBSET S : U # {} => \E x \in U : U \ {x} \in Good => U \in Good
    BY <1>2, SomeIn
  <1>4. S \in Good
    <2> HIDE DEF Good
    <2> QED
      BY <1>1, <1>3, FiniteInduction
  <1> QED
    BY <1>4

\* The sum of a sum of two functions.
LEMMA SumPlus ==
    ASSUME NEW f, NEW g, NEW h, NEW S, IsFiniteSet(S), Ints(f, S), Ints(g, S),
           \A x \in S : h[x] = f[x] + g[x]
    PROVE  SumFunctionOnSet(h, S) = SumFunctionOnSet(f, S) + SumFunctionOnSet(g, S)
  <1> DEFINE Good == {U \in SUBSET S :
                SumFunctionOnSet(h, U) = SumFunctionOnSet(f, U) + SumFunctionOnSet(g, U)}
  <1>1. {} \in Good
    BY SumEmpty
  <1>2. ASSUME NEW U \in SUBSET S, U # {}
        PROVE  U \ {Some(U)} \in Good => U \in Good
    <2> DEFINE x == Some(U)
               V == U \ {x}
    <2>1. IsFiniteSet(U) /\ IsFiniteSet(V) /\ x \in S /\ h[x] = f[x] + g[x]
      BY <1>2, FS_Subset, SomeIn
    <2>2. /\ f[x] \in Int /\ g[x] \in Int
          /\ SumFunctionOnSet(f, V) \in Int /\ SumFunctionOnSet(g, V) \in Int
      BY <2>1, SumType DEF Ints
    <2>3. /\ SumFunctionOnSet(f, U) = f[x] + SumFunctionOnSet(f, V)
          /\ SumFunctionOnSet(g, U) = g[x] + SumFunctionOnSet(g, V)
          /\ SumFunctionOnSet(h, U) = h[x] + SumFunctionOnSet(h, V)
      BY <1>2, <2>1, SumUnfolds
    <2> QED
      BY <2>1, <2>2, <2>3
  <1>3. \A U \in SUBSET S : U # {} => \E x \in U : U \ {x} \in Good => U \in Good
    BY <1>2, SomeIn
  <1>4. S \in Good
    <2> HIDE DEF Good
    <2> QED
      BY <1>1, <1>3, FiniteInduction
  <1> QED
    BY <1>4

\* The sum of a multiple of a function.
LEMMA SumTimes ==
    ASSUME NEW f, NEW h, NEW S, NEW c \in Int, IsFiniteSet(S), Ints(f, S),
           \A x \in S : h[x] = c * f[x]
    PROVE  SumFunctionOnSet(h, S) = c * SumFunctionOnSet(f, S)
  <1> DEFINE Good == {U \in SUBSET S :
                SumFunctionOnSet(h, U) = c * SumFunctionOnSet(f, U)}
  <1>1. {} \in Good
    BY SumEmpty
  <1>2. ASSUME NEW U \in SUBSET S, U # {}
        PROVE  U \ {Some(U)} \in Good => U \in Good
    <2> DEFINE x == Some(U)
               V == U \ {x}
    <2>1. IsFiniteSet(U) /\ IsFiniteSet(V) /\ x \in S /\ h[x] = c * f[x]
      BY <1>2, FS_Subset, SomeIn
    <2>2. f[x] \in Int /\ SumFunctionOnSet(f, V) \in Int
      BY <2>1, SumType DEF Ints
    <2>3. /\ SumFunctionOnSet(f, U) = f[x] + SumFunctionOnSet(f, V)
          /\ SumFunctionOnSet(h, U) = h[x] + SumFunctionOnSet(h, V)
      BY <1>2, <2>1, SumUnfolds
    <2>4. \A m, n \in Int : c * (m + n) = c * m + c * n
      OBVIOUS
    <2> QED
      BY <2>1, <2>2, <2>3, <2>4
  <1>3. \A U \in SUBSET S : U # {} => \E x \in U : U \ {x} \in Good => U \in Good
    BY <1>2, SomeIn
  <1>4. S \in Good
    <2> HIDE DEF Good
    <2> QED
      BY <1>1, <1>3, FiniteInduction
  <1> QED
    BY <1>4

\* The sum of equal terms.
LEMMA SumConstant ==
    ASSUME NEW f, NEW S, NEW c \in Int, IsFiniteSet(S), \A x \in S : f[x] = c
    PROVE  SumFunctionOnSet(f, S) = c * Cardinality(S)
  <1> DEFINE Good == {U \in SUBSET S : SumFunctionOnSet(f, U) = c * Cardinality(U)}
  <1>1. {} \in Good
    BY SumEmpty, FS_EmptySet
  <1>2. ASSUME NEW U \in SUBSET S, U # {}
        PROVE  U \ {Some(U)} \in Good => U \in Good
    <2> DEFINE x == Some(U)
               V == U \ {x}
    <2>1. IsFiniteSet(U) /\ IsFiniteSet(V) /\ x \in U /\ f[x] = c
      BY <1>2, FS_Subset, SomeIn
    <2>2. /\ Cardinality(U) \in Nat /\ Cardinality(V) \in Nat
          /\ Cardinality(V) = Cardinality(U) - 1
      BY <2>1, FS_CardinalityType, FS_RemoveElement
    <2>3. SumFunctionOnSet(f, U) = f[x] + SumFunctionOnSet(f, V)
      BY <1>2, <2>1, SumUnfolds
    <2>4. \A n \in Int : c + c * (n - 1) = c * n
      OBVIOUS
    <2> QED
      BY <2>1, <2>2, <2>3, <2>4
  <1>3. \A U \in SUBSET S : U # {} => \E x \in U : U \ {x} \in Good => U \in Good
    BY <1>2, SomeIn
  <1>4. S \in Good
    <2> HIDE DEF Good
    <2> QED
      BY <1>1, <1>3, FiniteInduction
  <1> QED
    BY <1>4

\* The sum with one term other than zero.
LEMMA SumSingle ==
    ASSUME NEW f, NEW S, NEW d \in S, NEW c \in Int, IsFiniteSet(S),
           \A x \in S : f[x] = IF x = d THEN c ELSE 0
    PROVE  SumFunctionOnSet(f, S) = c
  <1>1. SumFunctionOnSet(f, S) = f[d] + SumFunctionOnSet(f, S \ {d})
    BY SumRemove DEF Ints
  <1>2. SumFunctionOnSet(f, S \ {d}) = 0 * Cardinality(S \ {d})
    <2>1. IsFiniteSet(S \ {d}) /\ \A x \in S \ {d} : f[x] = 0
      BY FS_Subset
    <2> QED
      BY <2>1, SumConstant
  <1>3. Cardinality(S \ {d}) \in Nat
    BY FS_Subset, FS_CardinalityType
  <1> QED
    BY <1>1, <1>2, <1>3

\* k is the matrix m with rows and columns exchanged; f has the sums of the rows of m.
Transposed(m, k, S, T) == \A x \in S : \A y \in T : m[x][y] \in Int /\ k[y][x] = m[x][y]
RowSums(f, m, S, T) == \A x \in S : f[x] = SumFunctionOnSet(m[x], T)

\* Rows first or columns first: a double sum is the same.
LEMMA SumExchange ==
    ASSUME NEW m, NEW k, NEW f, NEW g, NEW S, NEW T, IsFiniteSet(S), IsFiniteSet(T),
           Transposed(m, k, S, T), RowSums(f, m, S, T), RowSums(g, k, T, S)
    PROVE  SumFunctionOnSet(f, S) = SumFunctionOnSet(g, T)
  <1> USE DEF Transposed, RowSums
  <1> DEFINE column(U, y) == SumFunctionOnSet([x \in S |-> m[x][y]], U)
             Good == {U \in SUBSET S :
                SumFunctionOnSet(f, U) = SumFunctionOnSet([y \in T |-> column(U, y)], T)}
  <1>1. {} \in Good
    <2>1. \A y \in T : column({}, y) = 0
      BY SumEmpty
    <2>2. SumFunctionOnSet([y \in T |-> column({}, y)], T) = 0 * Cardinality(T)
      <3>1. \A y \in T : [z \in T |-> column({}, z)][y] = 0
        BY <2>1
      <3> HIDE DEF column
      <3> QED
        BY <3>1, SumConstant
    <2>3. Cardinality(T) \in Nat
      BY FS_CardinalityType
    <2> QED
      BY <2>2, <2>3, SumEmpty
  <1>2. ASSUME NEW U \in SUBSET S, U # {}
        PROVE  U \ {Some(U)} \in Good => U \in Good
    <2> DEFINE x == Some(U)
               V == U \ {x}
               row == [y \in T |-> m[x][y]]
               above == [y \in T |-> column(V, y)]
               all == [y \in T |-> column(U, y)]
    <2>1. IsFiniteSet(U) /\ IsFiniteSet(V) /\ x \in S /\ x \in U
      BY <1>2, FS_Subset, SomeIn
    <2>2. SumFunctionOnSet(f, U) = SumFunctionOnSet(m[x], T) + SumFunctionOnSet(f, V)
      BY <1>2, <2>1, SumUnfolds
    <2>3. SumFunctionOnSet(m[x], T) = SumFunctionOnSet(row, T)
      BY SumAlike
    <2>4. ASSUME NEW y \in T
          PROVE  column(U, y) = m[x][y] + column(V, y) /\ column(V, y) \in Int
      <3> DEFINE line == [z \in S |-> m[z][y]]
      <3>1. Ints(line, S) /\ Ints(line, V)
        BY <2>1 DEF Ints
      <3>2. line[x] = m[x][y]
        BY <2>1
      <3> HIDE DEF line
      <3>3. SumFunctionOnSet(line, U) = line[x] + SumFunctionOnSet(line, V)
        BY <1>2, <2>1, SumUnfolds
      <3>4. SumFunctionOnSet(line, V) \in Int
        BY <2>1, <3>1, SumType
      <3> QED
        BY <3>2, <3>3, <3>4 DEF line
    <2>5. Ints(row, T) /\ Ints(above, T)
      BY <2>1, <2>4 DEF Ints
    <2>6. \A y \in T : all[y] = row[y] + above[y]
      BY <2>4
    <2>7. SumFunctionOnSet(all, T) = SumFunctionOnSet(row, T) + SumFunctionOnSet(above, T)
      <3> HIDE DEF all, row, above
      <3> QED
        BY <2>5, <2>6, SumPlus
    <2>8. ASSUME V \in Good
          PROVE  SumFunctionOnSet(f, V) = SumFunctionOnSet(above, T)
      BY <2>8
    <2>9. SumFunctionOnSet(f, V) = SumFunctionOnSet(above, T)
            => SumFunctionOnSet(f, U) = SumFunctionOnSet(all, T)
      <3>1. SumFunctionOnSet(row, T) \in Int /\ SumFunctionOnSet(above, T) \in Int
        BY <2>5, SumType
      <3> HIDE DEF all, row, above, V, x
      <3> QED
        BY <2>2, <2>3, <2>7, <3>1
    <2>10. SumFunctionOnSet(f, U) = SumFunctionOnSet(all, T) => U \in Good
      OBVIOUS
    <2> QED
      BY <2>8, <2>9, <2>10
  <1>3. \A U \in SUBSET S : U # {} => \E x \in U : U \ {x} \in Good => U \in Good
    BY <1>2, SomeIn
  <1>4. S \in Good
    <2> HIDE DEF Good
    <2> QED
      BY <1>1, <1>3, FiniteInduction
  <1>5. SumFunctionOnSet(f, S) = SumFunctionOnSet([y \in T |-> column(S, y)], T)
    BY <1>4
  <1>6. SumFunctionOnSet([y \in T |-> column(S, y)], T) = SumFunctionOnSet(g, T)
    <2>1. ASSUME NEW y \in T
          PROVE  column(S, y) = g[y]
      <3> DEFINE line == [x \in S |-> m[x][y]]
      <3>1. \A x \in S : line[x] = k[y][x]
        OBVIOUS
      <3> HIDE DEF line
      <3>2. SumFunctionOnSet(line, S) = SumFunctionOnSet(k[y], S)
        BY <3>1, SumAlike
      <3> QED
        BY <3>2 DEF line
    <2>2. \A y \in T : [z \in T |-> column(S, z)][y] = g[y]
      BY <2>1
    <2> HIDE DEF column
    <2> QED
      BY <2>2, SumAlike
  <1> QED
    BY <1>5, <1>6

\* A sum of terms that are not negative is not negative, nor less than any of them.
LEMMA SumNat ==
    ASSUME NEW f, NEW S, IsFiniteSet(S), \A x \in S : f[x] \in Nat
    PROVE  /\ SumFunctionOnSet(f, S) \in Nat
           /\ \A x \in S : f[x] <= SumFunctionOnSet(f, S)
  <1>1. ASSUME NEW T \in SUBSET S
        PROVE  SumFunctionOnSet(f, T) \in Nat
    <2> DEFINE zero == [x \in T |-> 0]
    <2>1. IsFiniteSet(T) /\ Cardinality(T) \in Nat
      BY FS_Subset, FS_CardinalityType
    <2>2. Ints(f, T) /\ Ints(zero, T) /\ \A x \in T : zero[x] <= f[x] /\ zero[x] = 0
      BY DEF Ints
    <2> HIDE DEF zero
    <2>3. SumFunctionOnSet(zero, T) = 0 * Cardinality(T)
      BY <2>1, <2>2, SumConstant
    <2>4. SumFunctionOnSet(f, T) \in Int /\ SumFunctionOnSet(zero, T) <= SumFunctionOnSet(f, T)
      BY <2>1, <2>2, SumType, SumAtMost
    <2> QED
      BY <2>1, <2>3, <2>4
  <1>2. ASSUME NEW x \in S
        PROVE  f[x] <= SumFunctionOnSet(f, S)
    <2>1. SumFunctionOnSet(f, S) = f[x] + SumFunctionOnSet(f, S \ {x})
      BY SumRemove DEF Ints
    <2>2. SumFunctionOnSet(f, S \ {x}) \in Nat
      BY <1>1
    <2> QED
      BY <2>1, <2>2
  <1> QED
    BY <1>1, <1>2

\* A sum of ones counts the members of a subset.
LEMMA SumMembers ==
    ASSUME NEW f, NEW S, NEW C \in SUBSET S, IsFiniteSet(S),
           \A x \in S : f[x] = IF x \in C THEN 1 ELSE 0
    PROVE  SumFunctionOnSet(f, S) = Cardinality(C)
  <1> DEFINE Good == {U \in SUBSET S : SumFunctionOnSet(f, U) = Cardinality(U \cap C)}
  <1>1. {} \in Good
    BY SumEmpty, FS_EmptySet
  <1>2. ASSUME NEW U \in SUBSET S, U # {}
        PROVE  U \ {Some(U)} \in Good => U \in Good
    <2> DEFINE x == Some(U)
               V == U \ {x}
    <2>1. /\ IsFiniteSet(U) /\ IsFiniteSet(U \cap C) /\ x \in U
          /\ f[x] = IF x \in C THEN 1 ELSE 0
      BY <1>2, FS_Subset, FS_Intersection, SomeIn
    <2>2. V \cap C = (U \cap C) \ {x} /\ (x \in U \cap C <=> x \in C)
      BY <2>1
    <2>3. /\ Cardinality(U \cap C) \in Nat
          /\ Cardinality(V \cap C)
               = IF x \in C THEN Cardinality(U \cap C) - 1 ELSE Cardinality(U \cap C)
      <3> DEFINE W == U \cap C
      <3>1. IsFiniteSet(W) /\ (x \in W <=> x \in C)
        BY <2>1, <2>2
      <3> HIDE DEF W, x
      <3>2. Cardinality(W) \in Nat
        BY <3>1, FS_CardinalityType
      <3>3. Cardinality(W \ {x}) = IF x \in C THEN Cardinality(W) - 1 ELSE Cardinality(W)
        BY <3>1, FS_RemoveElement
      <3> QED
        BY <2>2, <3>2, <3>3 DEF W
    <2>4. SumFunctionOnSet(f, U) = f[x] + SumFunctionOnSet(f, V)
      BY <1>2, <2>1, SumUnfolds
    <2>5. V \in Good => SumFunctionOnSet(f, V) = Cardinality(V \cap C)
      OBVIOUS
    <2>6. SumFunctionOnSet(f, V) = Cardinality(V \cap C)
            => SumFunctionOnSet(f, U) = Cardinality(U \cap C)
      <3> HIDE DEF V, x
      <3> QED
        BY <2>1, <2>3, <2>4
    <2>7. SumFunctionOnSet(f, U) = Cardinality(U \cap C) => U \in Good
      OBVIOUS
    <2> QED
      BY <2>5, <2>6, <2>7
  <1>3. \A U \in SUBSET S : U # {} => \E x \in U : U \ {x} \in Good => U \in Good
    BY <1>2, SomeIn
  <1>4. S \in Good
    <2> HIDE DEF Good
    <2> QED
      BY <1>1, <1>3, FiniteInduction
  <1>5. S \cap C = C
    OBVIOUS
  <1> QED
    BY <1>4, <1>5

\* A set of natural numbers that is not empty has a least one.
LEMMA NatLeast ==
    ASSUME NEW T \in SUBSET Nat, T # {}
    PROVE  \E n \in T : \A m \in T : n <= m
  <1>1. PICK n \in T : \A m \in T : ~(<<m, n>> \in OpToRel(<, Nat))
    BY WFMin, NatLessThanWellFounded
  <1>2. \A m \in T : ~(m < n)
    BY <1>1 DEF OpToRel
  <1> QED
    BY <1>2

\* Each index i has its place at[i], where its amount is found; first[o] is the value
\* at the place o as often as the place occurs.
Placed(at, value, amounts, I, O) == \A i \in I : at[i] \in O /\ value[at[i]] = amounts[i]
Grouped(first, at, value, I, O) ==
    \A o \in O : first[o] = value[o] * Cardinality({i \in I : at[i] = o})

\* A sum may be taken group by group: each value times the number of its occurrences.
LEMMA SumGrouped ==
    ASSUME NEW I, NEW O, NEW at, NEW value, NEW amounts, NEW first,
           IsFiniteSet(I), IsFiniteSet(O), Ints(value, O),
           Placed(at, value, amounts, I, O), Grouped(first, at, value, I, O)
    PROVE  SumFunctionOnSet(first, O) = SumFunctionOnSet(amounts, I)
  <1> USE DEF Placed, Grouped, Ints
  <1> DEFINE m == [o \in O |-> [i \in I |-> IF at[i] = o THEN value[o] ELSE 0]]
             k == [i \in I |-> [o \in O |-> IF at[i] = o THEN value[o] ELSE 0]]
  <1>1. \A o \in O : \A i \in I : m[o][i] = IF at[i] = o THEN value[o] ELSE 0
    OBVIOUS
  <1>2. \A i \in I : \A o \in O : k[i][o] = IF at[i] = o THEN value[o] ELSE 0
    OBVIOUS
  <1> HIDE DEF m, k
  <1>3. \A o \in O : \A i \in I : m[o][i] \in Int /\ k[i][o] = m[o][i]
    BY <1>1, <1>2
  <1>4. ASSUME NEW o \in O
        PROVE  first[o] = SumFunctionOnSet(m[o], I)
    <2> DEFINE same == {i \in I : at[i] = o}
               ones == [i \in I |-> IF i \in same THEN 1 ELSE 0]
               v == value[o]
               row == m[o]
    <2>1. same \in SUBSET I /\ \A i \in I : i \in same <=> at[i] = o
      OBVIOUS
    <2>2. \A i \in I : ones[i] = IF i \in same THEN 1 ELSE 0
      OBVIOUS
    <2>3. \A i \in I : row[i] = IF at[i] = o THEN v ELSE 0
      BY <1>1
    <2>4. v \in Int /\ first[o] = v * Cardinality(same)
      OBVIOUS
    <2> HIDE DEF ones, same, v, row
    <2>5. v * 1 = v /\ v * 0 = 0
      BY <2>4
    <2>6. \A i \in I : row[i] = v * ones[i]
      BY <2>1, <2>2, <2>3, <2>5
    <2>7. Ints(ones, I)
      BY <2>2 DEF Ints
    <2>8. SumFunctionOnSet(ones, I) = Cardinality(same)
      BY <2>1, <2>2, SumMembers
    <2>9. SumFunctionOnSet(row, I) = v * SumFunctionOnSet(ones, I)
      BY <2>4, <2>6, <2>7, SumTimes
    <2> QED
      BY <2>4, <2>8, <2>9 DEF row
  <1>5. ASSUME NEW i \in I
        PROVE  amounts[i] = SumFunctionOnSet(k[i], O)
    <2> DEFINE column == k[i]
               d == at[i]
               c == amounts[i]
    <2>1. d \in O /\ c \in Int /\ value[d] = c
      OBVIOUS
    <2>2. \A o \in O : column[o] = IF o = d THEN c ELSE 0
      BY <1>2, <2>1
    <2> HIDE DEF column, d, c
    <2>3. SumFunctionOnSet(column, O) = c
      BY <2>1, <2>2, SumSingle
    <2> QED
      BY <2>3 DEF column, c
  <1>6. Transposed(m, k, O, I)
    BY <1>3 DEF Transposed
  <1>7. RowSums(first, m, O, I)
    BY <1>4 DEF RowSums
  <1>8. RowSums(amounts, k, I, O)
    BY <1>5 DEF RowSums
  <1> QED
    BY <1>6, <1>7, <1>8, SumExchange
==============================================================================
