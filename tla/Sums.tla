------------------------------- MODULE Sums --------------------------------
EXTENDS Integers, FiniteSets, FiniteSetsExt, FiniteSetTheorems, WellFoundedInduction, TLAPS

Chosen(s) == CHOOSE x \in s : TRUE

\* g[s] is the sum of f over s, for every subset s of S.
Adds(g, f, S) ==
  g = [s \in SUBSET S |-> IF s = {} THEN 0 ELSE f[Chosen(s)] + g[s \ {Chosen(s)}]]

AddsAnyhow(g, f, S) ==
  /\ g \in [SUBSET S -> Int] /\ g[{}] = 0
  /\ \A s \in SUBSET S : \A x \in s : g[s] = f[x] + g[s \ {x}]

\* Of any subsets of a finite set there is one with no smaller one among them: what
\* stands here for induction over finite sets.
LEMMA SmallestSubset ==
  ASSUME NEW S, IsFiniteSet(S), NEW B \in SUBSET (SUBSET S), B # {}
  PROVE  \E T \in B : \A U \in SUBSET T : U # T => U \notin B
<1>1. PICK T \in B : \A U \in B : ~(<<U, T>> \in StrictSubsetOrdering(S))
  <2>1. IsWellFoundedOn(StrictSubsetOrdering(S), SUBSET S)
    BY FS_StrictSubsetOrderingWellFounded, FS_FiniteSubsetsOfFinite
  <2> QED BY <2>1, WFMin
<1> QED BY <1>1 DEF StrictSubsetOrdering

\* There is a function that adds up f over the subsets, in whatever order.
LEMMA SumExists ==
  ASSUME NEW S, IsFiniteSet(S), NEW f \in [S -> Int]
  PROVE  \E g : AddsAnyhow(g, f, S)
<1> DEFINE Bad == {T \in SUBSET S : ~\E g : AddsAnyhow(g, f, T)}
<1>1. SUFFICES ASSUME Bad # {} PROVE FALSE
  OBVIOUS
<1>2. PICK T \in Bad : \A U \in SUBSET T : U # T => U \notin Bad
  <2>1. Bad \in SUBSET (SUBSET S) OBVIOUS
  <2> HIDE DEF Bad
  <2> QED BY <1>1, <2>1, SmallestSubset
<1>3. CASE T = {}
  <2> DEFINE g == [s \in SUBSET T |-> 0]
  <2>1. AddsAnyhow(g, f, T) BY <1>3 DEF AddsAnyhow
  <2> QED BY <1>2, <2>1
<1>4. CASE T # {}
  <2>1. PICK c \in T : TRUE BY <1>4
  <2> DEFINE U == T \ {c}
  <2>2. PICK h : AddsAnyhow(h, f, U) BY <1>2, <2>1
  <2> DEFINE g == [s \in SUBSET T |-> IF c \in s THEN f[c] + h[s \ {c}] ELSE h[s]]
  <2>3. g \in [SUBSET T -> Int] /\ g[{}] = 0
    BY <2>2 DEF AddsAnyhow
  <2>4. ASSUME NEW s \in SUBSET T, NEW x \in s PROVE g[s] = f[x] + g[s \ {x}]
    <3>1. CASE c \notin s
      BY <2>2, <3>1 DEF AddsAnyhow
    <3>2. CASE x = c
      BY <2>2, <3>2 DEF AddsAnyhow
    <3>3. CASE c \in s /\ x # c
      <4>1. h[s \ {c}] = f[x] + h[(s \ {c}) \ {x}] /\ (s \ {c}) \ {x} = (s \ {x}) \ {c}
        BY <2>2, <3>3 DEF AddsAnyhow
      <4>2. h[(s \ {x}) \ {c}] \in Int /\ f[x] \in Int /\ f[c] \in Int
        BY <2>2 DEF AddsAnyhow
      <4>3. g[s] = f[c] + h[s \ {c}] BY <3>3
      <4>4. g[s \ {x}] = f[c] + h[(s \ {x}) \ {c}] BY <3>3
      <4> HIDE DEF g
      <4>5. h[s \ {c}] = f[x] + h[(s \ {x}) \ {c}] BY <4>1
      <4>6. \A i, j, k \in Int : i + (j + k) = j + (i + k) OBVIOUS
      <4>7. g[s] = f[c] + (f[x] + h[(s \ {x}) \ {c}]) BY <4>3, <4>5
      <4>8. g[s] = f[x] + (f[c] + h[(s \ {x}) \ {c}]) BY <4>2, <4>6, <4>7
      <4> QED BY <4>4, <4>8
    <3> QED BY <3>1, <3>2, <3>3
  <2> HIDE DEF g
  <2>5. AddsAnyhow(g, f, T) BY <2>3, <2>4 DEF AddsAnyhow
  <2> QED BY <1>2, <2>5
<1> QED BY <1>3, <1>4

\* The order that the operator chooses determines the sum.
LEMMA SumUnique ==
  ASSUME NEW S, IsFiniteSet(S), NEW f, NEW g, Adds(g, f, S), NEW h, Adds(h, f, S)
  PROVE  g = h
<1> DEFINE Bad == {T \in SUBSET S : g[T] # h[T]}
<1>1. SUFFICES ASSUME Bad # {} PROVE FALSE
  BY DEF Adds
<1>2. PICK T \in Bad : \A U \in SUBSET T : U # T => U \notin Bad
  <2>1. Bad \in SUBSET (SUBSET S) OBVIOUS
  <2> HIDE DEF Bad
  <2> QED BY <1>1, <2>1, SmallestSubset
<1>3. T # {} BY DEF Adds
<1>4. Chosen(T) \in T BY <1>3 DEF Chosen
<1>5. g[T \ {Chosen(T)}] = h[T \ {Chosen(T)}] BY <1>2, <1>4
<1> QED BY <1>2, <1>3, <1>5 DEF Adds

\* So the sum in the order chosen is the sum in any order.
LEMMA SumAnyhow ==
  ASSUME NEW S, IsFiniteSet(S), NEW f \in [S -> Int]
  PROVE  /\ \E g : Adds(g, f, S)
         /\ \A g : Adds(g, f, S) => AddsAnyhow(g, f, S)
<1>1. PICK h : AddsAnyhow(h, f, S) BY SumExists
<1>2. Adds(h, f, S)
  <2>1. \A s \in SUBSET S : s # {} => Chosen(s) \in s BY DEF Chosen
  <2>2. \A s \in SUBSET S : h[s] = IF s = {} THEN 0 ELSE f[Chosen(s)] + h[s \ {Chosen(s)}]
    BY <1>1, <2>1 DEF AddsAnyhow
  <2>3. h = [s \in SUBSET S |-> h[s]] BY <1>1 DEF AddsAnyhow
  <2> QED BY <2>2, <2>3, Zenon DEF Adds
<1>3. \A g : Adds(g, f, S) => g = h BY <1>2, SumUnique
<1> QED BY <1>1, <1>2, <1>3

-----------------------------------------------------------------------------
\* The sum of f over S, as the models write it.
SumOver(f, S) == MapThenSumSet(LAMBDA x : f[x], S)

\* The fold that SumOver stands for is such a sum.
LEMMA SumOverIs ==
  ASSUME NEW S, IsFiniteSet(S), NEW f \in [S -> Int]
  PROVE  /\ \A g : Adds(g, f, S) => g[S] = SumOver(f, S)
         /\ \E g : Adds(g, f, S) /\ AddsAnyhow(g, f, S) /\ g[S] = SumOver(f, S)
<1> DEFINE iter[s \in SUBSET S] ==
        IF s = {} THEN 0
        ELSE LET x == CHOOSE x \in s : TRUE
             IN  f[x] + iter[s \ {x}]
<1>1. SumOver(f, S) = iter[S]
  BY DEF SumOver, MapThenSumSet, MapThenFoldSet
<1>2. iter = CHOOSE g : g = [s \in SUBSET S |-> IF s = {} THEN 0 ELSE f[Chosen(s)] + g[s \ {Chosen(s)}]]
  BY DEF Chosen
<1>3. iter = CHOOSE g : Adds(g, f, S)
  BY <1>2 DEF Adds
<1> HIDE DEF iter
<1>4. Adds(iter, f, S) /\ AddsAnyhow(iter, f, S) BY <1>3, SumAnyhow
<1>5. \A g : Adds(g, f, S) => g = iter BY <1>4, SumUnique
<1> QED BY <1>1, <1>4, <1>5

\* Of nothing the sum is zero.
LEMMA SumOverEmpty == ASSUME NEW f PROVE SumOver(f, {}) = 0
<1> DEFINE iter[s \in SUBSET {}] ==
        IF s = {} THEN 0
        ELSE LET x == CHOOSE x \in s : TRUE
             IN  f[x] + iter[s \ {x}]
<1>1. SumOver(f, {}) = iter[{}]
  BY DEF SumOver, MapThenSumSet, MapThenFoldSet
<1>2. iter = CHOOSE g : g = [s \in SUBSET {} |-> IF s = {} THEN 0 ELSE f[Chosen(s)] + g[s \ {Chosen(s)}]]
  BY DEF Chosen
<1>3. iter = CHOOSE g : Adds(g, f, {})
  BY <1>2 DEF Adds
<1> HIDE DEF iter
<1>4. Adds([s \in SUBSET {} |-> 0], f, {}) BY DEF Adds
<1>5. Adds(iter, f, {}) BY <1>3, <1>4
<1> QED BY <1>1, <1>5 DEF Adds

\* Only the values on the set count, and one element may be added at a time.
LEMMA SumOverAgrees ==
  ASSUME NEW S, IsFiniteSet(S), NEW f \in [S -> Int], NEW g, \A x \in S : g[x] = f[x]
  PROVE  SumOver(g, S) = SumOver(f, S)
<1> DEFINE iter[s \in SUBSET S] ==
        IF s = {} THEN 0
        ELSE LET x == CHOOSE x \in s : TRUE
             IN  g[x] + iter[s \ {x}]
<1>1. SumOver(g, S) = iter[S]
  BY DEF SumOver, MapThenSumSet, MapThenFoldSet
<1>2. iter = CHOOSE h : h = [s \in SUBSET S |-> IF s = {} THEN 0 ELSE g[Chosen(s)] + h[s \ {Chosen(s)}]]
  BY DEF Chosen
<1>3. \A h : Adds(h, g, S) <=> Adds(h, f, S)
  <2>1. \A s \in SUBSET S : s # {} => g[Chosen(s)] = f[Chosen(s)] BY DEF Chosen
  <2> QED BY <2>1 DEF Adds
<1>4. iter = CHOOSE h : Adds(h, g, S)
  BY <1>2 DEF Adds
<1> HIDE DEF iter
<1>5. Adds(iter, f, S) BY <1>3, <1>4, SumAnyhow
<1> QED BY <1>1, <1>5, SumOverIs

\* One element may be added at a time, whichever it is.
LEMMA SumOverAdd ==
  ASSUME NEW S, IsFiniteSet(S), NEW f, \A x \in S : f[x] \in Int, NEW c \in S
  PROVE  SumOver(f, S) = f[c] + SumOver(f, S \ {c}) /\ SumOver(f, S \ {c}) \in Int /\ SumOver(f, S) \in Int
<1> DEFINE k == [x \in S |-> f[x]]
           l == [x \in S \ {c} |-> f[x]]
<1>1. k \in [S -> Int] /\ l \in [S \ {c} -> Int] /\ IsFiniteSet(S \ {c})
  BY FS_Subset
<1>2. SumOver(f, S) = SumOver(k, S) /\ SumOver(f, S \ {c}) = SumOver(l, S \ {c})
  BY <1>1, SumOverAgrees
<1>3. PICK g : Adds(g, k, S) /\ AddsAnyhow(g, k, S) /\ g[S] = SumOver(k, S)
  BY <1>1, SumOverIs
<1> DEFINE h == [s \in SUBSET (S \ {c}) |-> g[s]]
<1>4. Adds(h, l, S \ {c})
  <2>1. \A s \in SUBSET (S \ {c}) : s # {} => Chosen(s) \in s BY DEF Chosen
  <2>2. \A s \in SUBSET (S \ {c}) : h[s] = IF s = {} THEN 0 ELSE l[Chosen(s)] + h[s \ {Chosen(s)}]
    BY <1>3, <2>1 DEF Adds
  <2>3. h = [s \in SUBSET (S \ {c}) |-> IF s = {} THEN 0 ELSE l[Chosen(s)] + h[s \ {Chosen(s)}]]
    BY <2>2
  <2> QED BY <2>3 DEF Adds
<1>5. h[S \ {c}] = SumOver(l, S \ {c})
  BY <1>1, <1>4, SumOverIs
<1>6. g[S] = k[c] + g[S \ {c}] /\ g[S \ {c}] \in Int /\ g[S] \in Int
  BY <1>3 DEF AddsAnyhow
<1> QED BY <1>2, <1>3, <1>5, <1>6

\* A sum of integers is one.
LEMMA SumOverType ==
  ASSUME NEW S, IsFiniteSet(S), NEW f, \A x \in S : f[x] \in Int
  PROVE  SumOver(f, S) \in Int
<1>1. CASE S = {} BY <1>1, SumOverEmpty
<1>2. CASE S # {} BY <1>2, SumOverAdd
<1> QED BY <1>1, <1>2

\* A sum of what is not negative does not grow when elements are taken away.
LEMMA SumOverMonotone ==
  ASSUME NEW S, IsFiniteSet(S), NEW f, \A x \in S : f[x] \in Nat, NEW R \in SUBSET S
  PROVE  SumOver(f, R) <= SumOver(f, S) /\ SumOver(f, R) \in Nat
<1> DEFINE Bad == {T \in SUBSET S : ~(\A U \in SUBSET T : SumOver(f, U) <= SumOver(f, T) /\ SumOver(f, U) \in Nat)}
<1>1. SUFFICES ASSUME Bad # {} PROVE FALSE
  OBVIOUS
<1>2. PICK T \in Bad : \A U \in SUBSET T : U # T => U \notin Bad
  <2>1. Bad \in SUBSET (SUBSET S) OBVIOUS
  <2> HIDE DEF Bad
  <2> QED BY <1>1, <2>1, SmallestSubset
<1>3. PICK U \in SUBSET T : ~(SumOver(f, U) <= SumOver(f, T) /\ SumOver(f, U) \in Nat)
  BY <1>2
<1>4. IsFiniteSet(T) /\ \A x \in T : f[x] \in Nat
  BY <1>2, FS_Subset
<1>5. T # {}
  BY <1>3, SumOverEmpty
<1>6. ASSUME NEW c \in T PROVE SumOver(f, T \ {c}) \in Nat /\ SumOver(f, T) = f[c] + SumOver(f, T \ {c})
  <2>1. \A V \in SUBSET (T \ {c}) : SumOver(f, V) <= SumOver(f, T \ {c}) /\ SumOver(f, V) \in Nat
    BY <1>2, <1>6
  <2> QED BY <1>4, <1>6, <2>1, SumOverAdd
<1>7. CASE U = T
  <2>1. PICK c \in T : TRUE BY <1>5
  <2>2. f[c] \in Nat /\ SumOver(f, T \ {c}) \in Nat /\ SumOver(f, T) = f[c] + SumOver(f, T \ {c})
    BY <1>4, <1>6
  <2>3. SumOver(f, T) \in Nat BY <2>2
  <2> QED BY <1>3, <1>7, <2>3
<1>8. CASE U # T
  <2>1. PICK c \in T : c \notin U BY <1>8
  <2>2. SumOver(f, U) <= SumOver(f, T \ {c}) /\ SumOver(f, U) \in Nat
    BY <1>2, <2>1
  <2> QED BY <1>3, <1>4, <1>6, <2>1, <2>2
<1> QED BY <1>7, <1>8

\* b is what f exceeds g by, so far.
Running(N, f, g, b) ==
  /\ b[1] = 0 /\ \A m \in 1..(N + 1) : b[m] \in Int
  /\ \A m \in 1..N : f[m] \in Int /\ g[m] \in Int /\ f[m] = g[m] + b[m + 1] - b[m]

\* What the differences of a running balance come to is the balance.
LEMMA SumOverBalance ==
  ASSUME NEW N \in Nat, NEW f, NEW g, NEW b, Running(N, f, g, b)
  PROVE  SumOver(f, 1..N) = SumOver(g, 1..N) + b[N + 1]
<1> USE DEF Running
<1> DEFINE Bad == {n \in 0..N : ~(SumOver(f, 1..n) = SumOver(g, 1..n) + b[n + 1])}
<1>1. SUFFICES ASSUME Bad # {} PROVE FALSE
  <2>1. N \in 0..N OBVIOUS
  <2> QED BY <2>1
<1>2. PICK n \in Bad : \A k \in Bad : ~(k < n)
  <2>1. Bad \subseteq Nat OBVIOUS
  <2> HIDE DEF Bad
  <2>2. PICK n \in Bad : \A k \in Bad : ~(<<k, n>> \in OpToRel(<, Nat))
    BY <1>1, <2>1, NatLessThanWellFounded, WFMin
  <2> QED BY <2>1, <2>2 DEF OpToRel
<1>3. n \in 0..N OBVIOUS
<1>4. CASE n = 0
  <2>1. 1..0 = {} /\ 0 + 1 = 1 OBVIOUS
  <2> QED BY <1>2, <1>4, <2>1, SumOverEmpty
<1>5. CASE n # 0
  <2>1. n - 1 \in 0..N /\ n - 1 < n /\ (n - 1) + 1 = n /\ n \in 1..N /\ n + 1 \in 1..(N + 1)
    BY <1>3, <1>5
  <2>2. SumOver(f, 1..(n - 1)) = SumOver(g, 1..(n - 1)) + b[n] BY <1>2, <2>1
  <2> DEFINE T == 1..n
  <2>3. IsFiniteSet(T) BY <1>3, FS_Interval
  <2>4. n \in T /\ T \ {n} = 1..(n - 1) /\ T \subseteq 1..N BY <1>3, <2>1
  <2> HIDE DEF T
  <2>5. \A m \in T : f[m] \in Int /\ g[m] \in Int BY <2>4
  <2>6. /\ SumOver(f, T) = f[n] + SumOver(f, T \ {n})
        /\ SumOver(g, T) = g[n] + SumOver(g, T \ {n}) /\ SumOver(g, T \ {n}) \in Int
    BY <2>3, <2>4, <2>5, SumOverAdd
  <2>7. f[n] = g[n] + b[n + 1] - b[n] /\ g[n] \in Int /\ b[n] \in Int /\ b[n + 1] \in Int
    BY <2>1
  <2>8. SumOver(f, T \ {n}) = SumOver(g, T \ {n}) + b[n] BY <2>2, <2>4
  <2>9. SumOver(f, T) = SumOver(g, T) + b[n + 1]
    BY <2>6, <2>7, <2>8
  <2> QED BY <1>2, <2>9 DEF T
<1> QED BY <1>4, <1>5

\* A linear relation between the values is one between the sums.
LEMMA SumOverLinear ==
  ASSUME NEW S, IsFiniteSet(S), NEW f, NEW g, NEW h, NEW n \in Int, NEW k \in Int,
         \A x \in S : f[x] \in Int /\ g[x] \in Int /\ h[x] \in Int,
         \A x \in S : n * f[x] = k * g[x] + h[x]
  PROVE  n * SumOver(f, S) = k * SumOver(g, S) + SumOver(h, S)
<1> DEFINE Bad == {T \in SUBSET S : ~(n * SumOver(f, T) = k * SumOver(g, T) + SumOver(h, T))}
<1>1. SUFFICES ASSUME Bad # {} PROVE FALSE
  OBVIOUS
<1>2. PICK T \in Bad : \A U \in SUBSET T : U # T => U \notin Bad
  <2>1. Bad \in SUBSET (SUBSET S) OBVIOUS
  <2> HIDE DEF Bad
  <2> QED BY <1>1, <2>1, SmallestSubset
<1>3. T # {}
  <2>1. n * 0 = k * 0 + 0 OBVIOUS
  <2> QED BY <1>2, <2>1, SumOverEmpty
<1>4. PICK c \in T : TRUE BY <1>3
<1> DEFINE U == T \ {c}
<1>5. IsFiniteSet(T) BY <1>2, FS_Subset
<1>6. n * SumOver(f, U) = k * SumOver(g, U) + SumOver(h, U) BY <1>2, <1>4
<1>7. /\ SumOver(f, T) = f[c] + SumOver(f, U) /\ SumOver(f, U) \in Int
      /\ SumOver(g, T) = g[c] + SumOver(g, U) /\ SumOver(g, U) \in Int
      /\ SumOver(h, T) = h[c] + SumOver(h, U) /\ SumOver(h, U) \in Int
  BY <1>2, <1>4, <1>5, SumOverAdd
<1>8. n * (f[c] + SumOver(f, U)) = k * (g[c] + SumOver(g, U)) + (h[c] + SumOver(h, U))
  <2>1. f[c] \in Int /\ g[c] \in Int /\ h[c] \in Int /\ n * f[c] = k * g[c] + h[c]
    BY <1>2, <1>4
  <2>2. ASSUME NEW i \in Int, NEW j \in Int, NEW v \in Int PROVE v * (i + j) = v * i + v * j /\ v * i \in Int
    OBVIOUS
  <2> HIDE DEF U
  <2>3. n * (f[c] + SumOver(f, U)) = n * f[c] + n * SumOver(f, U)
    BY <1>7, <2>1, <2>2
  <2>4. k * (g[c] + SumOver(g, U)) = k * g[c] + k * SumOver(g, U)
        /\ k * g[c] \in Int /\ k * SumOver(g, U) \in Int
    BY <1>7, <2>1, <2>2
  <2> QED BY <1>6, <1>7, <2>1, <2>3, <2>4
<1> QED BY <1>2, <1>7, <1>8

\* The parts of a set that are apart add up to it, but for what is zero.
LEMMA SumOverUnion ==
  ASSUME NEW S, IsFiniteSet(S), NEW f, \A x \in S : f[x] \in Int,
         NEW A \in SUBSET S, NEW B \in SUBSET S, A \cap B = {},
         \A x \in S \ (A \cup B) : f[x] = 0
  PROVE  /\ SumOver(f, S) = SumOver(f, A) + SumOver(f, B)
         /\ SumOver(f, A) \in Int /\ SumOver(f, B) \in Int
<1> DEFINE Bad == {T \in SUBSET S : ~(SumOver(f, T) = SumOver(f, T \cap A) + SumOver(f, T \cap B))}
<1>1. SumOver(f, A) \in Int /\ SumOver(f, B) \in Int
  <2>1. IsFiniteSet(A) /\ IsFiniteSet(B) BY FS_Subset
  <2> QED BY <2>1, SumOverType
<1>2. SUFFICES ASSUME Bad # {} PROVE FALSE
  <2>1. S \cap A = A /\ S \cap B = B OBVIOUS
  <2> QED BY <1>1, <2>1
<1>3. PICK T \in Bad : \A U \in SUBSET T : U # T => U \notin Bad
  <2>1. Bad \in SUBSET (SUBSET S) OBVIOUS
  <2> HIDE DEF Bad
  <2> QED BY <1>2, <2>1, SmallestSubset
<1>4. T # {}
  <2>1. SUFFICES ASSUME T = {} PROVE FALSE OBVIOUS
  <2>2. T \cap A = {} /\ T \cap B = {} BY <2>1
  <2>3. SumOver(f, T) = 0 /\ SumOver(f, T \cap A) = 0 /\ SumOver(f, T \cap B) = 0
    BY <2>1, <2>2, SumOverEmpty
  <2> QED BY <1>3, <2>3
<1>5. PICK c \in T : TRUE BY <1>4
<1> DEFINE U == T \ {c}
<1>6. SumOver(f, U) = SumOver(f, U \cap A) + SumOver(f, U \cap B) BY <1>3, <1>5
<1>7. IsFiniteSet(T) /\ \A x \in T : f[x] \in Int BY <1>3, FS_Subset
<1>8. ASSUME NEW V \in SUBSET T
      PROVE  /\ SumOver(f, V) = (IF c \in V THEN f[c] ELSE 0) + SumOver(f, V \ {c})
             /\ SumOver(f, V) \in Int /\ SumOver(f, V \ {c}) \in Int
  <2>1. IsFiniteSet(V) BY <1>7, FS_Subset
  <2>2. CASE c \in V BY <1>7, <2>1, <2>2, SumOverAdd
  <2>3. CASE c \notin V
    <3>1. V \ {c} = V BY <2>3
    <3>2. SumOver(f, V) \in Int BY <1>7, <2>1, SumOverType
    <3> QED BY <2>3, <3>1, <3>2
  <2> QED BY <2>2, <2>3
<1>9. (T \cap A) \ {c} = U \cap A /\ (T \cap B) \ {c} = U \cap B OBVIOUS
<1>10. /\ SumOver(f, T) = f[c] + SumOver(f, U) /\ SumOver(f, U) \in Int
       /\ SumOver(f, T \cap A) = (IF c \in T \cap A THEN f[c] ELSE 0) + SumOver(f, U \cap A)
       /\ SumOver(f, U \cap A) \in Int
       /\ SumOver(f, T \cap B) = (IF c \in T \cap B THEN f[c] ELSE 0) + SumOver(f, U \cap B)
       /\ SumOver(f, U \cap B) \in Int
  <2>1. T \in SUBSET T /\ T \cap A \in SUBSET T /\ T \cap B \in SUBSET T OBVIOUS
  <2> QED BY <1>5, <1>8, <1>9, <2>1
<1>11. f[c] \in Int /\ (c \in A => c \notin B) /\ (c \notin A /\ c \notin B => f[c] = 0)
  BY <1>3, <1>5, <1>7
<1> HIDE DEF U
<1>12. SumOver(f, T) = SumOver(f, T \cap A) + SumOver(f, T \cap B)
  <2>1. CASE c \in A BY <1>5, <1>6, <1>10, <1>11, <2>1
  <2>2. CASE c \in B BY <1>5, <1>6, <1>10, <1>11, <2>2
  <2>3. CASE c \notin A /\ c \notin B BY <1>6, <1>10, <1>11, <2>3
  <2> QED BY <2>1, <2>2, <2>3
<1> QED BY <1>3, <1>12

LEMMA SumOverParts ==
  ASSUME NEW S, IsFiniteSet(S), NEW f, \A x \in S : f[x] \in Int,
         NEW A \in SUBSET S, NEW B \in SUBSET S, NEW C \in SUBSET S,
         A \cap B = {}, A \cap C = {}, B \cap C = {},
         \A x \in S \ (A \cup B \cup C) : f[x] = 0
  PROVE  SumOver(f, S) = SumOver(f, A) + SumOver(f, B) + SumOver(f, C)
<1> DEFINE R == B \cup C
<1>1. /\ R \in SUBSET S /\ A \cap R = {} /\ \A x \in S \ (A \cup R) : f[x] = 0
      /\ B \in SUBSET R /\ C \in SUBSET R /\ R \ (B \cup C) = {}
  OBVIOUS
<1> HIDE DEF R
<1>2. SumOver(f, S) = SumOver(f, A) + SumOver(f, R) /\ SumOver(f, A) \in Int
  BY <1>1, SumOverUnion
<1>3. IsFiniteSet(R) /\ \A x \in R : f[x] \in Int BY <1>1, FS_Subset
<1>4. SumOver(f, R) = SumOver(f, B) + SumOver(f, C) /\ SumOver(f, B) \in Int /\ SumOver(f, C) \in Int
  <2>1. B \cap C = {} /\ \A x \in R \ (B \cup C) : f[x] = 0 BY <1>1
  <2> QED BY <1>1, <1>3, <2>1, SumOverUnion
<1> QED BY <1>2, <1>4

\* To add up ones is to count.
LEMMA SumOverCounts ==
  ASSUME NEW S, IsFiniteSet(S), NEW f, NEW E \in SUBSET S,
         \A x \in S : f[x] = IF x \in E THEN 1 ELSE 0
  PROVE  SumOver(f, S) = Cardinality(E)
<1> DEFINE Bad == {T \in SUBSET S : SumOver(f, T) # Cardinality(T \cap E)}
<1>1. SUFFICES ASSUME Bad # {} PROVE FALSE
  <2>1. S \cap E = E OBVIOUS
  <2> QED BY <2>1
<1>2. PICK T \in Bad : \A U \in SUBSET T : U # T => U \notin Bad
  <2>1. Bad \in SUBSET (SUBSET S) OBVIOUS
  <2> HIDE DEF Bad
  <2> QED BY <1>1, <2>1, SmallestSubset
<1>3. T # {} BY <1>2, SumOverEmpty, FS_EmptySet
<1>4. PICK c \in T : TRUE BY <1>3
<1>5. IsFiniteSet(T) /\ IsFiniteSet(T \cap E) BY <1>2, FS_Subset
<1>6. SumOver(f, T \ {c}) = Cardinality((T \ {c}) \cap E) BY <1>2, <1>4
<1>7. SumOver(f, T) = f[c] + SumOver(f, T \ {c})
  <2>1. \A x \in T : f[x] \in Int BY <1>2
  <2> QED BY <1>4, <1>5, <2>1, SumOverAdd
<1>8. Cardinality(T \cap E) \in Nat BY <1>5, FS_CardinalityType
<1>9. (T \ {c}) \cap E = (T \cap E) \ {c} OBVIOUS
<1>10. Cardinality((T \cap E) \ {c}) =
         IF c \in T \cap E THEN Cardinality(T \cap E) - 1 ELSE Cardinality(T \cap E)
  BY <1>5, FS_RemoveElement
<1> QED BY <1>2, <1>4, <1>6, <1>7, <1>8, <1>9, <1>10

\* A sum of bounded values is bounded by their number.
LEMMA SumOverBound ==
  ASSUME NEW S, IsFiniteSet(S), NEW f, NEW b \in Nat, \A x \in S : f[x] \in 0..b
  PROVE  SumOver(f, S) \in Nat /\ SumOver(f, S) <= b * Cardinality(S)
<1> DEFINE one == [x \in S |-> 1]
           gap == [x \in S |-> b - f[x]]
<1>1. \A x \in S : f[x] \in Nat /\ gap[x] \in Nat /\ one[x] \in Int
  OBVIOUS
<1>2. SumOver(f, S) \in Nat /\ SumOver(gap, S) \in Nat
  BY <1>1, SumOverMonotone
<1>3. SumOver(one, S) = Cardinality(S)
  <2>1. S \in SUBSET S /\ \A x \in S : one[x] = IF x \in S THEN 1 ELSE 0 OBVIOUS
  <2> HIDE DEF one
  <2> QED BY <2>1, SumOverCounts
<1>4. \A x \in S : b * one[x] = 1 * f[x] + gap[x]
  <2>1. TAKE x \in S
  <2>2. f[x] \in Int /\ b * 1 = b BY <1>1
  <2> QED BY <2>2
<1>5. b * SumOver(one, S) = 1 * SumOver(f, S) + SumOver(gap, S)
  <2>1. \A x \in S : one[x] \in Int /\ f[x] \in Int /\ gap[x] \in Int BY <1>1
  <2>2. b \in Int /\ 1 \in Int OBVIOUS
  <2> HIDE DEF one, gap
  <2> QED BY <1>4, <2>1, <2>2, SumOverLinear
<1>6. Cardinality(S) \in Nat BY FS_CardinalityType
<1> HIDE DEF one, gap
<1> QED BY <1>2, <1>3, <1>5, <1>6

\* Of a finite set that is strictly ordered, A[x] before x, as many as n elements have
\* fewer than n before them.
LEMMA FirstOfOrder ==
  ASSUME NEW S, IsFiniteSet(S), NEW A \in [S -> SUBSET S],
         \A x \in S : x \notin A[x] /\ \A y \in A[x] : A[y] \subseteq A[x],
         \A x, y \in S : x # y => x \in A[y] \/ y \in A[x],
         NEW n \in 0..Cardinality(S)
  PROVE  Cardinality({x \in S : Cardinality(A[x]) < n}) = n
<1> DEFINE rank == [x \in S |-> Cardinality(A[x])]
           E == {x \in S : rank[x] < n}
           part == [x \in E |-> rank[x]]
<1>1. Cardinality(S) \in Nat BY FS_CardinalityType
<1>2. \A x, y \in S : y \in A[x] => rank[y] < rank[x]
  <2>1. TAKE x, y \in S
  <2>2. HAVE y \in A[x]
  <2>3. A[y] \in SUBSET A[x] /\ A[y] # A[x] BY <2>2
  <2>4. IsFiniteSet(A[x]) /\ IsFiniteSet(A[y]) BY FS_Subset
  <2>5. Cardinality(A[x]) \in Nat /\ Cardinality(A[y]) \in Nat BY <2>4, FS_CardinalityType
  <2> QED BY <2>3, <2>4, <2>5, FS_Subset
<1>3. rank \in Injection(S, 0..(Cardinality(S) - 1))
  <2>1. \A x \in S : rank[x] \in 0..(Cardinality(S) - 1)
    <3>1. TAKE x \in S
    <3>2. A[x] \in SUBSET S /\ A[x] # S OBVIOUS
    <3>3. Cardinality(A[x]) <= Cardinality(S) /\ Cardinality(A[x]) # Cardinality(S) /\ IsFiniteSet(A[x])
      BY <3>2, FS_Subset
    <3>4. Cardinality(A[x]) \in Nat BY <3>3, FS_CardinalityType
    <3> QED BY <1>1, <3>3, <3>4
  <2>2. \A x, y \in S : rank[x] = rank[y] => x = y
    <3>1. TAKE x, y \in S
    <3>2. HAVE rank[x] = rank[y]
    <3>3. rank[x] \in Int BY <2>1
    <3> HIDE DEF rank
    <3>4. ~(rank[x] < rank[y]) /\ ~(rank[y] < rank[x]) BY <3>2, <3>3
    <3> QED BY <1>2, <3>4
  <2> QED BY <2>1, <2>2 DEF Injection, IsInjective
<1>4. rank \in Surjection(S, 0..(Cardinality(S) - 1))
  <2>1. IsFiniteSet(0..(Cardinality(S) - 1)) /\ Cardinality(0..(Cardinality(S) - 1)) = Cardinality(S)
    <3>1. Cardinality(S) - 1 \in Int /\ 0 \in Int /\ (Cardinality(S) - 1) - 0 + 1 = Cardinality(S)
          /\ (0 > Cardinality(S) - 1 => Cardinality(S) = 0)
      BY <1>1
    <3> QED BY <3>1, FS_Interval
  <2> HIDE DEF rank
  <2> QED BY <1>3, <2>1, FS_Injection
<1>5. part \in Injection(E, 0..(n - 1))
  <2>1. \A x \in S : rank[x] \in Nat BY <1>1, <1>3 DEF Injection
  <2>2. part \in [E -> 0..(n - 1)] BY <2>1
  <2>3. \A x, y \in E : part[x] = part[y] => x = y BY <1>3 DEF Injection, IsInjective
  <2> HIDE DEF part
  <2> QED BY <2>2, <2>3 DEF Injection, IsInjective
<1>6. part \in Surjection(E, 0..(n - 1))
  <2>1. ASSUME NEW i \in 0..(n - 1) PROVE \E x \in E : part[x] = i
    <3>1. i \in 0..(Cardinality(S) - 1) BY <1>1
    <3>2. PICK x \in S : rank[x] = i
      <4> HIDE DEF rank
      <4> QED BY <1>4, <3>1 DEF Surjection
    <3> QED BY <3>2
  <2>2. part \in [E -> 0..(n - 1)] BY <1>5 DEF Injection
  <2> HIDE DEF part
  <2> QED BY <2>1, <2>2 DEF Surjection
<1>7. IsFiniteSet(0..(n - 1)) /\ Cardinality(0..(n - 1)) = n
  BY FS_Interval
<1>8. Cardinality(E) = n
  <2> HIDE DEF part, E
  <2> QED BY <1>5, <1>6, <1>7, FS_Injection
<1>9. E = {x \in S : Cardinality(A[x]) < n} OBVIOUS
<1> QED BY <1>8, <1>9

\* A finite set of integers has a largest one.
LEMMA GreatestExists ==
  ASSUME NEW S \in SUBSET Int, IsFiniteSet(S), S # {}
  PROVE  \E x \in S : \A y \in S : y <= x
<1> DEFINE Bad == {T \in SUBSET S : T # {} /\ ~\E x \in T : \A y \in T : y <= x}
<1>1. SUFFICES ASSUME Bad # {} PROVE FALSE
  OBVIOUS
<1>2. PICK T \in Bad : \A U \in SUBSET T : U # T => U \notin Bad
  <2>1. Bad \in SUBSET (SUBSET S) OBVIOUS
  <2> HIDE DEF Bad
  <2> QED BY <1>1, <2>1, SmallestSubset
<1>3. PICK c \in T : TRUE OBVIOUS
<1>4. CASE T \ {c} = {}
  <2>1. \A y \in T : y <= c BY <1>3, <1>4
  <2> QED BY <1>2, <1>3, <2>1
<1>5. CASE T \ {c} # {}
  <2>1. PICK m \in T \ {c} : \A y \in T \ {c} : y <= m BY <1>2, <1>5
  <2>2. \A y \in T : y <= c \/ y <= m BY <2>1
  <2>3. CASE c <= m
    <3>1. \A y \in T : y <= m BY <2>1, <2>3
    <3> QED BY <1>2, <2>1, <3>1
  <2>4. CASE m <= c
    <3>1. \A y \in T : y <= c BY <2>1, <2>4
    <3> QED BY <1>2, <1>3, <3>1
  <2> QED BY <2>1, <2>3, <2>4
<1> QED BY <1>4, <1>5

\* Of a set whose members are all the same there is at most one.
LEMMA AtMostOne ==
  ASSUME NEW S, \A a, b \in S : a = b
  PROVE  Cardinality(S) <= 1
<1>1. CASE S = {} BY <1>1, FS_EmptySet
<1>2. CASE S # {}
  <2>1. PICK a : S = {a} BY <1>2
  <2> QED BY <2>1, FS_Singleton
<1> QED BY <1>1, <1>2
=============================================================================
