------------------------------ MODULE SumTheorems ------------------------------
(***************************************************************************)
(* Sums over finite sets, as SumFunctionOnSet of module Functions defines  *)
(* them: one element after the other, in the order CHOOSE picks them.  The *)
(* lemmas say that the order does not matter, and what follows from that.  *)
(* Also what the proofs need of functions defined step by step (the next   *)
(* value from the previous one), and induction over numbers.  An induction *)
(* takes the set of the numbers, or of the subsets, for which the claim    *)
(* holds as its parameter.                                                 *)
(***************************************************************************)
EXTENDS Integers, Functions, FiniteSetTheorems, WellFoundedInduction, TLAPS

\* A nonempty set of natural numbers has a least element.
LEMMA LeastNumber ==
  ASSUME NEW A \in SUBSET Nat, A # {}
  PROVE  \E n \in A : \A m \in A : n <= m
<1>1. PICK n \in A : \A m \in A : <<m, n>> \notin OpToRel(<, Nat)
  BY NatLessThanWellFounded, WFMin
<1>2. ASSUME NEW m \in A, ~(n <= m)
      PROVE  FALSE
  <2>1. <<m, n>> \in {ss \in Nat \X Nat : ss[1] < ss[2]}
    BY <1>2
  <2>2. QED BY <1>1, <2>1 DEF OpToRel
<1>3. QED BY <1>2

\* Induction over the natural numbers.
LEMMA NumberInduction ==
  ASSUME NEW A, 0 \in A, \A n \in Nat : n \in A => n + 1 \in A
  PROVE  Nat \subseteq A
<1>1. SUFFICES ASSUME Nat \ A # {} PROVE FALSE
  OBVIOUS
<1>2. PICK n \in Nat \ A : \A m \in Nat \ A : n <= m
  BY <1>1, LeastNumber
<1>3. n - 1 \in Nat
  BY <1>2
<1>4. n - 1 \notin Nat \ A
  BY <1>2, <1>3
<1>5. QED BY <1>2, <1>3, <1>4

\* N steps from V to V, and the values they lead to from zero.
StepsIn(N, V) == [1 .. N -> [V -> V]]
Paths(N, V, zero, next) ==
  {of \in [0 .. N -> V] : of[0] = zero /\ \A n \in 1 .. N : of[n] = next[n][of[n - 1]]}

\* A function over 0 .. N may be defined step by step: its value at 0, and each next one
\* from the one before.
LEMMA StepByStep ==
  ASSUME NEW N \in Nat, NEW V, NEW zero \in V, NEW next \in StepsIn(N, V)
  PROVE  \E of : of \in Paths(N, V, zero, next)
<1> USE DEF StepsIn, Paths
<1> DEFINE Steps(m, of) == of[0] = zero /\ \A n \in 1 .. m : of[n] = next[n][of[n - 1]]
           Defined(m) == \E of \in [0 .. m -> V] : Steps(m, of)
           A == {m \in Nat : m <= N => Defined(m)}
<1>1. 0 \in A
  <2> DEFINE of == [n \in 0 .. 0 |-> zero]
  <2>1. of \in [0 .. 0 -> V] /\ Steps(0, of)
    OBVIOUS
  <2> HIDE DEF of, Steps
  <2>2. Defined(0)
    BY <2>1
  <2> HIDE DEF Defined
  <2>3. QED BY <2>2
<1>2. ASSUME NEW m \in Nat, m \in A
      PROVE  m + 1 \in A
  <2>1. ASSUME m + 1 <= N
        PROVE  Defined(m + 1)
    <3>1. PICK g \in [0 .. m -> V] : Steps(m, g)
      BY <1>2, <2>1
    <3> DEFINE x == next[m + 1][g[m]]
               h == [n \in 0 .. m + 1 |-> IF n = m + 1 THEN x ELSE g[n]]
    <3>2. x \in V
      <4>1. m + 1 \in 1 .. N /\ m \in 0 .. m
        BY <2>1
      <4>2. QED BY <3>1, <4>1
    <3> HIDE DEF x
    <3>3. \A n \in 0 .. m : n \in 0 .. m + 1 /\ n # m + 1
      OBVIOUS
    <3>4. \A n \in 0 .. m : h[n] = g[n]
      BY <3>3
    <3>5. h \in [0 .. m + 1 -> V] /\ h[m + 1] = x
      <4>1. \A n \in 0 .. m + 1 : n = m + 1 \/ n \in 0 .. m
        OBVIOUS
      <4>2. \A n \in 0 .. m + 1 : (IF n = m + 1 THEN x ELSE g[n]) \in V
        BY <3>2, <4>1
      <4>3. m + 1 \in 0 .. m + 1
        OBVIOUS
      <4>4. QED BY <4>2, <4>3
    <3> HIDE DEF h
    <3>6. h[0] = zero
      BY <3>1, <3>4
    <3>7. ASSUME NEW n \in 1 .. m + 1
          PROVE  h[n] = next[n][h[n - 1]]
      <4>1. n - 1 \in 0 .. m
        OBVIOUS
      <4>2. h[n - 1] = g[n - 1]
        BY <3>4, <4>1
      <4>3. CASE n = m + 1
        BY <3>5, <4>2, <4>3 DEF x
      <4>4. CASE n # m + 1
        <5>1. n \in 1 .. m /\ n \in 0 .. m
          BY <4>4
        <5>2. QED BY <3>1, <3>4, <4>2, <5>1
      <4>5. QED BY <4>3, <4>4
    <3>8. Steps(m + 1, h)
      BY <3>6, <3>7
    <3> HIDE DEF Steps
    <3>9. QED BY <3>5, <3>8
  <2> HIDE DEF Defined
  <2>2. QED BY <2>1
<1>3. N \in A
  <2> HIDE DEF A
  <2>1. Nat \subseteq A
    BY <1>1, <1>2, NumberInduction
  <2>2. QED BY <2>1
<1>4. QED BY <1>3

\* A function that no step makes less only grows.
LEMMA Growing ==
  ASSUME NEW N \in Nat, NEW F \in [0 .. N -> Int], \A n \in 1 .. N : F[n - 1] <= F[n]
  PROVE  \A m, n \in 0 .. N : m <= n => F[m] <= F[n]
<1> DEFINE A == {n \in Nat : n <= N => \A m \in 0 .. n : F[m] <= F[n]}
<1>1. 0 \in A
  OBVIOUS
<1>2. ASSUME NEW n \in Nat, n \in A PROVE n + 1 \in A
  <2>1. ASSUME n + 1 <= N, NEW m \in 0 .. n + 1 PROVE F[m] <= F[n + 1]
    <3>1. /\ n + 1 \in 1 .. N /\ (n + 1) - 1 = n /\ n \in 0 .. N /\ n + 1 \in 0 .. N
          /\ m \in 0 .. N
      BY <2>1
    <3>2. F[n] <= F[n + 1] /\ F[n] \in Int /\ F[n + 1] \in Int /\ F[m] \in Int
      BY <3>1
    <3>3. CASE m = n + 1
      BY <3>2, <3>3
    <3>4. CASE m # n + 1
      <4>1. m \in 0 .. n
        BY <3>4
      <4>2. F[m] <= F[n]
        BY <1>2, <2>1, <4>1
      <4>3. QED BY <3>2, <4>2
    <3>5. QED BY <3>3, <3>4
  <2>2. QED BY <2>1
<1>3. \A n \in 0 .. N : n \in A
  <2> HIDE DEF A
  <2>1. Nat \subseteq A
    BY <1>1, <1>2, NumberInduction
  <2>2. QED BY <2>1
<1>4. \A m, n \in 0 .. N : m <= n => m \in 0 .. n
  OBVIOUS
<1>5. QED BY <1>3, <1>4

\* A set with n + 1 elements has an element, and n others.
LEMMA OneLess ==
  ASSUME NEW T, IsFiniteSet(T), NEW n \in Nat, Cardinality(T) = n + 1
  PROVE  T # {} /\ \A x \in T : Cardinality(T \ {x}) = n
<1>1. T # {}
  BY FS_EmptySet
<1>2. ASSUME NEW x \in T PROVE Cardinality(T \ {x}) = n
  <2>1. Cardinality(T \ {x}) = Cardinality(T) - 1
    BY FS_RemoveElement
  <2>2. QED BY <2>1
<1>3. QED BY <1>1, <1>2

\* Induction over the subsets of a finite set.
LEMMA SetInduction ==
  ASSUME NEW S, IsFiniteSet(S), NEW Q,
         {} \in Q,
         \A T \in SUBSET S : \A x \in S \ T : T \in Q => T \cup {x} \in Q
  PROVE  SUBSET S \subseteq Q
<1> DEFINE A == {n \in Nat : \A T \in SUBSET S : Cardinality(T) = n => T \in Q}
<1>1. \A T \in SUBSET S : IsFiniteSet(T) /\ Cardinality(T) \in Nat
  BY FS_Subset, FS_CardinalityType
<1>2. 0 \in A
  BY <1>1, FS_EmptySet
<1>3. ASSUME NEW n \in Nat, n \in A
      PROVE  n + 1 \in A
  <2> SUFFICES ASSUME NEW T \in SUBSET S, Cardinality(T) = n + 1
               PROVE  T \in Q
    OBVIOUS
  <2>1. T # {}
    BY <1>1, OneLess
  <2>2. PICK x \in T : TRUE
    BY <2>1
  <2>3. Cardinality(T \ {x}) = n
    BY <1>1, OneLess
  <2>4. T \ {x} \in Q
    BY <1>3, <2>3
  <2>5. T = (T \ {x}) \cup {x} /\ x \in S \ (T \ {x}) /\ T \ {x} \in SUBSET S
    OBVIOUS
  <2>6. QED BY <2>4, <2>5
<1>4. Nat \subseteq A
  <2> HIDE DEF A
  <2>1. QED BY <1>2, <1>3, NumberInduction
<1>5. QED BY <1>1, <1>4

-----------------------------------------------------------------------------
(* The recursive function of the definition exists, and there is one only. *)

Pick(s) == CHOOSE x \in s : TRUE
SumOf(f, s, g) == IF s = {} THEN 0 ELSE f[Pick(s)] + g[s \ {Pick(s)}]

\* The function g sums f over the subsets of S.
Sums(g, f, S) == \A s \in SUBSET S : g[s] = SumOf(f, s, g)

\* What is picked is in the set.
LEMMA PickIn == ASSUME NEW s, s # {} PROVE Pick(s) \in s
BY DEF Pick

\* The recursive function that sums over the subsets of a finite set exists.
LEMMA SumDefined ==
  ASSUME NEW S, IsFiniteSet(S), NEW f
  PROVE  \E g : g = [s \in SUBSET S |-> SumOf(f, s, g)]
<1> DEFINE Level(n) == {s \in SUBSET S : Cardinality(s) <= n}
           A == {n \in Nat : \E g : g = [s \in Level(n) |-> SumOf(f, s, g)]}
<1>1. \A T \in SUBSET S : IsFiniteSet(T) /\ Cardinality(T) \in Nat
  BY FS_Subset, FS_CardinalityType
<1>2. 0 \in A
  <2> DEFINE g == [s \in Level(0) |-> 0]
  <2>1. \A s \in Level(0) : s = {}
    BY <1>1, FS_EmptySet
  <2>2. g = [s \in Level(0) |-> SumOf(f, s, g)]
    BY <2>1 DEF SumOf
  <2>3. QED BY <2>2
<1>3. ASSUME NEW n \in Nat, n \in A
      PROVE  n + 1 \in A
  <2>1. PICK g : g = [s \in Level(n) |-> SumOf(f, s, g)]
    BY <1>3
  <2> DEFINE h == [s \in Level(n + 1) |-> SumOf(f, s, g)]
  <2>2. \A s \in Level(n) : s \in Level(n + 1)
    BY <1>1
  <2>3. \A s \in Level(n) : g[s] = h[s]
    BY <2>1, <2>2
  <2>4. ASSUME NEW s \in Level(n + 1), s # {}
        PROVE  s \ {Pick(s)} \in Level(n)
    BY <1>1, <2>4, PickIn, FS_RemoveElement
  <2>5. \A s \in Level(n + 1) : SumOf(f, s, g) = SumOf(f, s, h)
    <3> HIDE DEF h, Level
    <3>1. QED BY <2>3, <2>4 DEF SumOf
  <2>6. h = [s \in Level(n + 1) |-> SumOf(f, s, h)]
    <3>1. h = [s \in Level(n + 1) |-> SumOf(f, s, g)]
      OBVIOUS
    <3> HIDE DEF h, Level
    <3>2. QED BY <2>5, <3>1
  <2>7. \E k : k = [s \in Level(n + 1) |-> SumOf(f, s, k)]
    <3> HIDE DEF h, Level
    <3>1. QED BY <2>6
  <2>8. n + 1 \in Nat
    OBVIOUS
  <2> HIDE DEF h, Level
  <2>9. QED BY <2>7, <2>8
<1>4. Nat \subseteq A
  <2> HIDE DEF A
  <2>1. QED BY <1>2, <1>3, NumberInduction
<1>5. Cardinality(S) \in Nat /\ Level(Cardinality(S)) = SUBSET S
  BY <1>1, FS_Subset
<1>6. QED BY <1>4, <1>5

\* There is one such function, and it agrees with that of any subset.
LEMMA SumUnique ==
  ASSUME NEW S, IsFiniteSet(S), NEW T \in SUBSET S, NEW f,
         NEW g, Sums(g, f, S), NEW h, Sums(h, f, T)
  PROVE  \A s \in SUBSET T : g[s] = h[s]
<1>1. IsFiniteSet(T)
  BY FS_Subset
<1> DEFINE A == {n \in Nat : \A s \in SUBSET T : Cardinality(s) = n => g[s] = h[s]}
<1>2. \A s \in SUBSET T : IsFiniteSet(s) /\ Cardinality(s) \in Nat
  BY <1>1, FS_Subset, FS_CardinalityType
<1>3. \A s \in SUBSET T : g[s] = SumOf(f, s, g) /\ h[s] = SumOf(f, s, h)
  BY DEF Sums
<1>4. 0 \in A
  BY <1>2, <1>3, FS_EmptySet DEF SumOf
<1>5. ASSUME NEW n \in Nat, n \in A
      PROVE  n + 1 \in A
  <2> SUFFICES ASSUME NEW s \in SUBSET T, Cardinality(s) = n + 1
               PROVE  g[s] = h[s]
    OBVIOUS
  <2>1. s # {}
    BY <1>2, OneLess
  <2>2. Cardinality(s \ {Pick(s)}) = n
    BY <1>2, <2>1, PickIn, OneLess
  <2>3. g[s \ {Pick(s)}] = h[s \ {Pick(s)}]
    BY <1>5, <2>2
  <2>4. QED BY <1>3, <2>3 DEF SumOf
<1>6. Nat \subseteq A
  <2> HIDE DEF A
  <2>1. QED BY <1>4, <1>5, NumberInduction
<1>7. QED BY <1>2, <1>6

\* SumFunctionOnSet is one of them.
LEMMA SumChosen ==
  ASSUME NEW S, IsFiniteSet(S), NEW f
  PROVE  \E g : /\ g = [s \in SUBSET S |-> SumOf(f, s, g)]
                /\ SumFunctionOnSet(f, S) = g[S]
<1> DEFINE G == CHOOSE g : g = [s \in SUBSET S |-> SumOf(f, s, g)]
<1>1. G = [s \in SUBSET S |-> SumOf(f, s, G)]
  BY SumDefined
<1>2. SumFunctionOnSet(f, S) = G[S]
  BY DEF SumFunctionOnSet, FoldFunctionOnSet, MapThenFoldSet, SumOf, Pick
<1>3. QED BY <1>1, <1>2

\* The sum as it is defined.
LEMMA SumPicked ==
  ASSUME NEW S, IsFiniteSet(S), NEW f
  PROVE  SumFunctionOnSet(f, S)
           = IF S = {} THEN 0
             ELSE f[Pick(S)] + SumFunctionOnSet(f, S \ {Pick(S)})
<1>1. PICK g : /\ g = [s \in SUBSET S |-> SumOf(f, s, g)]
               /\ SumFunctionOnSet(f, S) = g[S]
  BY SumChosen
<1>2. g[S] = SumOf(f, S, g)
  BY <1>1
<1>3. ASSUME S # {}
      PROVE  g[S \ {Pick(S)}] = SumFunctionOnSet(f, S \ {Pick(S)})
  <2> DEFINE T == S \ {Pick(S)}
  <2>1. T \in SUBSET S /\ IsFiniteSet(T)
    BY FS_Subset
  <2>2. PICK h : /\ h = [s \in SUBSET T |-> SumOf(f, s, h)]
                 /\ SumFunctionOnSet(f, T) = h[T]
    BY <2>1, SumChosen
  <2> HIDE DEF T
  <2>3. Sums(g, f, S)
    BY <1>1 DEF Sums
  <2>4. Sums(h, f, T)
    BY <2>2 DEF Sums
  <2>5. \A s \in SUBSET T : g[s] = h[s]
    BY <2>1, <2>3, <2>4, SumUnique
  <2>6. QED BY <2>2, <2>5 DEF T
<1>4. QED BY <1>1, <1>2, <1>3 DEF SumOf

-----------------------------------------------------------------------------
\* The sum of f over S is that of finitely many integers.
Summable(f, S) == IsFiniteSet(S) /\ \A x \in S : f[x] \in Int

\* Nothing adds up to zero.
LEMMA SumEmpty == ASSUME NEW f PROVE SumFunctionOnSet(f, {}) = 0
BY SumPicked, FS_EmptySet

\* A sum of integers is an integer.
LEMMA SumInt ==
  ASSUME NEW S, NEW f, Summable(f, S)
  PROVE  SumFunctionOnSet(f, S) \in Int
<1> USE DEF Summable
<1> DEFINE A == {n \in Nat : \A T \in SUBSET S :
                    Cardinality(T) = n => SumFunctionOnSet(f, T) \in Int}
<1>1. \A T \in SUBSET S : IsFiniteSet(T) /\ Cardinality(T) \in Nat
  BY FS_Subset, FS_CardinalityType
<1>2. 0 \in A
  BY <1>1, SumEmpty, FS_EmptySet
<1>3. ASSUME NEW n \in Nat, n \in A
      PROVE  n + 1 \in A
  <2> SUFFICES ASSUME NEW T \in SUBSET S, Cardinality(T) = n + 1
               PROVE  SumFunctionOnSet(f, T) \in Int
    OBVIOUS
  <2>1. T # {}
    BY <1>1, OneLess
  <2>2. Pick(T) \in T /\ Cardinality(T \ {Pick(T)}) = n
    BY <1>1, <2>1, PickIn, OneLess
  <2>3. SumFunctionOnSet(f, T \ {Pick(T)}) \in Int
    BY <1>3, <2>2
  <2>4. SumFunctionOnSet(f, T) = f[Pick(T)] + SumFunctionOnSet(f, T \ {Pick(T)})
    BY <1>1, <2>1, SumPicked
  <2>5. QED BY <2>2, <2>3, <2>4
<1>4. Nat \subseteq A
  <2> HIDE DEF A
  <2>1. QED BY <1>2, <1>3, NumberInduction
<1>5. QED BY <1>1, <1>4

\* Any element may be taken out first.
LEMMA SumAny ==
  ASSUME NEW S, NEW f, Summable(f, S), NEW x \in S
  PROVE  SumFunctionOnSet(f, S) = f[x] + SumFunctionOnSet(f, S \ {x})
<1> USE DEF Summable
<1> DEFINE Sum(T) == SumFunctionOnSet(f, T)
           A == {n \in Nat : \A T \in SUBSET S : Cardinality(T) = n =>
                    \A y \in T : Sum(T) = f[y] + Sum(T \ {y})}
<1>1. \A T \in SUBSET S : IsFiniteSet(T) /\ Cardinality(T) \in Nat
  BY FS_Subset, FS_CardinalityType
<1>2. \A T \in SUBSET S : Sum(T) \in Int
  BY <1>1, SumInt
<1>3. \A T \in SUBSET S : T # {} => Pick(T) \in T /\ Sum(T) = f[Pick(T)] + Sum(T \ {Pick(T)})
  BY <1>1, SumPicked, PickIn
<1> HIDE DEF Sum
<1>4. 0 \in A
  BY <1>1, FS_EmptySet
<1>5. ASSUME NEW n \in Nat, n \in A
      PROVE  n + 1 \in A
  <2> SUFFICES ASSUME NEW T \in SUBSET S, Cardinality(T) = n + 1, NEW y \in T
               PROVE  Sum(T) = f[y] + Sum(T \ {y})
    OBVIOUS
  <2>1. PICK p \in T : p = Pick(T) /\ Sum(T) = f[p] + Sum(T \ {p})
    BY <1>3
  <2>2. CASE y = p
    BY <2>1, <2>2
  <2>3. CASE y # p
    <3>1. Cardinality(T \ {p}) = n /\ Cardinality(T \ {y}) = n
      BY <1>1, OneLess
    <3>2. Sum(T \ {p}) = f[y] + Sum((T \ {p}) \ {y})
      BY <1>5, <2>3, <3>1
    <3>3. Sum(T \ {y}) = f[p] + Sum((T \ {y}) \ {p})
      BY <1>5, <2>3, <3>1
    <3>4. (T \ {p}) \ {y} = (T \ {y}) \ {p} /\ (T \ {p}) \ {y} \in SUBSET S
      OBVIOUS
    <3>5. f[p] \in Int /\ f[y] \in Int /\ Sum((T \ {p}) \ {y}) \in Int
      BY <1>2, <3>4
    <3>6. Sum((T \ {y}) \ {p}) = Sum((T \ {p}) \ {y})
      BY <3>4
    <3>7. QED BY <2>1, <3>2, <3>3, <3>5, <3>6
  <2>4. QED BY <2>2, <2>3
<1>6. Nat \subseteq A
  <2> HIDE DEF A
  <2>1. QED BY <1>4, <1>5, NumberInduction
<1>7. QED BY <1>1, <1>6 DEF Sum

\* One element more.
LEMMA SumAdd ==
  ASSUME NEW S, NEW f, Summable(f, S)
  PROVE  \A T \in SUBSET S : \A x \in S \ T :
           /\ SumFunctionOnSet(f, T \cup {x}) = SumFunctionOnSet(f, T) + f[x]
           /\ SumFunctionOnSet(f, T) \in Int /\ f[x] \in Int
<1> USE DEF Summable
<1> SUFFICES ASSUME NEW T \in SUBSET S, NEW x \in S \ T
             PROVE  /\ SumFunctionOnSet(f, T \cup {x}) = SumFunctionOnSet(f, T) + f[x]
                    /\ SumFunctionOnSet(f, T) \in Int /\ f[x] \in Int
  OBVIOUS
<1> DEFINE U == T \cup {x}
<1>1. IsFiniteSet(T) /\ IsFiniteSet(U)
  BY FS_Subset
<1>2. U \ {x} = T /\ x \in U
  OBVIOUS
<1>3. SumFunctionOnSet(f, T) \in Int /\ f[x] \in Int
  BY <1>1, SumInt
<1>4. \A y \in U : f[y] \in Int
  OBVIOUS
<1> HIDE DEF U
<1>5. SumFunctionOnSet(f, U) = f[x] + SumFunctionOnSet(f, U \ {x})
  BY <1>1, <1>2, <1>4, SumAny
<1>6. SumFunctionOnSet(f, U) = f[x] + SumFunctionOnSet(f, T)
  BY <1>2, <1>5
<1>7. SumFunctionOnSet(f, U) = SumFunctionOnSet(f, T) + f[x]
  BY <1>3, <1>6
<1>8. QED BY <1>3, <1>7 DEF U

\* Equal summands.
LEMMA SumSame ==
  ASSUME NEW S, NEW f, Summable(f, S), NEW g, \A x \in S : f[x] = g[x]
  PROVE  SumFunctionOnSet(f, S) = SumFunctionOnSet(g, S)
<1> USE DEF Summable
<1> DEFINE Q == {T \in SUBSET S : SumFunctionOnSet(f, T) = SumFunctionOnSet(g, T)}
<1>1. {} \in Q
  BY SumEmpty
<1>2. ASSUME NEW T \in SUBSET S, NEW x \in S \ T, T \in Q
      PROVE  T \cup {x} \in Q
  <2>1. IsFiniteSet(T)
    BY FS_Subset
  <2>2. /\ SumFunctionOnSet(f, T \cup {x}) = SumFunctionOnSet(f, T) + f[x]
        /\ SumFunctionOnSet(g, T \cup {x}) = SumFunctionOnSet(g, T) + g[x]
    BY <2>1, SumAdd
  <2>3. QED BY <1>2, <2>2
<1>3. SUBSET S \subseteq Q
  <2> HIDE DEF Q
  <2>1. QED BY <1>1, <1>2, SetInduction
<1>4. QED BY <1>3

\* No summand is larger.
LEMMA SumAtMost ==
  ASSUME NEW S, NEW f, Summable(f, S), NEW g, Summable(g, S),
         \A x \in S : f[x] <= g[x]
  PROVE  SumFunctionOnSet(f, S) <= SumFunctionOnSet(g, S)
<1> USE DEF Summable
<1> DEFINE Q == {T \in SUBSET S : SumFunctionOnSet(f, T) <= SumFunctionOnSet(g, T)}
<1>1. {} \in Q
  BY SumEmpty
<1>2. ASSUME NEW T \in SUBSET S, NEW x \in S \ T, T \in Q
      PROVE  T \cup {x} \in Q
  <2>1. IsFiniteSet(T)
    BY FS_Subset
  <2>2. /\ SumFunctionOnSet(f, T \cup {x}) = SumFunctionOnSet(f, T) + f[x]
        /\ SumFunctionOnSet(g, T \cup {x}) = SumFunctionOnSet(g, T) + g[x]
    BY <2>1, SumAdd
  <2>3. /\ SumFunctionOnSet(f, T) \in Int /\ SumFunctionOnSet(g, T) \in Int
        /\ f[x] \in Int /\ g[x] \in Int /\ f[x] <= g[x]
    BY <2>1, SumInt
  <2>4. SumFunctionOnSet(f, T) <= SumFunctionOnSet(g, T)
    BY <1>2
  <2>5. SumFunctionOnSet(f, T \cup {x}) <= SumFunctionOnSet(g, T \cup {x})
    BY <2>2, <2>3, <2>4
  <2>6. QED BY <2>5
<1>3. SUBSET S \subseteq Q
  <2> HIDE DEF Q
  <2>1. QED BY <1>1, <1>2, SetInduction
<1>4. QED BY <1>3

\* Sums of sums.
LEMMA SumPlus ==
  ASSUME NEW S, NEW f, Summable(f, S), NEW g, Summable(g, S),
         NEW h, \A x \in S : h[x] = f[x] + g[x]
  PROVE  SumFunctionOnSet(h, S) = SumFunctionOnSet(f, S) + SumFunctionOnSet(g, S)
<1> USE DEF Summable
<1> DEFINE Q == {T \in SUBSET S :
             SumFunctionOnSet(h, T) = SumFunctionOnSet(f, T) + SumFunctionOnSet(g, T)}
<1>1. {} \in Q
  BY SumEmpty
<1>2. ASSUME NEW T \in SUBSET S, NEW x \in S \ T, T \in Q
      PROVE  T \cup {x} \in Q
  <2>1. IsFiniteSet(T)
    BY FS_Subset
  <2>2. /\ SumFunctionOnSet(f, T \cup {x}) = SumFunctionOnSet(f, T) + f[x]
        /\ SumFunctionOnSet(g, T \cup {x}) = SumFunctionOnSet(g, T) + g[x]
        /\ SumFunctionOnSet(h, T \cup {x}) = SumFunctionOnSet(h, T) + h[x]
    BY <2>1, SumAdd
  <2>3. /\ SumFunctionOnSet(f, T) \in Int /\ SumFunctionOnSet(g, T) \in Int
        /\ f[x] \in Int /\ g[x] \in Int /\ h[x] = f[x] + g[x]
    BY <2>1, SumInt
  <2>4. SumFunctionOnSet(h, T) = SumFunctionOnSet(f, T) + SumFunctionOnSet(g, T)
    BY <1>2
  <2>5. SumFunctionOnSet(h, T \cup {x})
          = SumFunctionOnSet(f, T \cup {x}) + SumFunctionOnSet(g, T \cup {x})
    BY <2>2, <2>3, <2>4
  <2>6. QED BY <2>5
<1>3. SUBSET S \subseteq Q
  <2> HIDE DEF Q
  <2>1. QED BY <1>1, <1>2, SetInduction
<1>4. QED BY <1>3

\* One summand changes.
LEMMA SumUpdate ==
  ASSUME NEW S, NEW f, Summable(f, S), NEW g, Summable(g, S),
         NEW x \in S, \A y \in S \ {x} : f[y] = g[y]
  PROVE  SumFunctionOnSet(g, S) = SumFunctionOnSet(f, S) + (g[x] - f[x])
<1> USE DEF Summable
<1>1. IsFiniteSet(S \ {x})
  BY FS_Subset
<1>2. SumFunctionOnSet(f, S \ {x}) = SumFunctionOnSet(g, S \ {x})
  BY <1>1, SumSame
<1>3. /\ SumFunctionOnSet(f, S) = f[x] + SumFunctionOnSet(f, S \ {x})
      /\ SumFunctionOnSet(g, S) = g[x] + SumFunctionOnSet(g, S \ {x})
  BY SumAny
<1>4. SumFunctionOnSet(f, S \ {x}) \in Int
  BY <1>1, SumInt
<1>5. QED BY <1>2, <1>3, <1>4

\* Summands that are zero do not count.
LEMMA SumZero ==
  ASSUME NEW S, IsFiniteSet(S), NEW f, \A x \in S : f[x] = 0
  PROVE  SumFunctionOnSet(f, S) = 0
<1> USE DEF Summable
<1> DEFINE Q == {T \in SUBSET S : SumFunctionOnSet(f, T) = 0}
<1>1. {} \in Q
  BY SumEmpty
<1>2. ASSUME NEW T \in SUBSET S, NEW x \in S \ T, T \in Q
      PROVE  T \cup {x} \in Q
  <2>1. IsFiniteSet(T)
    BY FS_Subset
  <2>2. SumFunctionOnSet(f, T \cup {x}) = SumFunctionOnSet(f, T) + f[x]
    BY <2>1, SumAdd
  <2>3. QED BY <1>2, <2>2
<1>3. SUBSET S \subseteq Q
  <2> HIDE DEF Q
  <2>1. QED BY <1>1, <1>2, SetInduction
<1>4. QED BY <1>3

\* A sum of natural numbers.
LEMMA SumNat ==
  ASSUME NEW S, NEW f, Summable(f, S), \A x \in S : f[x] >= 0
  PROVE  SumFunctionOnSet(f, S) \in Nat
<1> DEFINE z == [x \in S |-> 0]
<1>1. Summable(z, S) /\ IsFiniteSet(S) /\ \A x \in S : z[x] = 0
  BY DEF Summable
<1>2. \A x \in S : z[x] <= f[x]
  BY DEF Summable
<1> HIDE DEF z
<1>3. SumFunctionOnSet(z, S) <= SumFunctionOnSet(f, S)
  BY <1>1, <1>2, SumAtMost
<1>4. SumFunctionOnSet(z, S) = 0
  BY <1>1, SumZero
<1>5. SumFunctionOnSet(f, S) \in Int
  BY SumInt
<1>6. QED BY <1>3, <1>4, <1>5

\* A sum over a subset is a sum over the set of what is zero outside the subset.
LEMMA SumWithin ==
  ASSUME NEW S, NEW T \in SUBSET S, NEW f, Summable(f, S),
         NEW g, \A x \in S : g[x] = IF x \in T THEN f[x] ELSE 0
  PROVE  SumFunctionOnSet(f, T) = SumFunctionOnSet(g, S)
<1> USE DEF Summable
<1> DEFINE Q == {U \in SUBSET S : SumFunctionOnSet(f, U \cap T) = SumFunctionOnSet(g, U)}
<1>1. {} \in Q
  BY SumEmpty
<1>2. ASSUME NEW U \in SUBSET S, NEW x \in S \ U, U \in Q
      PROVE  U \cup {x} \in Q
  <2>1. IsFiniteSet(U) /\ IsFiniteSet(U \cap T)
    BY FS_Subset
  <2>2. SumFunctionOnSet(g, U \cup {x}) = SumFunctionOnSet(g, U) + g[x]
    BY <2>1, SumAdd
  <2>3. CASE x \in T
    <3> DEFINE V == U \cap T
    <3>1. (U \cup {x}) \cap T = V \cup {x} /\ V \in SUBSET S /\ x \in S \ V
      BY <2>3
    <3>2. SumFunctionOnSet(f, V) = SumFunctionOnSet(g, U)
      BY <1>2
    <3> HIDE DEF V
    <3>3. SumFunctionOnSet(f, V \cup {x}) = SumFunctionOnSet(f, V) + f[x]
      BY <3>1, SumAdd
    <3>4. SumFunctionOnSet(f, (U \cup {x}) \cap T) = SumFunctionOnSet(g, U \cup {x})
      BY <2>2, <2>3, <3>1, <3>2, <3>3
    <3>5. QED BY <3>4
  <2>4. CASE x \notin T
    <3>1. (U \cup {x}) \cap T = U \cap T
      BY <2>4
    <3>2. SumFunctionOnSet(g, U) \in Int /\ g[x] = 0
      BY <2>1, <2>4, SumInt
    <3>3. QED BY <1>2, <2>2, <3>1, <3>2
  <2>5. QED BY <2>3, <2>4
<1>3. SUBSET S \subseteq Q
  <2> HIDE DEF Q
  <2>1. QED BY <1>1, <1>2, SetInduction
<1>4. S \cap T = T
  OBVIOUS
<1>5. QED BY <1>3, <1>4

-----------------------------------------------------------------------------
(* Sums over the numbers up to n.                                          *)

\* A sum over an interval, by its last summand.
LEMMA SumLast ==
  ASSUME NEW a \in Nat, NEW n \in Nat, a <= n, NEW f, Summable(f, a .. n)
  PROVE  /\ SumFunctionOnSet(f, a .. n) = SumFunctionOnSet(f, a .. n - 1) + f[n]
         /\ SumFunctionOnSet(f, a .. n - 1) \in Int
<1> DEFINE S == a .. n
           T == a .. n - 1
<1>1. T \in SUBSET S /\ n \in S \ T /\ T \cup {n} = S
  OBVIOUS
<1>2. Summable(f, S)
  OBVIOUS
<1> HIDE DEF S, T
<1>3. /\ SumFunctionOnSet(f, T \cup {n}) = SumFunctionOnSet(f, T) + f[n]
      /\ SumFunctionOnSet(f, T) \in Int
  BY <1>1, <1>2, SumAdd
<1>4. QED BY <1>1, <1>3 DEF S, T

\* The same of an interval from zero.
LEMMA SumUpTo ==
  ASSUME NEW n \in Nat, NEW f, Summable(f, 0 .. n)
  PROVE  /\ SumFunctionOnSet(f, 0 .. n) = SumFunctionOnSet(f, 0 .. n - 1) + f[n]
         /\ SumFunctionOnSet(f, 0 .. n - 1) \in Int
BY SumLast

\* Every summand moves one place up.
LEMMA SumShift ==
  ASSUME NEW N \in Nat, NEW f, Summable(f, 0 .. N),
         NEW g, \A i \in 0 .. N : g[i] = IF i = 0 THEN 0 ELSE f[i - 1]
  PROVE  \A n \in 0 .. N : SumFunctionOnSet(g, 0 .. n) = SumFunctionOnSet(f, 0 .. n - 1)
<1> DEFINE F(n) == SumFunctionOnSet(f, 0 .. n)
           G(n) == SumFunctionOnSet(g, 0 .. n)
           A == {n \in Nat : n <= N => G(n) = F(n - 1)}
<1>0. \A i \in 0 .. N : f[i] \in Int
  BY DEF Summable
<1>1. \A i \in 0 .. N : g[i] \in Int
  <2> SUFFICES ASSUME NEW i \in 0 .. N PROVE g[i] \in Int
    OBVIOUS
  <2>1. CASE i = 0
    BY <2>1
  <2>2. CASE i # 0
    <3>1. i - 1 \in 0 .. N
      BY <2>2
    <3>2. QED BY <1>0, <2>2, <3>1
  <2>3. QED BY <2>1, <2>2
<1>2. ASSUME NEW n \in 0 .. N
      PROVE  /\ G(n) = G(n - 1) + g[n] /\ F(n) = F(n - 1) + f[n]
             /\ G(n - 1) \in Int /\ F(n - 1) \in Int
  <2>1. n \in Nat /\ \A i \in 0 .. n : f[i] \in Int /\ g[i] \in Int
    BY <1>0, <1>1
  <2>2. Summable(f, 0 .. n) /\ Summable(g, 0 .. n)
    BY <2>1, FS_Interval DEF Summable
  <2>3. QED BY <2>1, <2>2, SumUpTo
<1>3. G(0) = F(0 - 1)
  <2>1. 0 .. 0 - 1 = {} /\ 0 - 1 = -1
    OBVIOUS
  <2>2. G(0 - 1) = 0 /\ F(0 - 1) = 0
    BY <2>1, SumEmpty
  <2>3. 0 \in 0 .. N /\ g[0] = 0
    OBVIOUS
  <2>4. G(0) = G(0 - 1) + g[0]
    BY <1>2, <2>3
  <2> HIDE DEF F, G
  <2>5. QED BY <2>2, <2>3, <2>4
<1> HIDE DEF F, G
<1>4. 0 \in A
  BY <1>3
<1>5. ASSUME NEW n \in Nat, n \in A
      PROVE  n + 1 \in A
  <2> SUFFICES ASSUME n + 1 <= N PROVE G(n + 1) = F(n + 1 - 1)
    OBVIOUS
  <2>1. n \in 0 .. N /\ n + 1 \in 0 .. N /\ n + 1 - 1 = n
    OBVIOUS
  <2>2. G(n) = F(n - 1)
    BY <1>5, <2>1
  <2>3. G(n + 1) = G(n + 1 - 1) + g[n + 1] /\ F(n) = F(n - 1) + f[n]
    BY <1>2, <2>1
  <2>4. g[n + 1] = f[n + 1 - 1]
    BY <2>1
  <2>5. QED BY <2>1, <2>2, <2>3, <2>4
<1>6. Nat \subseteq A
  <2> HIDE DEF A
  <2>1. QED BY <1>4, <1>5, NumberInduction
<1>7. QED BY <1>6 DEF F, G
=============================================================================
