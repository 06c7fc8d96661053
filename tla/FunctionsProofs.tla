--------------------------- MODULE FunctionsProofs ---------------------------
(***************************************************************************)
(* Theorems about the pure parts of the system, for inputs of any size.    *)
(* What a recursive definition computes is proved by induction on the size *)
(* of its input: first the equation of the recursion, which says that the  *)
(* definition defines anything, then the property.                         *)
(***************************************************************************)
EXTENDS RecordingMatchProps, PhoneNumbersProps, FiguresProps, SpeechProps, FiniteSetTheorems,
        SequenceTheorems, WellFoundedInduction, TLAPS

-----------------------------------------------------------------------------
(* Induction *)

\* Every nonempty set of numbers has a least element.
LEMMA LeastNumber ==
  ASSUME NEW T \in SUBSET Nat, T # {}
  PROVE  \E n \in T : \A m \in T : n <= m
<1>1. PICK n \in T : \A m \in T : <<m, n>> \notin OpToRel(<, Nat)
  BY WFMin, NatLessThanWellFounded, Zenon
<1>2. \A m \in T : n <= m
  <2>1. TAKE m \in T
  <2>2. m \in Nat /\ n \in Nat
    OBVIOUS
  <2>3. ~(m < n)
    BY <1>1, <2>2 DEF OpToRel
  <2> QED BY <2>2, <2>3
<1> QED BY <1>2

\* Induction over the numbers, for the set of those with a property.
LEMMA NumberInduction ==
  ASSUME NEW T \in SUBSET Nat, 0 \in T, \A n \in T : n + 1 \in T
  PROVE  T = Nat
<1>1. SUFFICES ASSUME Nat \ T # {} PROVE FALSE
  OBVIOUS
<1>2. PICK n \in Nat \ T : \A m \in Nat \ T : n <= m
  BY <1>1, LeastNumber
<1>3. n # 0 /\ n - 1 \in Nat /\ (n - 1) + 1 = n
  BY <1>2
<1>4. n - 1 \in T
  BY <1>2, <1>3
<1> QED BY <1>2, <1>3, <1>4

\* Induction over the subsets of a finite set, for the family of those with a
\* property.
LEMMA SubsetInduction ==
  ASSUME NEW S, IsFiniteSet(S), NEW F \in SUBSET SUBSET S, {} \in F,
         \A T \in F, x \in S : x \notin T => T \cup {x} \in F
  PROVE  F = SUBSET S
<1> DEFINE Sized == {n \in Nat : \A T \in SUBSET S : Cardinality(T) = n => T \in F}
<1>1. 0 \in Sized
  BY FS_EmptySet, FS_Subset
<1>2. ASSUME NEW n \in Sized PROVE n + 1 \in Sized
  <2>1. SUFFICES ASSUME NEW T \in SUBSET S, Cardinality(T) = n + 1 PROVE T \in F
    OBVIOUS
  <2>2. IsFiniteSet(T) /\ n \in Nat
    BY FS_Subset
  <2>3. T # {}
    BY <2>1, <2>2, FS_EmptySet
  <2>4. PICK x \in T : TRUE
    BY <2>3
  <2>5. Cardinality(T \ {x}) = n
    <3>1. Cardinality(T \ {x}) = Cardinality(T) - 1
      BY <2>2, FS_RemoveElement
    <3> QED BY <2>1, <2>2, <3>1
  <2>6. T \ {x} \in F
    BY <2>5
  <2>7. (T \ {x}) \cup {x} = T /\ x \in S
    BY <2>4
  <2> QED BY <2>6, <2>7
<1> HIDE DEF Sized
<1>3. Sized = Nat
  <2>1. Sized \in SUBSET Nat
    BY DEF Sized
  <2> QED BY <1>1, <1>2, <2>1, NumberInduction
<1>4. ASSUME NEW T \in SUBSET S PROVE T \in F
  <2>1. Cardinality(T) \in Nat
    BY FS_Subset, FS_CardinalityType
  <2> QED BY <1>3, <2>1 DEF Sized
<1> QED BY <1>4

\* g is the function on the subsets of S that a recursion defines which takes one
\* member off at a time.
Recurs(g, S, V, base, pick, step) ==
  /\ g \in [SUBSET S -> V]
  /\ \A T \in SUBSET S : g[T] = IF T = {} THEN base ELSE step[<<pick[T], g[T \ {pick[T]}]>>]

\* Over the subsets of a finite set there is such a function.
LEMMA SubsetRecursion ==
  ASSUME NEW S, IsFiniteSet(S), NEW V, NEW base \in V,
         NEW pick, \A T \in SUBSET S : T # {} => pick[T] \in T,
         NEW step \in [S \X V -> V]
  PROVE  \E g : Recurs(g, S, V, base, pick, step)
<1> DEFINE Upto(n) == {T \in SUBSET S : Cardinality(T) <= n}
           Is(g, n) == /\ g \in [Upto(n) -> V]
                       /\ \A T \in Upto(n) :
                            g[T] = IF T = {} THEN base ELSE step[<<pick[T], g[T \ {pick[T]}]>>]
           Sized == {n \in Nat : \E g : Is(g, n)}
<1>1. \A T \in SUBSET S : /\ IsFiniteSet(T) /\ Cardinality(T) \in Nat
                          /\ Cardinality(T) = 0 <=> T = {}
  BY FS_Subset, FS_CardinalityType, FS_EmptySet
<1>2. ASSUME NEW n \in Nat, NEW T \in Upto(n + 1), T # {}
      PROVE  pick[T] \in S /\ T \ {pick[T]} \in Upto(n)
  <2>1. Cardinality(T \ {pick[T]}) = Cardinality(T) - 1
    BY <1>1, <1>2, FS_RemoveElement
  <2> QED BY <1>1, <1>2, <2>1
<1>3. 0 \in Sized
  <2> DEFINE g == [T \in Upto(0) |-> base]
  <2>1. \A T \in Upto(0) : T = {}
    BY <1>1
  <2>2. Is(g, 0)
    BY <2>1
  <2> QED BY <2>2
<1>4. ASSUME NEW n \in Sized PROVE n + 1 \in Sized
  <2>1. PICK g : Is(g, n)
    OBVIOUS
  <2> DEFINE h == [T \in Upto(n + 1) |->
                     IF T = {} THEN base ELSE step[<<pick[T], g[T \ {pick[T]}]>>]]
  <2>2. n \in Nat /\ n + 1 \in Nat
    OBVIOUS
  <2>3. h \in [Upto(n + 1) -> V]
    <3>1. \A T \in Upto(n + 1) : T # {} => <<pick[T], g[T \ {pick[T]}]>> \in S \X V
      BY <1>2, <2>1, <2>2
    <3> QED BY <3>1
  <2>4. \A T \in Upto(n) : T \in Upto(n + 1) /\ h[T] = g[T]
    BY <2>1, <2>2, <1>1
  <2>5. \A T \in Upto(n + 1) :
          h[T] = IF T = {} THEN base ELSE step[<<pick[T], h[T \ {pick[T]}]>>]
    BY <1>2, <2>2, <2>4
  <2> HIDE DEF h
  <2>6. Is(h, n + 1)
    BY <2>3, <2>5
  <2> QED BY <2>2, <2>6
<1> HIDE DEF Sized
<1>5. Sized = Nat
  <2>1. Sized \in SUBSET Nat
    BY DEF Sized
  <2> QED BY <1>3, <1>4, <2>1, NumberInduction
<1>6. PICK g : Is(g, Cardinality(S))
  BY <1>1, <1>5 DEF Sized
<1>7. Upto(Cardinality(S)) = SUBSET S
  BY FS_Subset
<1>8. \A T \in SUBSET S : g[T] = IF T = {} THEN base ELSE step[<<pick[T], g[T \ {pick[T]}]>>]
  BY <1>6, <1>7
<1>9. g \in [SUBSET S -> V]
  BY <1>6, <1>7
<1> QED BY <1>8, <1>9 DEF Recurs

\* What a function makes of a finite set is finite.
LEMMA FiniteImage ==
  ASSUME NEW S, IsFiniteSet(S), NEW f
  PROVE  IsFiniteSet({f[x] : x \in S})
<1> DEFINE T == {f[x] : x \in S}
           g == [x \in S |-> f[x]]
<1>1. g \in Surjection(S, T)
  BY DEF Surjection
<1> HIDE DEF g
<1> QED BY <1>1, FS_Surjection

\* A nonempty finite set of numbers has a largest element.
LEMMA LargestNumber ==
  ASSUME NEW S \in SUBSET Nat, IsFiniteSet(S), S # {}
  PROVE  \E n \in S : \A m \in S : m <= n
<1> DEFINE F == {T \in SUBSET S : T # {} => \E n \in T : \A m \in T : m <= n}
<1>1. {} \in F
  OBVIOUS
<1>2. ASSUME NEW T \in F, NEW x \in S, x \notin T PROVE T \cup {x} \in F
  <2>1. CASE T = {}
    BY <2>1
  <2>2. CASE T # {}
    <3>1. PICK n \in T : \A m \in T : m <= n
      BY <2>2
    <3>2. \A m \in T \cup {x} : m <= (IF x <= n THEN n ELSE x)
      BY <3>1
    <3>3. (IF x <= n THEN n ELSE x) \in T \cup {x}
      BY <3>1
    <3> QED BY <3>2, <3>3
  <2> QED BY <2>1, <2>2
<1> HIDE DEF F
<1>3. F \in SUBSET SUBSET S
  BY DEF F
<1>4. F = SUBSET S
  BY <1>1, <1>2, <1>3, SubsetInduction
<1>5. S \in F
  BY <1>4
<1> QED BY <1>5 DEF F

\* The larger and the smaller of two instants.
LEMMA MaxMinOfTwo ==
  ASSUME NEW x \in Int, NEW y \in Int
  PROVE  /\ Max({x, y}) = IF x < y THEN y ELSE x
         /\ Min({x, y}) = IF x < y THEN x ELSE y
BY DEF Max, Min

-----------------------------------------------------------------------------
(* Loops over a sequence *)

\* The recursion by which a fold over a sequence is defined: the last element is the
\* last one used.
Loops(g, s, base, step) ==
  g = [T \in SUBSET DOMAIN s |-> IF T = {} THEN base ELSE step[<<s[Max(T)], g[T \ {Max(T)}]>>]]

\* The indices up to n, and the largest of them.
LEMMA FirstIndices ==
  ASSUME NEW m \in Nat
  PROVE  /\ \A T \in SUBSET (1..m) : T # {} => Max(T) \in T
         /\ \A n \in 1..m : /\ 1..n \in SUBSET (1..m) /\ 1..n # {}
                            /\ Max(1..n) = n /\ (1..n) \ {n} = 1..(n - 1)
         /\ 1..0 = {}
<1>1. ASSUME NEW T \in SUBSET (1..m), T # {} PROVE Max(T) \in T
  <2>1. IsFiniteSet(T) /\ T \in SUBSET Nat
    <3>1. IsFiniteSet(1..m) /\ 1..m \in SUBSET Nat
      BY FS_Interval
    <3> QED BY <3>1, FS_Subset
  <2>2. PICK n \in T : \A k \in T : k <= n
    BY <1>1, <2>1, LargestNumber
  <2> QED BY <2>1, <2>2 DEF Max
<1>2. ASSUME NEW n \in 1..m PROVE Max(1..n) = n
  BY DEF Max
<1> QED BY <1>1, <1>2

\* A loop over s that takes every value of V to one of V runs.
LEMMA LoopRuns ==
  ASSUME NEW E, NEW s \in Seq(E), NEW V, NEW base \in V, NEW step \in [E \X V -> V]
  PROVE  \E g : /\ g \in [SUBSET DOMAIN s -> V]
                /\ Loops(g, s, base, step)
<1> DEFINE S == DOMAIN s
           pick == [T \in SUBSET S |-> Max(T)]
           next == [p \in S \X V |-> step[<<s[p[1]], p[2]>>]]
<1>1. S = 1..Len(s) /\ Len(s) \in Nat /\ IsFiniteSet(S) /\ \A i \in S : s[i] \in E
  BY FS_Interval
<1>2. \A T \in SUBSET S : T # {} => pick[T] \in T
  BY <1>1, FirstIndices
<1>3. next \in [S \X V -> V]
  BY <1>1
<1>4. PICK g : Recurs(g, S, V, base, pick, next)
  <2> HIDE DEF S, pick, next
  <2> QED BY <1>1, <1>2, <1>3, SubsetRecursion
<1>5. ASSUME NEW T \in SUBSET S, T # {}
      PROVE  next[<<pick[T], g[T \ {pick[T]}]>>] = step[<<s[Max(T)], g[T \ {Max(T)}]>>]
  <2>1. pick[T] = Max(T) /\ pick[T] \in S /\ g[T \ {pick[T]}] \in V
    BY <1>2, <1>4, <1>5 DEF Recurs
  <2>2. \A a \in S, b \in V : next[<<a, b>>] = step[<<s[a], b>>]
    OBVIOUS
  <2> HIDE DEF S, pick, next
  <2> QED BY <2>1, <2>2
<1> HIDE DEF pick, next
<1>6. Loops(g, s, base, step)
  BY <1>4, <1>5 DEF Recurs, Loops
<1> QED BY <1>4, <1>6 DEF Recurs

-----------------------------------------------------------------------------
(* Sums *)

\* The recursion by which a sum is defined.
Sums(g, f, S) ==
  g = [T \in SUBSET S |->
         IF T = {} THEN 0 ELSE f[CHOOSE x \in T : TRUE] + g[T \ {CHOOSE x \in T : TRUE}]]

\* It has one solution, also on the subsets of a subset.
LEMMA OneSum ==
  ASSUME NEW S, IsFiniteSet(S), NEW f, NEW R \in SUBSET S, NEW g, NEW h, Sums(g, f, S), Sums(h, f, R)
  PROVE  \A T \in SUBSET R : g[T] = h[T]
<1> DEFINE Sized == {n \in Nat : \A T \in SUBSET R : Cardinality(T) = n => g[T] = h[T]}
<1>1. \A T \in SUBSET R : /\ IsFiniteSet(T) /\ Cardinality(T) \in Nat
                          /\ Cardinality(T) = 0 <=> T = {}
  BY FS_Subset, FS_CardinalityType, FS_EmptySet
<1>2. 0 \in Sized
  BY <1>1 DEF Sums
<1>3. ASSUME NEW n \in Sized PROVE n + 1 \in Sized
  <2>1. SUFFICES ASSUME NEW T \in SUBSET R, Cardinality(T) = n + 1 PROVE g[T] = h[T]
    OBVIOUS
  <2>2. PICK c : c = CHOOSE x \in T : TRUE
    OBVIOUS
  <2>3. n \in Nat /\ T # {} /\ c \in T
    BY <1>1, <2>1, <2>2
  <2>4. Cardinality(T \ {c}) = n
    <3> HIDE DEF Sized
    <3>1. Cardinality(T \ {c}) = Cardinality(T) - 1
      BY <1>1, <2>3, FS_RemoveElement
    <3> QED BY <2>1, <2>3, <3>1
  <2>5. g[T \ {c}] = h[T \ {c}]
    BY <2>4
  <2>6. g[T] = f[c] + g[T \ {c}] /\ h[T] = f[c] + h[T \ {c}]
    BY <2>2, <2>3 DEF Sums
  <2> QED BY <2>5, <2>6
<1> HIDE DEF Sized
<1>4. Sized = Nat
  <2>1. Sized \in SUBSET Nat
    BY DEF Sized
  <2> QED BY <1>2, <1>3, <2>1, NumberInduction
<1> QED BY <1>1, <1>4 DEF Sized

\* A sum solves it.
LEMMA SumIsRecursion ==
  ASSUME NEW S, IsFiniteSet(S), NEW f, \A x \in S : f[x] \in Int
  PROVE  \E g : /\ Sums(g, f, S) /\ SumFunctionOnSet(f, S) = g[S]
                /\ \A T \in SUBSET S : g[T] \in Int
<1> DEFINE pick == [T \in SUBSET S |-> CHOOSE x \in T : TRUE]
           step == [p \in S \X Int |-> f[p[1]] + p[2]]
<1>1. \E g : Sums(g, f, S) /\ \A T \in SUBSET S : g[T] \in Int
  <2>1. PICK g : Recurs(g, S, Int, 0, pick, step)
    <3>1. step \in [S \X Int -> Int] /\ \A T \in SUBSET S : T # {} => pick[T] \in T
      OBVIOUS
    <3> HIDE DEF step, pick
    <3> QED BY <3>1, SubsetRecursion
  <2>2. ASSUME NEW T \in SUBSET S, T # {}
        PROVE  step[<<pick[T], g[T \ {pick[T]}]>>]
                 = f[CHOOSE x \in T : TRUE] + g[T \ {CHOOSE x \in T : TRUE}]
    <3>1. pick[T] = (CHOOSE x \in T : TRUE) /\ pick[T] \in S
      BY <2>2
    <3>2. g[T \ {pick[T]}] \in Int
      BY <2>1 DEF Recurs
    <3>3. \A a \in S, b \in Int : step[<<a, b>>] = f[a] + b
      OBVIOUS
    <3> HIDE DEF step, pick
    <3> QED BY <3>1, <3>2, <3>3
  <2> HIDE DEF step, pick
  <2>3. Sums(g, f, S)
    BY <2>1, <2>2 DEF Recurs, Sums
  <2> QED BY <2>1, <2>3 DEF Recurs
<1> DEFINE g == CHOOSE x : Sums(x, f, S)
<1>2. Sums(g, f, S)
  BY <1>1, Zenon
<1>3. SumFunctionOnSet(f, S) = g[S]
  BY Zenon DEF SumFunctionOnSet, FoldFunctionOnSet, MapThenFoldSet, Sums
<1>4. PICK h : Sums(h, f, S) /\ \A T \in SUBSET S : h[T] \in Int
  BY <1>1
<1> HIDE DEF g
<1>5. \A T \in SUBSET S : g[T] = h[T]
  BY <1>2, <1>4, OneSum
<1> QED BY <1>2, <1>3, <1>4, <1>5

\* A sum begins at zero and takes one more term on, whichever it is.
LEMMA SumEmpty ==
  ASSUME NEW f
  PROVE  SumFunctionOnSet(f, {}) = 0
<1>1. IsFiniteSet({})
  BY FS_EmptySet
<1>2. PICK g : Sums(g, f, {}) /\ SumFunctionOnSet(f, {}) = g[{}]
  BY <1>1, SumIsRecursion
<1> QED BY <1>2 DEF Sums

LEMMA SumType ==
  ASSUME NEW S, IsFiniteSet(S), NEW f, \A x \in S : f[x] \in Int
  PROVE  SumFunctionOnSet(f, S) \in Int
BY SumIsRecursion

LEMMA SumInsert ==
  ASSUME NEW S, IsFiniteSet(S), NEW a, a \notin S, NEW f, \A x \in S \cup {a} : f[x] \in Int
  PROVE  SumFunctionOnSet(f, S \cup {a}) = SumFunctionOnSet(f, S) + f[a]
<1> DEFINE U == S \cup {a}
           Sum(T) == SumFunctionOnSet(f, T)
           Sized == {n \in Nat : \A T \in SUBSET U, x \in U :
                        Cardinality(T) = n /\ x \notin T => Sum(T \cup {x}) = Sum(T) + f[x]}
<1>1. IsFiniteSet(U)
  BY FS_AddElement
<1>2. \A T \in SUBSET U : /\ IsFiniteSet(T) /\ Cardinality(T) \in Nat
                          /\ Cardinality(T) = 0 <=> T = {}
                          /\ Sum(T) \in Int
  <2>1. \A T \in SUBSET U : IsFiniteSet(T)
    BY <1>1, FS_Subset
  <2>2. \A T \in SUBSET U : Sum(T) \in Int
    BY <2>1, SumType
  <2> HIDE DEF Sum
  <2> QED BY <2>1, <2>2, FS_CardinalityType, FS_EmptySet
<1>3. ASSUME NEW T \in SUBSET U, T # {}
      PROVE  /\ (CHOOSE x \in T : TRUE) \in T
             /\ Sum(T) = f[CHOOSE x \in T : TRUE] + Sum(T \ {CHOOSE x \in T : TRUE})
  <2> DEFINE c == CHOOSE x \in T : TRUE
  <2>1. c \in T
    BY <1>3
  <2> HIDE DEF c
  <2>2. IsFiniteSet(T) /\ IsFiniteSet(T \ {c}) /\ T \ {c} \in SUBSET T /\ \A x \in T : f[x] \in Int
    BY <1>2
  <2>3. PICK g : Sums(g, f, T) /\ Sum(T) = g[T]
    BY <2>2, SumIsRecursion
  <2>4. PICK h : Sums(h, f, T \ {c}) /\ Sum(T \ {c}) = h[T \ {c}]
    BY <2>2, SumIsRecursion
  <2>5. g[T \ {c}] = h[T \ {c}]
    <3>1. \A Q \in SUBSET (T \ {c}) : g[Q] = h[Q]
      BY <2>2, <2>3, <2>4, OneSum
    <3> QED BY <3>1
  <2>6. g[T] = f[c] + g[T \ {c}]
    BY <1>3, <2>3 DEF Sums, c
  <2> HIDE DEF Sum
  <2> QED BY <2>1, <2>3, <2>4, <2>5, <2>6 DEF c
<1> HIDE DEF Sum
<1>4. 0 \in Sized
  <2>1. ASSUME NEW x \in U PROVE Sum({} \cup {x}) = Sum({}) + f[x]
    <3>1. (CHOOSE y \in {x} : TRUE) = x /\ {x} \ {x} = {} /\ {x} \in SUBSET U /\ f[x] \in Int
      OBVIOUS
    <3>2. Sum({x}) = f[x] + Sum({})
      BY <1>3, <3>1
    <3> QED BY <1>2, <3>1, <3>2
  <2> QED BY <1>2, <2>1
<1>5. ASSUME NEW n \in Sized PROVE n + 1 \in Sized
  <2>1. SUFFICES ASSUME NEW T \in SUBSET U, NEW x \in U, Cardinality(T) = n + 1, x \notin T
                 PROVE  Sum(T \cup {x}) = Sum(T) + f[x]
    OBVIOUS
  <2> DEFINE c == CHOOSE y \in T \cup {x} : TRUE
  <2>2. c \in T \cup {x} /\ Sum(T \cup {x}) = f[c] + Sum((T \cup {x}) \ {c})
    BY <1>3
  <2> HIDE DEF c
  <2>3. CASE c = x
    <3>1. (T \cup {x}) \ {c} = T
      BY <2>1, <2>3
    <3>2. Sum(T) \in Int /\ f[x] \in Int
      BY <1>2, <2>1
    <3>3. Sum(T \cup {x}) = f[x] + Sum(T)
      BY <2>2, <2>3, <3>1, Zenon
    <3> HIDE DEF Sized
    <3> QED BY <3>2, <3>3
  <2>4. CASE c # x
    <3> DEFINE R == T \ {c}
    <3>1. c \in T /\ c \notin R /\ x \notin R /\ R \in SUBSET U /\ R \cup {c} = T
          /\ (T \cup {x}) \ {c} = R \cup {x}
      BY <2>1, <2>2, <2>4
    <3>2. Cardinality(R) = n
      <4> HIDE DEF Sized
      <4>1. Cardinality(T \ {c}) = Cardinality(T) - 1
        BY <1>2, <3>1, FS_RemoveElement
      <4>2. n \in Nat
        BY DEF Sized
      <4> QED BY <2>1, <4>1, <4>2
    <3> HIDE DEF R
    <3>3. Sum(R \cup {x}) = Sum(R) + f[x] /\ Sum(R \cup {c}) = Sum(R) + f[c]
      BY <2>1, <3>1, <3>2
    <3>4. Sum(R) \in Int /\ f[x] \in Int /\ f[c] \in Int
      BY <1>2, <2>1, <3>1
    <3> QED BY <2>2, <3>1, <3>3, <3>4
  <2> QED BY <2>3, <2>4
<1> HIDE DEF Sized
<1>6. Sized = Nat
  <2>1. Sized \in SUBSET Nat
    BY DEF Sized
  <2> QED BY <1>4, <1>5, <2>1, NumberInduction
<1>7. Cardinality(S) \in Nat /\ S \in SUBSET U /\ a \in U
  BY <1>2
<1> QED BY <1>6, <1>7 DEF Sized, Sum

\* A sum of terms that are not negative is not negative.
LEMMA SumNat ==
  ASSUME NEW S, IsFiniteSet(S), NEW f, \A x \in S : f[x] \in Nat
  PROVE  SumFunctionOnSet(f, S) \in Nat
<1> DEFINE F == {T \in SUBSET S : SumFunctionOnSet(f, T) \in Nat}
<1>1. {} \in F
  BY SumEmpty
<1>2. ASSUME NEW T \in F, NEW x \in S, x \notin T PROVE T \cup {x} \in F
  <2>1. IsFiniteSet(T) /\ T \in SUBSET S /\ \A y \in T \cup {x} : f[y] \in Int
    BY FS_Subset
  <2>2. SumFunctionOnSet(f, T \cup {x}) = SumFunctionOnSet(f, T) + f[x]
    BY <1>2, <2>1, SumInsert
  <2> QED BY <2>1, <2>2
<1>3. F \in SUBSET SUBSET S
  OBVIOUS
<1> HIDE DEF F
<1>4. F = SUBSET S
  BY <1>1, <1>2, <1>3, SubsetInduction
<1> QED BY <1>4 DEF F

-----------------------------------------------------------------------------
(* Sums by parts *)

\* A sum depends on the terms alone.
LEMMA SumSame ==
  ASSUME NEW S, IsFiniteSet(S), NEW f \in [S -> Int], NEW g, \A x \in S : g[x] = f[x]
  PROVE  SumFunctionOnSet(g, S) = SumFunctionOnSet(f, S)
<1> DEFINE F == {T \in SUBSET S : SumFunctionOnSet(g, T) = SumFunctionOnSet(f, T)}
<1>1. {} \in F
  BY SumEmpty
<1>2. ASSUME NEW T \in F, NEW x \in S, x \notin T PROVE T \cup {x} \in F
  <2>1. IsFiniteSet(T) /\ \A y \in T \cup {x} : f[y] \in Int /\ g[y] \in Int
    BY FS_Subset
  <2>2. /\ SumFunctionOnSet(f, T \cup {x}) = SumFunctionOnSet(f, T) + f[x]
        /\ SumFunctionOnSet(g, T \cup {x}) = SumFunctionOnSet(g, T) + g[x]
    BY <1>2, <2>1, SumInsert
  <2> QED BY <2>2
<1> HIDE DEF F
<1>3. F = SUBSET S
  <2>1. F \in SUBSET SUBSET S
    BY DEF F
  <2> QED BY <1>1, <1>2, <2>1, SubsetInduction
<1> QED BY <1>3 DEF F

\* The sum over two sets that share nothing.
LEMMA SumUnion ==
  ASSUME NEW S, IsFiniteSet(S), NEW T, IsFiniteSet(T), S \cap T = {}, NEW f,
         \A x \in S \cup T : f[x] \in Int
  PROVE  SumFunctionOnSet(f, S \cup T) = SumFunctionOnSet(f, S) + SumFunctionOnSet(f, T)
<1> DEFINE Sum(R) == SumFunctionOnSet(f, R)
           F == {R \in SUBSET T : Sum(S \cup R) = Sum(S) + Sum(R)}
<1>1. \A R \in SUBSET T : IsFiniteSet(R) /\ IsFiniteSet(S \cup R)
  BY FS_Subset, FS_Union
<1>2. \A R \in SUBSET T : Sum(R) \in Int /\ Sum(S \cup R) \in Int
  <2>1. ASSUME NEW R \in SUBSET T PROVE Sum(R) \in Int /\ Sum(S \cup R) \in Int
    BY <1>1, SumType
  <2> QED BY <2>1
<1>3. Sum(S) \in Int
  BY SumType
<1>4. {} \in F
  <2>1. Sum({}) = 0 /\ S \cup {} = S
    BY SumEmpty
  <2> HIDE DEF Sum
  <2> QED BY <1>3, <2>1
<1>5. ASSUME NEW R \in F, NEW x \in T, x \notin R PROVE R \cup {x} \in F
  <2>1. /\ x \notin S \cup R /\ (S \cup R) \cup {x} = S \cup (R \cup {x}) /\ R \in SUBSET T
        /\ \A y \in (S \cup R) \cup {x} : f[y] \in Int
    BY <1>5
  <2>2. Sum((S \cup R) \cup {x}) = Sum(S \cup R) + f[x]
    BY <1>1, <2>1, SumInsert
  <2>3. Sum(R \cup {x}) = Sum(R) + f[x]
    BY <1>1, <1>5, <2>1, SumInsert
  <2> HIDE DEF Sum
  <2>4. f[x] \in Int /\ Sum(S \cup R) = Sum(S) + Sum(R)
    BY <2>1
  <2>5. Sum(S \cup (R \cup {x})) = Sum(S \cup R) + f[x]
    BY <2>1, <2>2, Zenon
  <2>6. Sum(S \cup (R \cup {x})) = Sum(S) + Sum(R \cup {x})
    <3>1. Sum(R) \in Int
      BY <1>2, <2>1
    <3> HIDE DEF F
    <3> QED BY <1>3, <2>3, <2>4, <2>5, <3>1
  <2> QED BY <1>5, <2>6
<1> HIDE DEF F
<1>6. F = SUBSET T
  <2>1. F \in SUBSET SUBSET T
    BY DEF F
  <2> QED BY <1>4, <1>5, <2>1, SubsetInduction
<1> QED BY <1>6 DEF F

\* The members of C with one key.
Class(C, key, k) == {c \in C : key[c] = k}
\* What those of them that are in R add up to, and how many they are, by key.
Parts(f, C, K, key, R) == [k \in K |-> SumFunctionOnSet(f, Class(C, key, k) \cap R)]
Counts(C, K, key, R) == [k \in K |-> Cardinality(Class(C, key, k) \cap R)]

\* Summed key by key a sum is the same, also over some of the members only.
LEMMA SumByKey ==
  ASSUME NEW C, IsFiniteSet(C), NEW K, IsFiniteSet(K), NEW key \in [C -> K],
         NEW f \in [C -> Int], NEW R
  PROVE  SumFunctionOnSet(Parts(f, C, K, key, R), K) = SumFunctionOnSet(f, C \cap R)
<1> DEFINE part == Parts(f, C, K, key, R)
           Upto(L) == {c \in C \cap R : key[c] \in L}
           F == {L \in SUBSET K : SumFunctionOnSet(part, L) = SumFunctionOnSet(f, Upto(L))}
<1>1. \A L : IsFiniteSet(Upto(L)) /\ IsFiniteSet(Class(C, key, L) \cap R)
  <2>1. \A L : Upto(L) \in SUBSET C /\ Class(C, key, L) \cap R \in SUBSET C
    BY DEF Class
  <2> QED BY <2>1, FS_Subset
<1>2. \A k \in K : part[k] \in Int
  <2>1. ASSUME NEW k \in K PROVE SumFunctionOnSet(f, Class(C, key, k) \cap R) \in Int
    <3>1. \A x \in Class(C, key, k) \cap R : f[x] \in Int
      BY DEF Class
    <3> QED BY <1>1, <3>1, SumType
  <2> QED BY <2>1 DEF Parts
<1>3. {} \in F
  <2>1. Upto({}) = {}
    OBVIOUS
  <2> HIDE DEF Upto, part
  <2> QED BY <2>1, SumEmpty
<1>4. ASSUME NEW L \in F, NEW k \in K, k \notin L PROVE L \cup {k} \in F
  <2>1. /\ Upto(L \cup {k}) = Upto(L) \cup (Class(C, key, k) \cap R)
        /\ Upto(L) \cap (Class(C, key, k) \cap R) = {}
        /\ \A x \in Upto(L) \cup (Class(C, key, k) \cap R) : f[x] \in Int
    BY <1>4 DEF Class
  <2>2. SumFunctionOnSet(f, Upto(L \cup {k}))
          = SumFunctionOnSet(f, Upto(L)) + SumFunctionOnSet(f, Class(C, key, k) \cap R)
    <3> DEFINE own == Class(C, key, k) \cap R
    <3>1. IsFiniteSet(Upto(L)) /\ IsFiniteSet(own)
      BY <1>1
    <3>2. Upto(L) \cap own = {} /\ \A x \in Upto(L) \cup own : f[x] \in Int
      BY <2>1
    <3> HIDE DEF Upto, own, F, part
    <3>3. SumFunctionOnSet(f, Upto(L) \cup own) = SumFunctionOnSet(f, Upto(L)) + SumFunctionOnSet(f, own)
      BY <3>1, <3>2, SumUnion
    <3> QED BY <2>1, <3>3, Zenon DEF own
  <2>3. part[k] = SumFunctionOnSet(f, Class(C, key, k) \cap R)
    BY DEF Parts
  <2> HIDE DEF part
  <2>4. SumFunctionOnSet(part, L \cup {k}) = SumFunctionOnSet(part, L) + part[k]
    <3>1. IsFiniteSet(L) /\ \A x \in L \cup {k} : part[x] \in Int
      BY <1>2, FS_Subset
    <3> QED BY <1>4, <3>1, SumInsert
  <2>5. SumFunctionOnSet(part, L) = SumFunctionOnSet(f, Upto(L))
    OBVIOUS
  <2> HIDE DEF Upto
  <2> QED BY <2>2, <2>3, <2>4, <2>5
<1> HIDE DEF F
<1>5. F = SUBSET K
  <2>1. F \in SUBSET SUBSET K
    BY DEF F
  <2> QED BY <1>3, <1>4, <2>1, SubsetInduction
<1>6. Upto(K) = C \cap R
  OBVIOUS
<1> HIDE DEF part, Upto
<1> QED BY <1>5, <1>6 DEF F, part

\* A set is counted by adding one for each member.
LEMMA CountIsSum ==
  ASSUME NEW S, IsFiniteSet(S), NEW f, \A x \in S : f[x] = 1
  PROVE  SumFunctionOnSet(f, S) = Cardinality(S)
<1> DEFINE F == {T \in SUBSET S : SumFunctionOnSet(f, T) = Cardinality(T)}
<1>1. {} \in F
  BY SumEmpty, FS_EmptySet
<1>2. ASSUME NEW T \in F, NEW x \in S, x \notin T PROVE T \cup {x} \in F
  <2>1. IsFiniteSet(T) /\ \A y \in T \cup {x} : f[y] \in Int
    BY FS_Subset
  <2>2. SumFunctionOnSet(f, T \cup {x}) = SumFunctionOnSet(f, T) + f[x]
    BY <1>2, <2>1, SumInsert
  <2>3. Cardinality(T \cup {x}) = Cardinality(T) + 1
    BY <1>2, <2>1, FS_AddElement
  <2> QED BY <2>2, <2>3
<1> HIDE DEF F
<1>3. F = SUBSET S
  <2>1. F \in SUBSET SUBSET S
    BY DEF F
  <2> QED BY <1>1, <1>2, <2>1, SubsetInduction
<1> QED BY <1>3 DEF F

\* Counted key by key a set has as many members.
LEMMA CountByKey ==
  ASSUME NEW C, IsFiniteSet(C), NEW K, IsFiniteSet(K), NEW key \in [C -> K], NEW R
  PROVE  SumFunctionOnSet(Counts(C, K, key, R), K) = Cardinality(C \cap R)
<1> DEFINE one == [c \in C |-> 1]
<1>1. ASSUME NEW S \in SUBSET C PROVE SumFunctionOnSet(one, S) = Cardinality(S)
  <2>1. IsFiniteSet(S) /\ \A x \in S : one[x] = 1
    BY FS_Subset
  <2> HIDE DEF one
  <2> QED BY <2>1, CountIsSum
<1>2. one \in [C -> Int]
  OBVIOUS
<1> HIDE DEF one
<1>3. Counts(C, K, key, R) = Parts(one, C, K, key, R)
  <2>1. \A k \in K : Class(C, key, k) \cap R \in SUBSET C
    BY DEF Class
  <2>2. \A k \in K : Cardinality(Class(C, key, k) \cap R) = SumFunctionOnSet(one, Class(C, key, k) \cap R)
    BY <1>1, <2>1
  <2> QED BY <2>2, Zenon DEF Counts, Parts
<1>4. SumFunctionOnSet(one, C \cap R) = Cardinality(C \cap R)
  BY <1>1
<1> QED BY <1>2, <1>3, <1>4, SumByKey

\* A sum of zeros.
LEMMA SumOfZeros ==
  ASSUME NEW S, IsFiniteSet(S), NEW f, \A x \in S : f[x] = 0
  PROVE  SumFunctionOnSet(f, S) = 0
<1> DEFINE F == {T \in SUBSET S : SumFunctionOnSet(f, T) = 0}
<1>1. {} \in F
  BY SumEmpty
<1>2. ASSUME NEW T \in F, NEW x \in S, x \notin T PROVE T \cup {x} \in F
  <2>1. IsFiniteSet(T) /\ \A y \in T \cup {x} : f[y] \in Int
    BY FS_Subset
  <2>2. SumFunctionOnSet(f, T \cup {x}) = SumFunctionOnSet(f, T) + f[x]
    BY <1>2, <2>1, SumInsert
  <2> QED BY <2>2
<1> HIDE DEF F
<1>3. F = SUBSET S
  <2>1. F \in SUBSET SUBSET S
    BY DEF F
  <2> QED BY <1>1, <1>2, <2>1, SubsetInduction
<1> QED BY <1>3 DEF F

-----------------------------------------------------------------------------
(* The pairing of recordings with calls *)

\* The call that is offered a recording last is one of the calls.
LEMMA LatestIsOne ==
  ASSUME NEW S \in SUBSET Calls, IsFiniteSet(S), S # {}
  PROVE  Latest(S) \in S
<1> USE RecordingMatchAssumption, MatchInputs
<1> DEFINE Ats == {c.at : c \in S}
<1>1. Ats \in SUBSET Nat /\ Ats # {}
  BY DEF Calls
<1>2. IsFiniteSet(Ats)
  <2> DEFINE at == [c \in S |-> c.at]
  <2>1. Ats = {at[c] : c \in S}
    OBVIOUS
  <2> HIDE DEF at
  <2>2. IsFiniteSet({at[c] : c \in S})
    BY FiniteImage, Zenon
  <2> QED BY <2>1, <2>2, Zenon
<1>3. PICK n \in Ats : \A m \in Ats : m <= n
  BY <1>1, <1>2, LargestNumber
<1>4. PICK c \in S : c.at = n
  OBVIOUS
<1>5. \A d \in S : d.at <= c.at
  BY <1>3, <1>4
<1> QED BY <1>5 DEF Latest

\* The nearest of the recordings that fit is one of them.
LEMMA NearestIsOne ==
  ASSUME NEW c \in Calls, NEW R \in SUBSET Recordings, R # {},
         \A r \in R : Fits(c, r)
  PROVE  Nearest(c, R) \in R
<1> USE RecordingMatchAssumption, MatchInputs
<1>1. \A r \in R : r.at \in Nat /\ Distance(c, r) \in Nat
  <2>1. ASSUME NEW r \in R PROVE r.at \in Nat
    BY <2>1 DEF Fits, Recordings
  <2>2. c.at \in Nat
    BY DEF Calls
  <2> QED BY <2>1, <2>2 DEF Distance
<1> DEFINE Gaps == {Distance(c, r) : r \in R}
<1>2. PICK gap \in Gaps : \A g \in Gaps : gap <= g
  <2>1. Gaps \in SUBSET Nat /\ Gaps # {}
    BY <1>1
  <2> QED BY <2>1, LeastNumber
<1> DEFINE Near == {r \in R : Distance(c, r) = gap}
           Ats == {r.at : r \in Near}
<1>3. PICK at \in Ats : \A t \in Ats : at <= t
  <2>1. Ats \in SUBSET Nat /\ Ats # {}
    BY <1>1
  <2> QED BY <2>1, LeastNumber
<1>4. PICK r \in Near : r.at = at
  OBVIOUS
<1>5. ASSUME NEW o \in R
      PROVE  \/ Distance(c, r) < Distance(c, o)
             \/ Distance(c, r) = Distance(c, o) /\ r.at <= o.at
  <2>1. Distance(c, o) \in Nat /\ Distance(c, r) \in Nat /\ Distance(c, r) <= Distance(c, o)
    BY <1>1, <1>2
  <2>2. CASE Distance(c, o) = gap
    BY <1>3, <1>4, <2>2
  <2>3. CASE Distance(c, o) # gap
    BY <2>1, <2>3
  <2> QED BY <2>2, <2>3
<1> QED BY <1>5 DEF Nearest

\* What holds of the pairs m once the calls S have been offered the recordings R.
Paired(m, S, R) ==
  /\ m \subseteq S \X R
  /\ \A p, q \in m : p[1] = q[1] <=> p[2] = q[2]
  /\ \A p \in m : Fits(p[1], p[2])
  /\ \A c \in S, r \in R : Fits(c, r) => \E p \in m : p[1] = c \/ p[2] = r

\* Offering the free recordings to one more call keeps this.
LEMMA OfferKeepsPaired ==
  ASSUME NEW R \in SUBSET Recordings, NEW S \in SUBSET Calls, NEW c \in Calls \ S,
         NEW m, Paired(m, S, R)
  PROVE  Paired(OfferTo(m, c, R), S \cup {c}, R)
<1> USE RecordingMatchAssumption, MatchInputs
<1> DEFINE fitting == {r \in Free(m, R) : Fits(c, r)}
           n == Nearest(c, fitting)
<1>1. fitting \subseteq R /\ \A r \in fitting : ~\E p \in m : p[2] = r
  BY DEF Free, TakenBy
<1>2. \A r \in R : Fits(c, r) => r \in fitting \/ \E p \in m : p[2] = r
  BY DEF Free, TakenBy
<1>3. CASE fitting = {}
  <2>1. OfferTo(m, c, R) = m
    BY <1>3 DEF OfferTo
  <2> QED BY <1>2, <1>3, <2>1 DEF Paired
<1>4. CASE fitting # {}
  <2>1. n \in fitting
    BY <1>1, <1>4, NearestIsOne
  <2>2. OfferTo(m, c, R) = m \cup {<<c, n>>}
    BY <1>4 DEF OfferTo
  <2>3. n \in R /\ Fits(c, n) /\ ~\E p \in m : p[2] = n
    BY <1>1, <2>1
  <2>4. ~\E p \in m : p[1] = c
    BY DEF Paired
  <2> HIDE DEF n, fitting
  <2>5. m \cup {<<c, n>>} \subseteq (S \cup {c}) \X R
    BY <2>3 DEF Paired
  <2>6. \A p, q \in m \cup {<<c, n>>} : p[1] = q[1] <=> p[2] = q[2]
    BY <2>3, <2>4 DEF Paired
  <2>7. \A p \in m \cup {<<c, n>>} : Fits(p[1], p[2])
    BY <2>3 DEF Paired
  <2>8. \A d \in S \cup {c}, r \in R : Fits(d, r) => \E p \in m \cup {<<c, n>>} : p[1] = d \/ p[2] = r
    <3>1. <<c, n>> \in m \cup {<<c, n>>} /\ <<c, n>>[1] = c
      OBVIOUS
    <3>2. \A d \in S, r \in R : Fits(d, r) => \E p \in m : p[1] = d \/ p[2] = r
      BY DEF Paired
    <3> QED BY <3>1, <3>2
  <2> QED BY <2>2, <2>5, <2>6, <2>7, <2>8 DEF Paired
<1> QED BY <1>3, <1>4

\* So it holds of the pairs of all calls.
LEMMA MatchIsPaired ==
  ASSUME NEW C \in SUBSET Calls, IsFiniteSet(C), NEW R \in SUBSET Recordings
  PROVE  Paired(Match(C, R), C, R)
<1> USE RecordingMatchAssumption, MatchInputs
<1> DEFINE V == SUBSET (C \X R)
           pick == [S \in SUBSET C |-> Latest(S)]
           step == [p \in C \X V |-> OfferTo(p[2], p[1], R)]
           Is(g) == g = [S \in SUBSET C |->
                           IF S = {} THEN {} ELSE OfferTo(g[S \ {Latest(S)}], Latest(S), R)]
<1>1. \A S \in SUBSET C : IsFiniteSet(S) /\ (S # {} => Latest(S) \in S)
  BY FS_Subset, LatestIsOne
<1>2. step \in [C \X V -> V]
  <2>1. ASSUME NEW c \in C, NEW m \in V PROVE OfferTo(m, c, R) \in V
    <3> DEFINE fitting == {r \in Free(m, R) : Fits(c, r)}
    <3>1. fitting \in SUBSET Recordings /\ fitting \subseteq R
      BY DEF Free
    <3>2. fitting # {} => Nearest(c, fitting) \in fitting
      BY <3>1, NearestIsOne
    <3>3. \/ OfferTo(m, c, R) = m
          \/ fitting # {} /\ OfferTo(m, c, R) = m \cup {<<c, Nearest(c, fitting)>>}
      BY DEF OfferTo
    <3> HIDE DEF fitting
    <3> QED BY <3>1, <3>2, <3>3
  <2> QED BY <2>1
<1>3. \E g : Is(g)
  <2>1. PICK g : Recurs(g, C, V, {}, pick, step)
    <3>1. {} \in V /\ \A S \in SUBSET C : S # {} => pick[S] \in S
      BY <1>1
    <3> HIDE DEF V, pick, step
    <3> QED BY <1>2, <3>1, SubsetRecursion, Zenon
  <2>2. ASSUME NEW S \in SUBSET C, S # {}
        PROVE  step[<<pick[S], g[S \ {pick[S]}]>>] = OfferTo(g[S \ {Latest(S)}], Latest(S), R)
    BY <1>1, <2>1, <2>2 DEF Recurs
  <2> HIDE DEF step, pick
  <2>3. Is(g)
    BY <2>1, <2>2 DEF Recurs
  <2> QED BY <2>3, Zenon
<1> DEFINE g == CHOOSE x : Is(x)
           Sized == {n \in Nat : \A S \in SUBSET C : Cardinality(S) = n => Paired(g[S], S, R)}
<1>4. Is(g)
  BY <1>3, Zenon
<1>5. Match(C, R) = g[C]
  BY Zenon DEF Match
<1> HIDE DEF g
<1>6. 0 \in Sized
  <2>1. ASSUME NEW S \in SUBSET C, Cardinality(S) = 0 PROVE Paired(g[S], S, R)
    <3>1. S = {}
      BY <1>1, <2>1, FS_EmptySet
    <3>2. g[S] = {}
      BY <1>4, <3>1
    <3> QED BY <3>1, <3>2 DEF Paired
  <2> QED BY <2>1
<1>7. ASSUME NEW n \in Sized PROVE n + 1 \in Sized
  <2>1. SUFFICES ASSUME NEW S \in SUBSET C, Cardinality(S) = n + 1 PROVE Paired(g[S], S, R)
    OBVIOUS
  <2> DEFINE c == Latest(S)
             Before == S \ {c}
  <2>2. n \in Nat /\ IsFiniteSet(S)
    BY <1>1
  <2>3. S # {} /\ c \in S
    BY <1>1, <2>1, <2>2, FS_EmptySet
  <2>4. Cardinality(Before) = n
    <3> HIDE DEF c, Sized
    <3>1. Cardinality(S \ {c}) = Cardinality(S) - 1
      BY <2>2, <2>3, FS_RemoveElement
    <3> QED BY <2>1, <2>2, <3>1
  <2>5. Paired(g[Before], Before, R)
    BY <2>4
  <2>6. g[S] = OfferTo(g[Before], c, R)
    BY <1>4, <2>3
  <2>7. Before \cup {c} = S /\ c \in Calls \ Before /\ Before \in SUBSET Calls
    BY <2>3
  <2> HIDE DEF c, Before
  <2> QED BY <2>5, <2>6, <2>7, OfferKeepsPaired
<1> HIDE DEF Sized
<1>8. Sized = Nat
  <2>1. Sized \in SUBSET Nat
    BY DEF Sized
  <2> QED BY <1>6, <1>7, <2>1, NumberInduction
<1>9. Paired(g[C], C, R)
  BY <1>8, FS_CardinalityType DEF Sized
<1> QED BY <1>5, <1>9

\* The tables of the matching hold what they may and are finite.
MatchTables ==
  /\ calls \subseteq Calls /\ IsFiniteSet(calls)
  /\ recordings \subseteq Recordings /\ IsFiniteSet(recordings)

LEMMA MatchTablesInvariant == MatchSpec => []MatchTables
<1> USE RecordingMatchAssumption, MatchInputs
<1>1. MatchInit => MatchTables
  BY FS_EmptySet DEF MatchInit, MatchTables
<1>2. MatchTables /\ [MatchNext]_matchVars => MatchTables'
  <2>1. SUFFICES ASSUME MatchTables, [MatchNext]_matchVars PROVE MatchTables'
    OBVIOUS
  <2>2. CASE AddCall
    BY <2>1, <2>2, FS_AddElement DEF AddCall, MatchTables
  <2>3. CASE AddRecording
    BY <2>1, <2>3, FS_AddElement DEF AddRecording, MatchTables
  <2>4. CASE UNCHANGED matchVars
    BY <2>1, <2>4 DEF MatchTables, matchVars
  <2> QED BY <2>1, <2>2, <2>3, <2>4 DEF MatchNext
<1> QED BY <1>1, <1>2, PTL DEF MatchSpec

\* A recording is given to one call and a call gets one recording, and the two
\* have numbers that agree and times within the window (matchRecordingsToCalls).
THEOREM MatchingSound == MatchSpec => []MatchIsSound
<1> USE RecordingMatchAssumption, MatchInputs
<1>1. MatchTables => MatchIsSound
  <2>1. SUFFICES ASSUME MatchTables PROVE MatchIsSound
    OBVIOUS
  <2>2. Paired(Matched, calls, recordings)
    BY <2>1, MatchIsPaired DEF MatchTables, Matched
  <2> QED BY <2>2 DEF Paired, MatchIsSound, Fits, SameNumber
<1> QED BY <1>1, MatchTablesInvariant, PTL

\* No recording that fits a call is left over while the call is; and the only pair
\* of a call and of a recording is made (matchRecordingsToCalls).
THEOREM MatchingComplete == MatchSpec => []MatchIsComplete
<1> USE RecordingMatchAssumption, MatchInputs
<1>1. MatchTables => MatchIsComplete
  <2>1. SUFFICES ASSUME MatchTables PROVE MatchIsComplete
    OBVIOUS
  <2>2. Paired(Matched, calls, recordings)
    BY <2>1, MatchIsPaired DEF MatchTables, Matched
  <2>3. ASSUME NEW c \in calls, NEW r \in recordings, Fits(c, r)
        PROVE  \E p \in Matched : p[1] = c \/ p[2] = r
    BY <2>2, <2>3 DEF Paired
  <2>4. ASSUME NEW c \in calls, NEW r \in recordings, Fits(c, r),
               \A d \in calls : Fits(d, r) => d = c,
               \A s \in recordings : Fits(c, s) => s = r
        PROVE  <<c, r>> \in Matched
    <3>1. PICK p \in Matched : p[1] = c \/ p[2] = r
      BY <2>3, <2>4
    <3>2. p \in calls \X recordings /\ Fits(p[1], p[2])
      BY <2>2 DEF Paired
    <3>3. p[1] = c /\ p[2] = r
      BY <2>4, <3>1, <3>2
    <3> QED BY <3>2, <3>3
  <2> QED BY <2>3, <2>4 DEF MatchIsComplete
<1> QED BY <1>1, MatchTablesInvariant, PTL

\* Whatever is written before the last SuffixDigits digits, a call and a recording
\* of the same time that end alike are not both left over (sameNumber).
THEOREM PrefixesIgnored == MatchSpec => []PrefixIgnored
<1> USE RecordingMatchAssumption, MatchInputs
<1>1. MatchTables => PrefixIgnored
  <2>1. SUFFICES ASSUME MatchTables, NEW c \in calls, NEW r \in recordings,
                        r.at # NoTime, Distance(c, r) <= MatchWindow,
                        Len(r.num) >= SuffixDigits, Len(c.num) >= SuffixDigits,
                        LastDigits(r.num, SuffixDigits) = LastDigits(c.num, SuffixDigits)
                 PROVE  \E p \in Matched : p[1] = c \/ p[2] = r
    BY DEF PrefixIgnored
  <2>2. Paired(Matched, calls, recordings)
    BY <2>1, MatchIsPaired DEF MatchTables, Matched
  <2>3. c.num \in Seq(Nat) /\ r.num \in Seq(Nat)
    BY <2>1 DEF MatchTables, Calls, Recordings, NoNumber
  <2>4. Least(SuffixDigits, Least(Len(r.num), Len(c.num))) = SuffixDigits
    BY <2>1, <2>3 DEF Least
  <2>5. c.num # NoNumber /\ r.num # NoNumber
    BY <2>1, <2>3 DEF NoNumber
  <2>6. SameNumber(r.num, c.num)
    BY <2>1, <2>4, <2>5 DEF SameNumber
  <2> QED BY <2>1, <2>2, <2>6 DEF Paired, Fits
<1> QED BY <1>1, MatchTablesInvariant, PTL

-----------------------------------------------------------------------------
(* The spellings of a telephone number *)

LEMMA PrefixesAssociate ==
  ASSUME NEW a \in Seq(Nat), NEW b \in Seq(Nat), NEW c \in Seq(Nat)
  PROVE  (a \o b) \o c = a \o (b \o c)
BY ConcatAssociative, SMT

\* A prefix agrees with the whole as far as it goes.
LEMMA PrefixElements ==
  ASSUME NEW p \in Seq(Nat), NEW d \in Seq(Nat), IsPrefix(p, d)
  PROVE  Len(p) <= Len(d) /\ \A i \in 1..Len(p) : p[i] = d[i]
<1> USE PhoneNumbersAssumption, NumbersAssumption
<1>1. Len(p) <= Len(d) /\ SubSeq(p, 1, Len(p)) = SubSeq(d, 1, Len(p))
  BY DEF IsPrefix
<1>2. Len(p) \in Nat
  OBVIOUS
<1>3. ASSUME NEW i \in 1..Len(p) PROVE p[i] = d[i]
  <2>1. SubSeq(p, 1, Len(p))[i] = p[i]
    OBVIOUS
  <2>2. SubSeq(d, 1, Len(p))[i] = d[i]
    BY <1>1
  <2> QED BY <1>1, <2>1, <2>2
<1> QED BY <1>1, <1>3

\* What is put in front is a prefix, and without it the rest is left.
LEMMA PrefixOfConcat ==
  ASSUME NEW p \in Seq(Nat), NEW n \in Seq(Nat)
  PROVE  IsPrefix(p, p \o n) /\ Without(p, p \o n) = n
<1> USE PhoneNumbersAssumption, NumbersAssumption
<1>1. Len(p \o n) = Len(p) + Len(n) /\ Len(p) \in Nat /\ Len(n) \in Nat /\ p \o n \in Seq(Nat)
  OBVIOUS
<1>2. SubSeq(p \o n, 1, Len(p)) = SubSeq(p, 1, Len(p))
  BY <1>1
<1>3. SubSeq(p \o n, Len(p) + 1, Len(p \o n)) = n
  <2>1. SubSeq(p \o n, Len(p) + 1, Len(p \o n))
          = SubSeq(n, Len(p) + 1 - Len(p), Len(p \o n) - Len(p))
    BY <1>1, SubSeqOfConcat2
  <2>2. Len(p) + 1 - Len(p) = 1 /\ Len(p \o n) - Len(p) = Len(n)
    BY <1>1
  <2> QED BY <2>1, <2>2, SubSeqFull
<1> QED BY <1>1, <1>2, <1>3 DEF IsPrefix, Without

\* A number in E.164 is stored as itself.
LEMMA StoredAsItself ==
  ASSUME NEW s, Normalize(s) # Invalid
  PROVE  Normalize(Plus(Normalize(s))) = Normalize(s)
BY PhoneNumbersAssumption, NumbersAssumption DEF Normalize, Plus, Invalid

\* The ways to dial a national number that does not begin like the country code.
LEMMA DialledOneWay ==
  ASSUME NEW n \in Seq(Nat), Len(n) = NationalLength, Head(n) # 0, ~IsPrefix(CountryCode, n),
         NEW s \in SpellingsOf(n)
  PROVE  Normalize(s) = CountryCode \o n
<1> USE PhoneNumbersAssumption, NumbersAssumption
<1> DEFINE whole == CountryCode \o n
<1>1. /\ CountryCode \in Seq(Nat) /\ Len(CountryCode) \in Nat \ {0} /\ CountryCode[1] # 0
      /\ Len(n) \in Nat \ {0} /\ n[1] # 0
  OBVIOUS
<1>2. /\ whole \in Seq(Nat) /\ whole[1] = CountryCode[1] /\ Len(whole) = Len(CountryCode) + Len(n)
      /\ MinDigits <= Len(whole) /\ Len(whole) <= MaxDigits /\ Plausible(whole)
      /\ whole # <<>> /\ Head(whole) # 0
  <2>1. whole \in Seq(Nat) /\ Len(whole) = Len(CountryCode) + Len(n) /\ whole[1] = CountryCode[1]
    <3>1. /\ whole \in Seq(Nat) /\ Len(whole) = Len(CountryCode) + Len(n)
          /\ \A i \in 1..(Len(CountryCode) + Len(n)) :
               whole[i] = IF i <= Len(CountryCode) THEN CountryCode[i] ELSE n[i - Len(CountryCode)]
      BY <1>1, ConcatProperties, Zenon
    <3> HIDE DEF whole
    <3> QED BY <1>1, <3>1
  <2>2. whole # <<>> /\ Head(whole) = whole[1]
    BY <1>1, <2>1
  <2>3. MinPlausible <= Len(whole) /\ Len(whole) <= MaxDigits /\ MinDigits <= Len(whole)
    BY <1>1, <2>1
  <2> HIDE DEF whole
  <2> QED BY <1>1, <2>1, <2>2, <2>3 DEF Plausible
<1>3. \A d \in Seq(Nat) : d[1] # 0 \/ d[2] # 0 => ~IsPrefix(<<0, 0>>, d)
  <2>1. SUFFICES ASSUME NEW d \in Seq(Nat), IsPrefix(<<0, 0>>, d), d[1] # 0 \/ d[2] # 0 PROVE FALSE
    OBVIOUS
  <2>2. <<0, 0>> \in Seq(Nat) /\ 1 \in 1..Len(<<0, 0>>) /\ 2 \in 1..Len(<<0, 0>>)
    OBVIOUS
  <2> QED BY <2>1, <2>2, PrefixElements
<1>4. CASE s = Plus(whole)
  <2> HIDE DEF whole
  <2>1. Normalize(s) = whole
    BY <1>2, <1>4 DEF Normalize, Plus
  <2> QED BY <2>1 DEF whole
<1>5. CASE s = Plain(<<0, 0>> \o whole)
  <2>1. IsPrefix(<<0, 0>>, <<0, 0>> \o whole) /\ Without(<<0, 0>>, <<0, 0>> \o whole) = whole
    <3> HIDE DEF whole
    <3>1. <<0, 0>> \in Seq(Nat)
      OBVIOUS
    <3> QED BY <1>2, <3>1, PrefixOfConcat, Zenon
  <2>2. <<0, 0>> \o whole # <<>>
    BY <1>2
  <2> HIDE DEF whole
  <2>3. Normalize(s) = whole
    BY <1>2, <1>5, <2>1, <2>2 DEF Normalize, Plain
  <2> QED BY <2>3 DEF whole
<1>6. ~IsPrefix(<<0, 0>>, whole)
  <2> HIDE DEF whole
  <2> QED BY <1>1, <1>2, <1>3
<1>7. IsPrefix(CountryCode, whole) /\ Without(CountryCode, whole) = n
  BY <1>1, PrefixOfConcat
<1>8. National(whole) = whole
  <2>1. CASE Trunk = CountryCode
    BY <1>2, <1>7, <2>1 DEF National
  <2>2. CASE Trunk = <<>>
    <3>1. Without(Trunk, whole) = whole
      BY <1>2, <2>2, SubSeqFull DEF Without
    <3> HIDE DEF whole
    <3> QED BY <1>2, <1>7, <3>1 DEF National
  <2>3. CASE Trunk = <<0>>
    <3>1. ~IsPrefix(<<0>>, whole)
      <4>1. <<0>> \in Seq(Nat) /\ 1 \in 1..Len(<<0>>)
        OBVIOUS
      <4> HIDE DEF whole
      <4> QED BY <1>1, <1>2, <4>1, PrefixElements
    <3> QED BY <1>2, <1>7, <2>3, <3>1 DEF National
  <2> QED BY <2>1, <2>2, <2>3
<1>9. CASE s = Plain(whole)
  <2> HIDE DEF whole
  <2>1. Normalize(s) = whole
    BY <1>2, <1>6, <1>8, <1>9 DEF Normalize, Plain
  <2> QED BY <2>1 DEF whole
<1>10. CASE s = Plain(n)
  <2>1. National(n) = whole
    <3>1. CASE Trunk = CountryCode
      BY <3>1 DEF National
    <3>2. CASE Trunk = <<>>
      <4>1. Without(Trunk, n) = n
        BY <3>2, SubSeqFull DEF Without
      <4> QED BY <4>1 DEF National
    <3>3. CASE Trunk = <<0>>
      <4>1. ~IsPrefix(<<0>>, n)
        <5>1. <<0>> \in Seq(Nat) /\ 1 \in 1..Len(<<0>>)
          OBVIOUS
        <5> QED BY <1>1, <5>1, PrefixElements
      <4> QED BY <3>3, <4>1 DEF National
    <3> QED BY <3>1, <3>2, <3>3
  <2>2. n # <<>> /\ ~IsPrefix(<<0, 0>>, n)
    BY <1>1, <1>3
  <2> HIDE DEF whole
  <2>3. Normalize(s) = whole
    BY <1>2, <1>10, <2>1, <2>2 DEF Normalize, Plain
  <2> QED BY <2>3 DEF whole
<1>11. CASE s = Plain(Trunk \o n)
  <2>1. CASE Trunk = CountryCode
    BY <1>9, <1>11, <2>1
  <2>2. CASE Trunk = <<>>
    <3>1. Trunk \o n = n
      BY <2>2, ConcatEmptySeq
    <3> QED BY <1>10, <1>11, <3>1
  <2>3. CASE Trunk = <<0>>
    <3> DEFINE dialled == <<0>> \o n
    <3>1. /\ IsPrefix(<<0>>, dialled) /\ Without(<<0>>, dialled) = n
      <4>1. <<0>> \in Seq(Nat)
        OBVIOUS
      <4> QED BY <4>1, PrefixOfConcat
    <3>2. dialled \in Seq(Nat) /\ Len(dialled) = 1 + Len(n) /\ dialled[2] = n[1] /\ dialled # <<>>
      BY <1>1
    <3>3. Len(dialled) > Len(<<0>>) /\ ~IsPrefix(<<0, 0>>, dialled)
      <4> HIDE DEF dialled
      <4>1. Len(dialled) > Len(<<0>>)
        BY <1>1, <3>2
      <4> QED BY <1>1, <1>3, <3>2, <4>1
    <3> HIDE DEF dialled
    <3>4. National(dialled) = whole
      BY <2>3, <3>1, <3>3 DEF National
    <3> HIDE DEF whole
    <3>5. Normalize(Plain(dialled)) = whole
      BY <1>2, <3>2, <3>3, <3>4 DEF Normalize, Plain
    <3> QED BY <1>11, <2>3, <3>5 DEF whole, dialled
  <2> QED BY <2>1, <2>2, <2>3
<1>12. <<0, 0>> \o CountryCode \o n = <<0, 0>> \o whole
  <2> DEFINE zeros == <<0, 0>>
  <2>1. zeros \in Seq(Nat)
    OBVIOUS
  <2> HIDE DEF zeros
  <2>2. (zeros \o CountryCode) \o n = zeros \o (CountryCode \o n)
    BY <1>1, <2>1, PrefixesAssociate, Zenon
  <2> QED BY <2>2 DEF zeros
<1> HIDE DEF whole
<1>13. s \in {Plain(n), Plain(Trunk \o n), Plain(whole), Plus(whole), Plain(<<0, 0>> \o whole)}
  BY <1>12 DEF SpellingsOf, whole
<1> QED BY <1>4, <1>5, <1>9, <1>10, <1>11, <1>13

\* A spelling is a row of digits.
LEMMA TypedInvariant == NumbersSpec => [](typed \in [plus : BOOLEAN, digits : Seq(Nat)])
<1> USE PhoneNumbersAssumption, NumbersAssumption
<1> DEFINE Typed == typed \in [plus : BOOLEAN, digits : Seq(Nat)]
<1>1. NumbersInit => Typed
  BY DEF NumbersInit
<1>2. Typed /\ [NumbersNext]_typed => Typed'
  <2>1. SUFFICES ASSUME Typed, NumbersNext PROVE Typed'
    OBVIOUS
  <2>2. CASE TypePlus
    BY <2>1, <2>2 DEF TypePlus
  <2>3. CASE TypeDigit
    <3>1. PICK d \in Digits : typed' = [typed EXCEPT !.digits = Append(@, d)]
      BY <2>3 DEF TypeDigit
    <3>2. Append(typed.digits, d) \in Seq(Nat)
      BY <2>1
    <3> QED BY <2>1, <3>1, <3>2
  <2> QED BY <2>1, <2>2, <2>3 DEF NumbersNext
<1> QED BY <1>1, <1>2, PTL DEF NumbersSpec

\* Numbers "only match if they are stored one way": a stored number is stored as
\* itself again, and every way to dial a national number is stored as one
\* (normalize).
THEOREM NumbersStoredOneWay == NumbersSpec => []StoredOneWay
<1> USE PhoneNumbersAssumption, NumbersAssumption
<1> DEFINE Typed == typed \in [plus : BOOLEAN, digits : Seq(Nat)]
<1>1. Typed => StoredOneWay
  <2> DEFINE n == typed.digits
  <2>1. SUFFICES ASSUME Typed PROVE StoredOneWay
    OBVIOUS
  <2>2. Normalize(typed) # Invalid => Normalize(Plus(Normalize(typed))) = Normalize(typed)
    BY StoredAsItself
  <2>3. ASSUME ~typed.plus, Len(n) = NationalLength, Head(n) # 0, ~IsPrefix(CountryCode, n)
        PROVE  {Normalize(s) : s \in SpellingsOf(n)} = {CountryCode \o n}
    <3>1. \A s \in SpellingsOf(n) : Normalize(s) = CountryCode \o n
      BY <2>1, <2>3, DialledOneWay
    <3>2. Plain(n) \in SpellingsOf(n)
      BY DEF SpellingsOf
    <3> QED BY <3>1, <3>2
  <2> QED BY <2>2, <2>3 DEF StoredOneWay
<1> QED BY <1>1, TypedInvariant, PTL

-----------------------------------------------------------------------------
(* The buckets of a chart *)

\* The buckets of one length tile the line: an instant lies in the bucket that
\* begins at its floor.
LEMMA FloorBelow ==
  ASSUME NEW b \in DOMAIN BucketLength, NEW t \in Int
  PROVE  /\ BucketLength[b] \in Nat \ {0}
         /\ Floor(t, b) \in Int /\ Floor(t, b) <= t /\ t < Floor(t, b) + BucketLength[b]
         /\ \E k \in Int : Floor(t, b) = k * BucketLength[b]
<1> USE FiguresAssumption
<1> DEFINE L == BucketLength[b]
<1>1. L \in Nat \ {0}
  BY DEF BucketLength
<1> HIDE DEF L
<1>2. PICK q \in Int, m \in 0..(L - 1) : t = L * q + m /\ m = t % L
  <2> DEFINE d == t \div L
             r == t % L
  <2>1. d \in Int /\ r \in 0..(L - 1) /\ t = L * d + r
    BY <1>1
  <2> HIDE DEF d
  <2> QED BY <2>1
<1>3. Floor(t, b) = t - m
  BY <1>2 DEF Floor, L
<1>4. Floor(t, b) = q * L
  <2>1. L * q \in Int /\ L * q = q * L /\ m \in Int
    BY <1>1
  <2> QED BY <1>2, <1>3, <2>1
<1>5. Floor(t, b) \in Int /\ Floor(t, b) <= t /\ t < Floor(t, b) + L
  <2>1. m \in Nat /\ m < L
    BY <1>1
  <2> QED BY <1>1, <1>3, <2>1
<1>6. \E k \in Int : Floor(t, b) = k * L
  BY <1>4
<1> QED BY <1>1, <1>5, <1>6 DEF L

\* A number of whole lengths is its own floor.
LEMMA FloorOfMultiple ==
  ASSUME NEW b \in DOMAIN BucketLength, NEW k \in Int
  PROVE  Floor(k * BucketLength[b], b) = k * BucketLength[b]
<1> USE FiguresAssumption
<1> DEFINE L == BucketLength[b]
<1>1. L \in Nat \ {0}
  BY DEF BucketLength
<1> HIDE DEF L
<1>2. k * L \in Int
  BY <1>1
<1>3. (k * L) % L = 0
  BY <1>1, <1>2
<1> QED BY <1>2, <1>3 DEF Floor, L

\* Fewer lengths are a shorter way.
LEMMA FewerLengths ==
  ASSUME NEW L \in Nat \ {0}, NEW m \in Int, NEW n \in Int, m * L < n * L
  PROVE  m < n
<1> USE FiguresAssumption
<1>1. ASSUME m >= n PROVE m * L >= n * L
  <2>1. (m - n) * L >= 0 /\ (m - n) * L = m * L - n * L
    BY <1>1
  <2> QED BY <2>1
<1>2. m * L \in Int /\ n * L \in Int
  OBVIOUS
<1> QED BY <1>1, <1>2

\* An instant between where a bucket begins and where it ends lies in that bucket.
LEMMA SameBucket ==
  ASSUME NEW b \in DOMAIN BucketLength, NEW t \in Int, NEW k \in Int,
         k * BucketLength[b] <= t, t < k * BucketLength[b] + BucketLength[b]
  PROVE  Floor(t, b) = k * BucketLength[b]
<1> DEFINE L == BucketLength[b]
<1>1. L \in Nat \ {0} /\ Floor(t, b) \in Int /\ Floor(t, b) <= t /\ t < Floor(t, b) + L
  BY FloorBelow
<1>2. PICK j \in Int : Floor(t, b) = j * L
  BY FloorBelow
<1> HIDE DEF L
<1>3. /\ j * L \in Int /\ k * L \in Int
      /\ (j + 1) * L = j * L + L /\ (k + 1) * L = k * L + L
  BY <1>1
<1>4. j * L < (k + 1) * L /\ k * L < (j + 1) * L
  BY <1>1, <1>2, <1>3 DEF L
<1>5. j < k + 1 /\ k < j + 1
  BY <1>1, <1>4, FewerLengths
<1>6. j = k
  BY <1>5
<1> QED BY <1>2, <1>6 DEF L

\* A window that leaves room for one more bucket below the cap has a bucket for each
\* of its instants, and none besides.
LEMMA BucketsTile ==
  ASSUME NEW b \in DOMAIN BucketLength, NEW w, w.from \in Int, w.till \in Int, w.from <= w.till,
         (w.till - w.from) + BucketLength[b] <= MaxBuckets * BucketLength[b]
  PROVE  BucketRange(w, b) = {Floor(t, b) : t \in w.from..w.till}
<1> USE FiguresAssumption
<1> DEFINE L == BucketLength[b]
           first == Floor(w.from, b)
           last == Floor(w.till, b)
<1>1. L \in Nat \ {0} /\ first \in Int /\ first <= w.from /\ w.from < first + L
      /\ last \in Int /\ last <= w.till /\ w.till < last + L
  BY FloorBelow
<1>2. PICK j \in Int : first = j * L
  BY FloorBelow
<1>3. ASSUME NEW k \in 0..(MaxBuckets - 1), first + k * L <= last
      PROVE  \E t \in w.from..w.till : Floor(t, b) = first + k * L
  <2>1. CASE k = 0
    <3>1. first + k * L = first
      BY <1>1, <2>1
    <3>2. w.from \in w.from..w.till
      OBVIOUS
    <3> QED BY <3>1, <3>2
  <2>2. CASE k # 0
    <3> DEFINE t == first + k * L
    <3>1. k \in Nat /\ k >= 1 /\ L \in Nat
      BY <1>1, <2>2
    <3>2. k * L \in Nat /\ k * L >= L
      BY <3>1
    <3>3. t \in w.from..w.till
      BY <1>1, <1>3, <3>2
    <3>4. t = (j + k) * L /\ j + k \in Int
      BY <1>1, <1>2, <3>1
    <3>5. Floor(t, b) = t
      BY <3>4, FloorOfMultiple
    <3> QED BY <3>3, <3>5
  <2> QED BY <2>1, <2>2
<1>4. ASSUME NEW t \in w.from..w.till
      PROVE  /\ \E k \in 0..(MaxBuckets - 1) : Floor(t, b) = first + k * L
             /\ Floor(t, b) <= last
  <2>1. /\ Floor(t, b) \in Int /\ Floor(t, b) <= t /\ t < Floor(t, b) + L
    BY FloorBelow
  <2>2. PICK i \in Int : Floor(t, b) = i * L
    BY FloorBelow
  <2>3. PICK h \in Int : last = h * L
    BY FloorBelow
  <2> HIDE DEF L, first, last
  <2>4. /\ i * L \in Int /\ j * L \in Int /\ h * L \in Int /\ MaxBuckets * L \in Int
        /\ (j - 1) * L = j * L - L /\ (h + 1) * L = h * L + L
        /\ (j + MaxBuckets) * L = j * L + MaxBuckets * L /\ j + (i - j) = i
    BY <1>1
  <2>5. (j - 1) * L < i * L /\ i * L < (h + 1) * L
    BY <1>1, <1>2, <2>1, <2>2, <2>3, <2>4
  <2>6. i * L < (j + MaxBuckets) * L
    BY <1>1, <1>2, <2>1, <2>2, <2>4 DEF L
  <2>7. j - 1 < i /\ i < h + 1 /\ i < j + MaxBuckets
    <3>1. MaxBuckets \in Nat
      OBVIOUS
    <3> QED BY <1>1, <2>5, <2>6, <3>1, FewerLengths
  <2>8. i - j \in 0..(MaxBuckets - 1)
    BY <2>7
  <2>9. Floor(t, b) = first + (i - j) * L
    <3>1. (i - j) * L = i * L - j * L
      BY <1>1
    <3> QED BY <1>2, <2>2, <2>4, <3>1
  <2>10. i * L <= h * L
    <3>1. (h - i) * L >= 0 /\ (h - i) * L = h * L - i * L
      BY <1>1, <2>7
    <3> QED BY <2>4, <3>1
  <2> QED BY <2>2, <2>3, <2>8, <2>9, <2>10
<1> QED BY <1>3, <1>4 DEF BucketRange

\* What is asked for is none of the requests or one of them, calls are finitely many
\* rows with an id of their own, and the tables not filled in stay as they are.
FiguresTyped ==
  /\ asked \in [days : Nat, start : Nat \cup {NoInstant}, end : Nat \cup {NoInstant}]
  /\ DOMAIN db = DOMAIN Rest
  /\ IsFiniteSet(db.calls) /\ \A c \in db.calls : c \in CallRows /\ c.at \in Instants
  /\ \A c, d \in db.calls : c.id = d.id => c = d
  /\ \A id \in DOMAIN db.analyses : db.analyses[id] \in Verdicts0
  /\ \A t \in DOMAIN Rest \ {"calls", "analyses"} : db[t] = Rest[t]

LEMMA FiguresTypedInvariant == FiguresSpec => []FiguresTyped
<1> USE FiguresAssumption
<1>0. /\ "calls" \in DOMAIN Rest /\ "analyses" \in DOMAIN Rest /\ Instants \subseteq Nat
      /\ \A id \in DOMAIN Shapes : id \in Nat /\ Shapes[id] \in CallRows
  BY FiguresInputs
<1>1. FiguresInit => FiguresTyped
  <2>1. SUFFICES ASSUME FiguresInit PROVE FiguresTyped
    OBVIOUS
  <2>2. /\ DOMAIN db = DOMAIN Rest /\ db.calls = {} /\ db.analyses = <<>>
        /\ \A t \in DOMAIN Rest \ {"calls", "analyses"} : db[t] = Rest[t]
    BY <1>0, <2>1 DEF FiguresInit
  <2>3. IsFiniteSet(db.calls) /\ DOMAIN db.analyses = {}
    BY <2>2, FS_EmptySet
  <2>4. asked \in [days : Nat, start : Nat \cup {NoInstant}, end : Nat \cup {NoInstant}]
    BY <2>1 DEF FiguresInit, Unasked, NoInstant
  <2> QED BY <2>2, <2>3, <2>4 DEF FiguresTyped
<1>2. FiguresTyped /\ [FiguresNext]_figuresVars => FiguresTyped'
  <2>1. SUFFICES ASSUME FiguresTyped, [FiguresNext]_figuresVars PROVE FiguresTyped'
    OBVIOUS
  <2>2. CASE LogCall
    <3>1. PICK id \in DOMAIN Shapes \ Known, t \in Instants :
            /\ db' = [db EXCEPT !.calls = @ \cup {[Shapes[id] EXCEPT !.id = id, !.at = t]}]
            /\ UNCHANGED asked
      BY <2>2 DEF LogCall
    <3> DEFINE new == [Shapes[id] EXCEPT !.id = id, !.at = t]
    <3>2. new \in CallRows /\ new.id = id /\ new.at = t
      BY <1>0 DEF CallRows
    <3>3. \A c \in db.calls : c.id # id
      BY DEF Known
    <3> HIDE DEF new
    <3>4. db' = [db EXCEPT !.calls = @ \cup {new}]
      BY <3>1 DEF new
    <3>5. db'.calls = db.calls \cup {new} /\ DOMAIN db' = DOMAIN db
          /\ \A f \in DOMAIN db : f # "calls" => db'[f] = db[f]
      BY <1>0, <2>1, <3>4 DEF FiguresTyped
    <3>6. IsFiniteSet(db'.calls)
      BY <2>1, <3>5, FS_AddElement DEF FiguresTyped
    <3>7. db'.analyses = db.analyses
      BY <1>0, <2>1, <3>5 DEF FiguresTyped
    <3>8. \A c \in db'.calls : c \in CallRows /\ c.at \in Instants
      BY <2>1, <3>2, <3>5 DEF FiguresTyped
    <3>9. \A c, d \in db'.calls : c.id = d.id => c = d
      BY <2>1, <3>2, <3>3, <3>5 DEF FiguresTyped
    <3>10. \A f \in DOMAIN Rest \ {"calls", "analyses"} : db'[f] = Rest[f]
      BY <2>1, <3>5 DEF FiguresTyped
    <3> QED BY <2>1, <3>1, <3>5, <3>6, <3>7, <3>8, <3>9, <3>10 DEF FiguresTyped
  <2>3. CASE Analyse
    <3>1. PICK c \in db.calls, v \in Verdicts0 :
            /\ db' = [db EXCEPT !.analyses =
                        [id \in DOMAIN @ \cup {c.id} |-> IF id = c.id THEN v ELSE @[id]]]
            /\ UNCHANGED asked
      BY <2>3 DEF Analyse
    <3>2. /\ db'.analyses = [id \in DOMAIN db.analyses \cup {c.id} |->
                               IF id = c.id THEN v ELSE db.analyses[id]]
          /\ DOMAIN db' = DOMAIN db
          /\ \A f \in DOMAIN db : f # "analyses" => db'[f] = db[f]
      BY <1>0, <2>1, <3>1 DEF FiguresTyped
    <3>3. db'.calls = db.calls
      BY <1>0, <2>1, <3>2 DEF FiguresTyped
    <3>4. \A id \in DOMAIN db'.analyses : db'.analyses[id] \in Verdicts0
      BY <2>1, <3>2 DEF FiguresTyped
    <3>5. \A f \in DOMAIN Rest \ {"calls", "analyses"} : db'[f] = Rest[f]
      BY <2>1, <3>2 DEF FiguresTyped
    <3> QED BY <2>1, <3>1, <3>2, <3>3, <3>4, <3>5 DEF FiguresTyped
  <2>4. CASE Ask
    <3>1. Asked \subseteq [days : Nat, start : Nat \cup {NoInstant}, end : Nat \cup {NoInstant}]
      BY FiguresInputs
    <3> QED BY <2>1, <2>4, <3>1 DEF Ask, FiguresTyped
  <2>5. CASE UNCHANGED figuresVars
    BY <2>1, <2>5 DEF FiguresTyped, figuresVars
  <2> QED BY <2>1, <2>2, <2>3, <2>4, <2>5 DEF FiguresNext
<1> QED BY <1>1, <1>2, PTL DEF FiguresSpec

\* A request's window runs forward and reaches back no further than it may.
LEMMA WindowInRange ==
  ASSUME FiguresTyped
  PROVE  /\ Window.from \in Int /\ Window.till \in Int
         /\ Window.from <= Window.till /\ Window.till - Window.from <= MaxRange
<1> USE FiguresAssumption
<1> DEFINE till == IF asked.end = NoInstant THEN Now ELSE asked.end
           from == IF asked.start = NoInstant THEN till - asked.days * Day ELSE asked.start
<1>0. Now \in Nat /\ NoInstant \in Int
  BY FiguresInputs DEF NoInstant
<1>1. till \in Int
  BY <1>0 DEF FiguresTyped
<1>2. from \in Int
  <2>1. asked.days * Day \in Int
    BY DEF FiguresTyped
  <2> QED BY <1>0, <1>1, <2>1 DEF FiguresTyped
<1>3. Window = [from |-> IF Max({from, till}) - Min({from, till}) > MaxRange
                           THEN Max({from, till}) - MaxRange ELSE Min({from, till}),
                till |-> Max({from, till})]
  BY DEF Window, ResolveRange
<1> HIDE DEF till, from
<1> QED BY <1>1, <1>2, <1>3, MaxMinOfTwo

\* With the bucket the dashboard picks the cap on buckets is never met: the chart has
\* a point for every hour, day or week in which an instant of the window lies, and
\* at most one besides, which begins where the window ends and counts nothing; no
\* window is longer than MAX_RANGE_DAYS, in whatever order its ends are given
\* (resolve_range, default_bucket, _bucket_range).
THEOREM ChartsHaveNoHoles == FiguresSpec => []ChartHasNoHoles
<1> USE FiguresAssumption
<1>1. FiguresTyped => ChartHasNoHoles
  <2> DEFINE w == Window
             b == DefaultBucket(w)
  <2>1. SUFFICES ASSUME FiguresTyped, asked # Unasked PROVE ChartHasNoHoles
    BY DEF ChartHasNoHoles
  <2>2. /\ w.from \in Int /\ w.till \in Int /\ w.from <= w.till /\ w.till - w.from <= MaxRange
    BY <2>1, WindowInRange
  <2>3. (asked.start # NoInstant /\ asked.end # NoInstant)
          => w = ResolveRange(Now, asked.days, asked.end, asked.start)
    <3>1. {asked.start, asked.end} = {asked.end, asked.start}
      OBVIOUS
    <3> QED BY <3>1 DEF Window, ResolveRange
  <2>4. /\ b \in DOMAIN BucketLength
        /\ (w.till - w.from) + BucketLength[b] <= MaxBuckets * BucketLength[b]
    <3> HIDE DEF w
    <3> QED BY <2>2 DEF DefaultBucket, BucketLength
  <2>5. BucketRange(w, b) = {Floor(t, b) : t \in w.from..w.till}
    <3> HIDE DEF w, b
    <3> QED BY <2>2, <2>4, BucketsTile
  <2> DEFINE within == {Floor(t, b) : t \in w.from..(w.till - 1)}
             chart == Timeseries(db, w, b)
  <2>6. \A c \in InRange(db, w) : c.at \in w.from..(w.till - 1)
    <3>1. Instants \subseteq Int
      BY FiguresInputs
    <3>2. \A c \in db.calls : c.at \in Int
      BY <2>1, <3>1 DEF FiguresTyped
    <3> HIDE DEF w
    <3> QED BY <2>2, <3>2 DEF InRange
  <2>7. \A c \in InRange(db, w) : Floor(c.at, b) \in within
    BY <2>6
  <2>8. BucketRange(w, b) = within \cup {Floor(w.till, b)}
    <3>1. w.from..w.till = (w.from..(w.till - 1)) \cup {w.till}
      <4> HIDE DEF w
      <4> QED BY <2>2
    <3> HIDE DEF w, b
    <3> QED BY <2>5, <3>1
  <2>9. DOMAIN chart = within \cup {Floor(w.till, b)}
    <3> HIDE DEF w, b, within
    <3> QED BY <2>7, <2>8 DEF Timeseries
  <2>10. ASSUME NEW t \in DOMAIN chart \ within
         PROVE  (w.from < w.till => t = w.till) /\ chart[t] = PointOf(db, {})
    <3>1. t = Floor(w.till, b)
      <4> HIDE DEF w, b, within, chart
      <4> QED BY <2>9
    <3>2. ASSUME w.from < w.till PROVE t = w.till
      <4>1. /\ t \in Int /\ t <= w.till /\ w.till < t + BucketLength[b] /\ BucketLength[b] \in Nat
            /\ \E k \in Int : t = k * BucketLength[b]
        <5> HIDE DEF w, b
        <5> QED BY <2>2, <2>4, <3>1, FloorBelow
      <4>2. ASSUME t # w.till PROVE FALSE
        <5>1. w.till - 1 \in w.from..(w.till - 1) /\ w.till - 1 \in Int
          <6> HIDE DEF w
          <6> QED BY <2>2, <3>2
        <5>2. Floor(w.till - 1, b) = t
          <6> HIDE DEF w, b
          <6>1. PICK k \in Int : t = k * BucketLength[b]
            BY <4>1
          <6>2. k * BucketLength[b] <= w.till - 1 /\ w.till - 1 < k * BucketLength[b] + BucketLength[b]
            <7>1. k * BucketLength[b] \in Int
              BY <4>1, <6>1
            <7> QED BY <2>2, <4>1, <4>2, <6>1, <7>1
          <6>3. Floor(w.till - 1, b) = k * BucketLength[b]
            BY <2>4, <5>1, <6>2, SameBucket
          <6> QED BY <6>1, <6>3
        <5> HIDE DEF w, b, chart
        <5> QED BY <5>1, <5>2
      <4> QED BY <4>2
    <3>3. {c \in InRange(db, w) : Floor(c.at, b) = t} = {}
      <4> HIDE DEF w, b, within, chart
      <4> QED BY <2>7
    <3>4. chart[t] = PointOf(db, {c \in InRange(db, w) : Floor(c.at, b) = t})
      <4> HIDE DEF w, b, within
      <4> QED BY DEF Timeseries
    <3> QED BY <3>2, <3>3, <3>4
  <2> HIDE DEF w, b, within, chart
  <2> QED BY <2>2, <2>3, <2>9, <2>10 DEF ChartHasNoHoles, w, b, within, chart
<1> QED BY <1>1, FiguresTypedInvariant, PTL

-----------------------------------------------------------------------------
(* The figures of a window *)

\* What is counted or added up key by key comes to what is counted or added up at once.
LEMMA TotalOfCounts ==
  ASSUME NEW C, IsFiniteSet(C), NEW K, IsFiniteSet(K), NEW key \in [C -> K], NEW R \in SUBSET C,
         NEW n, DOMAIN n = K, \A k \in K : n[k] = Cardinality(Class(C, key, k) \cap R)
  PROVE  SumFunction(n) = Cardinality(R)
<1>1. SumFunctionOnSet(Counts(C, K, key, R), K) = Cardinality(C \cap R)
  BY CountByKey
<1>2. C \cap R = R /\ IsFiniteSet(R)
  BY FS_Subset
<1>3. \A k \in K : Cardinality(Class(C, key, k) \cap R) \in Int
  <2>1. \A k \in K : Class(C, key, k) \cap R \in SUBSET C
    BY DEF Class
  <2> QED BY <2>1, FS_Subset, FS_CardinalityType
<1>4. Counts(C, K, key, R) \in [K -> Int] /\ \A k \in K : n[k] = Counts(C, K, key, R)[k]
  BY <1>3 DEF Counts
<1>5. SumFunctionOnSet(n, K) = SumFunctionOnSet(Counts(C, K, key, R), K)
  BY <1>4, SumSame
<1> QED BY <1>1, <1>2, <1>5, Zenon DEF SumFunction

\* The same for the terms of f.
LEMMA TotalOfParts ==
  ASSUME NEW C, IsFiniteSet(C), NEW K, IsFiniteSet(K), NEW key \in [C -> K], NEW R \in SUBSET C,
         NEW f \in [C -> Int],
         NEW n, DOMAIN n = K, \A k \in K : n[k] = SumFunctionOnSet(f, Class(C, key, k) \cap R)
  PROVE  SumFunction(n) = SumFunctionOnSet(f, R)
<1>1. SumFunctionOnSet(Parts(f, C, K, key, R), K) = SumFunctionOnSet(f, C \cap R)
  BY SumByKey
<1>2. C \cap R = R
  OBVIOUS
<1>3. \A k \in K : SumFunctionOnSet(f, Class(C, key, k) \cap R) \in Int
  <2>1. ASSUME NEW k \in K PROVE SumFunctionOnSet(f, Class(C, key, k) \cap R) \in Int
    <3>1. /\ Class(C, key, k) \cap R \in SUBSET C
          /\ \A c \in Class(C, key, k) \cap R : f[c] \in Int
      BY DEF Class
    <3>2. IsFiniteSet(Class(C, key, k) \cap R)
      BY <3>1, FS_Subset
    <3> QED BY <3>1, <3>2, SumType
  <2> QED BY <2>1
<1>4. Parts(f, C, K, key, R) \in [K -> Int] /\ \A k \in K : n[k] = Parts(f, C, K, key, R)[k]
  BY <1>3 DEF Parts
<1>5. SumFunctionOnSet(n, K) = SumFunctionOnSet(Parts(f, C, K, key, R), K)
  BY <1>4, SumSame
<1> QED BY <1>1, <1>2, <1>5, Zenon DEF SumFunction

\* The seconds and the scores that are added up.
TalkOf(C) == [c \in C |-> Max({c.duration, 0})]
ScoreOf(C) == [c \in C |-> IF c.id \in DOMAIN db.analyses THEN db.analyses[c.id].score ELSE 0]

\* They are numbers, and the calls are finitely many.
LEMMA TermsAreNumbers ==
  ASSUME FiguresTyped, NEW C \in SUBSET db.calls
  PROVE  IsFiniteSet(C) /\ TalkOf(C) \in [C -> Int] /\ ScoreOf(C) \in [C -> Int]
<1>1. IsFiniteSet(C)
  BY FS_Subset DEF FiguresTyped
<1>2. ASSUME NEW c \in C PROVE Max({c.duration, 0}) \in Int
  <2>1. c.duration \in Int
    BY DEF FiguresTyped, CallRows, NoDuration
  <2> QED BY <2>1, MaxMinOfTwo
<1>3. \A v \in Verdicts0 : v.score \in Int
  BY FiguresInputs
<1>4. ASSUME NEW c \in C, c.id \in DOMAIN db.analyses PROVE db.analyses[c.id].score \in Int
  BY <1>3, <1>4 DEF FiguresTyped
<1> QED BY <1>1, <1>2, <1>4 DEF TalkOf, ScoreOf

\* A point of a chart is counted over those of the calls that are in its bucket.
LEMMA PointOfSome ==
  ASSUME FiguresTyped, NEW C \in SUBSET db.calls, NEW own \in SUBSET C
  PROVE  LET p == PointOf(db, own)
         IN  /\ p.calls = Cardinality(own \cap C)
             /\ p.talk = SumFunctionOnSet(TalkOf(C), own \cap C)
             /\ p.recorded = Cardinality(own \cap {c \in C : c.recorded})
             /\ p.analysed = Cardinality(own \cap Analysed(db, C))
             /\ p.satisfied = Cardinality(own \cap Verdicts(db, C, "yes"))
             /\ p.unsatisfied = Cardinality(own \cap Verdicts(db, C, "no"))
             /\ p.sentiment[1] = SumFunctionOnSet(ScoreOf(C), own \cap Analysed(db, C))
<1>1. IsFiniteSet(C) /\ IsFiniteSet(own) /\ own \in SUBSET db.calls
  BY TermsAreNumbers, FS_Subset
<1>2. /\ own \cap C = own
      /\ own \cap {c \in C : c.recorded} = {c \in own : c.recorded}
      /\ own \cap Analysed(db, C) = Analysed(db, own)
      /\ \A v : own \cap Verdicts(db, C, v) = Verdicts(db, own, v)
  BY DEF Analysed, Verdicts
<1>3. TalkSeconds(own) = SumFunctionOnSet(TalkOf(C), own)
  <2>1. TalkOf(own) \in [own -> Int] /\ \A c \in own : TalkOf(C)[c] = TalkOf(own)[c]
    BY <1>1, TermsAreNumbers DEF TalkOf
  <2>2. SumFunctionOnSet(TalkOf(C), own) = SumFunctionOnSet(TalkOf(own), own)
    BY <1>1, <2>1, SumSame
  <2>3. DOMAIN TalkOf(own) = own
    BY DEF TalkOf
  <2> QED BY <2>2, <2>3, Zenon DEF TalkSeconds, TalkOf, SumFunction
<1>4. SumFunction([c \in Analysed(db, own) |-> db.analyses[c.id].score])
        = SumFunctionOnSet(ScoreOf(C), Analysed(db, own))
  <2> DEFINE A == Analysed(db, own)
             score == [c \in A |-> db.analyses[c.id].score]
  <2>1. A \in SUBSET own /\ \A c \in A : c.id \in DOMAIN db.analyses /\ c \in C
    BY DEF Analysed
  <2>2. IsFiniteSet(A)
    BY <1>1, <2>1, FS_Subset
  <2>3. ScoreOf(A) \in [A -> Int]
    <3>1. A \in SUBSET db.calls
      BY <2>1
    <3> QED BY <3>1, TermsAreNumbers
  <2> HIDE DEF A
  <2>4. \A c \in A : ScoreOf(C)[c] = ScoreOf(A)[c] /\ score[c] = ScoreOf(A)[c]
    BY <2>1 DEF ScoreOf
  <2> HIDE DEF score
  <2>5. /\ SumFunctionOnSet(ScoreOf(C), A) = SumFunctionOnSet(ScoreOf(A), A)
        /\ SumFunctionOnSet(score, A) = SumFunctionOnSet(ScoreOf(A), A)
    BY <2>2, <2>3, <2>4, SumSame
  <2>6. DOMAIN score = A
    BY DEF score
  <2>7. SumFunction(score) = SumFunctionOnSet(ScoreOf(C), A)
    BY <2>5, <2>6, Zenon DEF SumFunction
  <2> QED BY <2>7, Zenon DEF score, A
<1>5. PointOf(db, own).sentiment[1] = SumFunction([c \in Analysed(db, own) |-> db.analyses[c.id].score])
  BY DEF PointOf, Mean
<1> QED BY <1>2, <1>3, <1>4, <1>5 DEF PointOf

\* The overview counts the same over the calls of its window.
LEMMA OverviewIsAPoint ==
  ASSUME NEW w
  PROVE  LET over == Overview(db, w, Now)
             p == PointOf(db, InRange(db, w))
         IN  /\ over.calls = p.calls /\ over.talk = p.talk /\ over.recorded = p.recorded
             /\ over.analysed = p.analysed /\ over.satisfied = p.satisfied
             /\ over.unsatisfied = p.unsatisfied /\ over.sentiment = p.sentiment
BY DEF Overview, PointOf

\* Whatever the buckets, a chart adds up to the overview of its window.
LEMMA ChartAddsUp ==
  ASSUME FiguresTyped, NEW w, NEW b
  PROVE  SumsToOverview(Timeseries(db, w, b), Overview(db, w, Now))
<1> DEFINE C == InRange(db, w)
           K == BucketRange(w, b) \cup {Floor(c.at, b) : c \in C}
           key == [c \in C |-> Floor(c.at, b)]
           chart == Timeseries(db, w, b)
           over == Overview(db, w, Now)
           recorded == {c \in C : c.recorded}
           verdicts(v) == Verdicts(db, C, v)
<1>1. C \in SUBSET db.calls /\ IsFiniteSet(C)
  BY TermsAreNumbers DEF InRange
<1>2. IsFiniteSet(K) /\ key \in [C -> K]
  <2>1. IsFiniteSet({key[c] : c \in C})
    <3> HIDE DEF key, C
    <3> QED BY <1>1, FiniteImage
  <2>2. {key[c] : c \in C} = {Floor(c.at, b) : c \in C}
    OBVIOUS
  <2>3. IsFiniteSet(BucketRange(w, b))
    <3> DEFINE at == [k \in 0..(MaxBuckets - 1) |-> Floor(w.from, b) + k * BucketLength[b]]
    <3>1. IsFiniteSet(0..(MaxBuckets - 1))
      BY FiguresAssumption, FS_Interval
    <3>2. BucketRange(w, b) \subseteq {at[k] : k \in 0..(MaxBuckets - 1)}
      BY DEF BucketRange
    <3> HIDE DEF at
    <3>3. IsFiniteSet({at[k] : k \in 0..(MaxBuckets - 1)})
      BY <3>1, FiniteImage
    <3> QED BY <3>2, <3>3, FS_Subset
  <2>4. IsFiniteSet(K)
    BY <2>1, <2>2, <2>3, FS_Union
  <2> QED BY <2>4
<1>3. \A k \in K : Class(C, key, k) \in SUBSET C /\ chart[k] = PointOf(db, Class(C, key, k))
  <2>1. \A k \in K : Class(C, key, k) = {c \in C : Floor(c.at, b) = k}
    BY DEF Class
  <2>2. \A k \in K : chart[k] = PointOf(db, {c \in C : Floor(c.at, b) = k})
    BY DEF Timeseries
  <2> QED BY <2>1, <2>2
<1>4. DOMAIN chart = K
  BY DEF Timeseries
<1>5. /\ recorded \in SUBSET C /\ Analysed(db, C) \in SUBSET C
      /\ verdicts("yes") \in SUBSET C /\ verdicts("no") \in SUBSET C /\ C \in SUBSET C
  BY DEF Analysed, Verdicts
<1>6. /\ over.calls = Cardinality(C) /\ over.talk = SumFunctionOnSet(TalkOf(C), C)
      /\ over.recorded = Cardinality(recorded) /\ over.analysed = Cardinality(Analysed(db, C))
      /\ over.satisfied = Cardinality(verdicts("yes"))
      /\ over.unsatisfied = Cardinality(verdicts("no"))
      /\ over.sentiment[1] = SumFunctionOnSet(ScoreOf(C), Analysed(db, C))
  <2>1. /\ C \cap C = C /\ C \cap recorded = recorded /\ C \cap Analysed(db, C) = Analysed(db, C)
        /\ C \cap verdicts("yes") = verdicts("yes") /\ C \cap verdicts("no") = verdicts("no")
    BY <1>5
  <2> HIDE DEF over
  <2>2. LET p == PointOf(db, C)
        IN  /\ p.calls = Cardinality(C \cap C)
            /\ p.talk = SumFunctionOnSet(TalkOf(C), C \cap C)
            /\ p.recorded = Cardinality(C \cap recorded)
            /\ p.analysed = Cardinality(C \cap Analysed(db, C))
            /\ p.satisfied = Cardinality(C \cap verdicts("yes"))
            /\ p.unsatisfied = Cardinality(C \cap verdicts("no"))
            /\ p.sentiment[1] = SumFunctionOnSet(ScoreOf(C), C \cap Analysed(db, C))
    <3> HIDE DEF C
    <3> QED BY <1>1, PointOfSome, Zenon
  <2> QED BY <2>1, <2>2, OverviewIsAPoint, Zenon DEF over
<1> HIDE DEF C, K, key, chart, over, recorded, verdicts
<1>7. \A k \in K :
        LET own == Class(C, key, k)
            p == chart[k]
        IN  /\ p.calls = Cardinality(own \cap C)
            /\ p.talk = SumFunctionOnSet(TalkOf(C), own \cap C)
            /\ p.recorded = Cardinality(own \cap recorded)
            /\ p.analysed = Cardinality(own \cap Analysed(db, C))
            /\ p.satisfied = Cardinality(own \cap verdicts("yes"))
            /\ p.unsatisfied = Cardinality(own \cap verdicts("no"))
            /\ p.sentiment[1] = SumFunctionOnSet(ScoreOf(C), own \cap Analysed(db, C))
  <2> SUFFICES ASSUME NEW k \in K
               PROVE  LET own == Class(C, key, k)
                          p == chart[k]
                      IN  /\ p.calls = Cardinality(own \cap C)
                          /\ p.talk = SumFunctionOnSet(TalkOf(C), own \cap C)
                          /\ p.recorded = Cardinality(own \cap recorded)
                          /\ p.analysed = Cardinality(own \cap Analysed(db, C))
                          /\ p.satisfied = Cardinality(own \cap verdicts("yes"))
                          /\ p.unsatisfied = Cardinality(own \cap verdicts("no"))
                          /\ p.sentiment[1] = SumFunctionOnSet(ScoreOf(C), own \cap Analysed(db, C))
    BY Zenon
  <2> DEFINE mine == Class(C, key, k)
  <2>1. mine \in SUBSET C /\ chart[k] = PointOf(db, mine)
    BY <1>3
  <2> HIDE DEF mine
  <2>2. LET p == PointOf(db, mine)
        IN  /\ p.calls = Cardinality(mine \cap C)
            /\ p.talk = SumFunctionOnSet(TalkOf(C), mine \cap C)
            /\ p.recorded = Cardinality(mine \cap recorded)
            /\ p.analysed = Cardinality(mine \cap Analysed(db, C))
            /\ p.satisfied = Cardinality(mine \cap verdicts("yes"))
            /\ p.unsatisfied = Cardinality(mine \cap verdicts("no"))
            /\ p.sentiment[1] = SumFunctionOnSet(ScoreOf(C), mine \cap Analysed(db, C))
    BY <1>1, <2>1, PointOfSome, Zenon DEF recorded, verdicts
  <2> QED BY <2>1, <2>2, Zenon DEF mine
<1>8. TalkOf(C) \in [C -> Int] /\ ScoreOf(C) \in [C -> Int]
  BY <1>1, TermsAreNumbers
<1>9. /\ SumFunction([k \in K |-> chart[k].calls]) = Cardinality(C)
      /\ SumFunction([k \in K |-> chart[k].talk]) = SumFunctionOnSet(TalkOf(C), C)
      /\ SumFunction([k \in K |-> chart[k].recorded]) = Cardinality(recorded)
      /\ SumFunction([k \in K |-> chart[k].analysed]) = Cardinality(Analysed(db, C))
      /\ SumFunction([k \in K |-> chart[k].satisfied]) = Cardinality(verdicts("yes"))
      /\ SumFunction([k \in K |-> chart[k].unsatisfied]) = Cardinality(verdicts("no"))
      /\ SumFunction([k \in K |-> chart[k].sentiment[1]]) = SumFunctionOnSet(ScoreOf(C), Analysed(db, C))
  <2> DEFINE n1 == [k \in K |-> chart[k].calls]
             n2 == [k \in K |-> chart[k].talk]
             n3 == [k \in K |-> chart[k].recorded]
             n4 == [k \in K |-> chart[k].analysed]
             n5 == [k \in K |-> chart[k].satisfied]
             n6 == [k \in K |-> chart[k].unsatisfied]
             n7 == [k \in K |-> chart[k].sentiment[1]]
  <2>1. DOMAIN n1 = K /\ \A k \in K : n1[k] = Cardinality(Class(C, key, k) \cap C)
    BY <1>7
  <2>2. DOMAIN n2 = K /\ \A k \in K : n2[k] = SumFunctionOnSet(TalkOf(C), Class(C, key, k) \cap C)
    BY <1>7
  <2>3. DOMAIN n3 = K /\ \A k \in K : n3[k] = Cardinality(Class(C, key, k) \cap recorded)
    BY <1>7
  <2>4. DOMAIN n4 = K /\ \A k \in K : n4[k] = Cardinality(Class(C, key, k) \cap Analysed(db, C))
    BY <1>7
  <2>5. DOMAIN n5 = K /\ \A k \in K : n5[k] = Cardinality(Class(C, key, k) \cap verdicts("yes"))
    BY <1>7
  <2>6. DOMAIN n6 = K /\ \A k \in K : n6[k] = Cardinality(Class(C, key, k) \cap verdicts("no"))
    BY <1>7
  <2>7. DOMAIN n7 = K
        /\ \A k \in K : n7[k] = SumFunctionOnSet(ScoreOf(C), Class(C, key, k) \cap Analysed(db, C))
    BY <1>7
  <2> HIDE DEF n1, n2, n3, n4, n5, n6, n7
  <2>8. SumFunction(n1) = Cardinality(C)
    BY <1>1, <1>2, <1>5, <2>1, TotalOfCounts
  <2>9. SumFunction(n2) = SumFunctionOnSet(TalkOf(C), C)
    BY <1>1, <1>2, <1>5, <1>8, <2>2, TotalOfParts
  <2>10. SumFunction(n3) = Cardinality(recorded)
    BY <1>1, <1>2, <1>5, <2>3, TotalOfCounts
  <2>11. SumFunction(n4) = Cardinality(Analysed(db, C))
    BY <1>1, <1>2, <1>5, <2>4, TotalOfCounts
  <2>12. SumFunction(n5) = Cardinality(verdicts("yes"))
    BY <1>1, <1>2, <1>5, <2>5, TotalOfCounts
  <2>13. SumFunction(n6) = Cardinality(verdicts("no"))
    BY <1>1, <1>2, <1>5, <2>6, TotalOfCounts
  <2>14. SumFunction(n7) = SumFunctionOnSet(ScoreOf(C), Analysed(db, C))
    BY <1>1, <1>2, <1>5, <1>8, <2>7, TotalOfParts
  <2> QED BY <2>8, <2>9, <2>10, <2>11, <2>12, <2>13, <2>14, Zenon DEF n1, n2, n3, n4, n5, n6, n7
<1> QED BY <1>4, <1>6, <1>9, Zenon DEF SumsToOverview, Total, over, chart

\* What GROUP BY counts: as many rows for a key as have it, none for one that none has.
LEMMA TallyCounts ==
  ASSUME NEW S, NEW key, NEW counts, DOMAIN counts = {key[s] : s \in S},
         \A x \in DOMAIN counts : counts[x] = Cardinality(Class(S, key, x))
  PROVE  \A x : At(counts, x) = Cardinality(Class(S, key, x))
<1>1. ASSUME NEW x, x \notin DOMAIN counts PROVE Cardinality(Class(S, key, x)) = 0
  <2>1. Class(S, key, x) = {}
    BY <1>1 DEF Class
  <2> QED BY <2>1, FS_EmptySet
<1> QED BY <1>1 DEF At

\* The rows of a finite set have finitely many keys.
LEMMA KeysAreFinite ==
  ASSUME NEW S, IsFiniteSet(S), NEW K, NEW key \in [S -> K], K = {key[s] : s \in S}
  PROVE  IsFiniteSet(K)
BY FiniteImage

\* Every analysis has one of the sentiments of the breakdown.
LEMMA BreakdownAddsUp ==
  ASSUME FiguresTyped, NEW w
  PROVE  Total(SentimentBreakdown(db, w), LAMBDA p : p.count)
           = Cardinality(Analysed(db, InRange(db, w)))
<1> DEFINE A == Analysed(db, InRange(db, w))
           key == [c \in A |-> db.analyses[c.id].sentiment]
           counts == Tally(A, LAMBDA c : db.analyses[c.id].sentiment)
           n == [label \in SentimentOrder |-> At(counts, label)]
<1>1. A \in SUBSET db.calls /\ IsFiniteSet(A)
  BY TermsAreNumbers DEF InRange, Analysed
<1>2. key \in [A -> SentimentOrder]
  <2>1. \A v \in Verdicts0 : v.sentiment \in SentimentOrder
    BY FiguresInputs
  <2>2. \A c \in A : db.analyses[c.id] \in Verdicts0
    BY DEF FiguresTyped, Analysed
  <2> HIDE DEF A
  <2> QED BY <2>1, <2>2
<1>3. \A x : At(counts, x) = Cardinality(Class(A, key, x))
  <2>1. DOMAIN counts = {key[c] : c \in A}
    BY DEF Tally
  <2>2. \A x \in DOMAIN counts : counts[x] = Cardinality(Class(A, key, x))
    <3>1. \A x : Class(A, key, x) = {c \in A : db.analyses[c.id].sentiment = x}
      BY DEF Class
    <3>2. \A x \in DOMAIN counts : counts[x] = Cardinality({c \in A : db.analyses[c.id].sentiment = x})
      BY DEF Tally
    <3> QED BY <3>1, <3>2
  <2> HIDE DEF A, key, counts
  <2> QED BY <2>1, <2>2, TallyCounts
<1>4. IsFiniteSet(SentimentOrder)
  <2>1. SentimentOrder = (((({"very_negative"} \cup {"negative"}) \cup {"neutral"})
                             \cup {"positive"}) \cup {"very_positive"})
    BY DEF SentimentOrder
  <2>2. IsFiniteSet({"very_negative"} \cup {"negative"})
    BY FS_Singleton, FS_AddElement
  <2>3. IsFiniteSet(({"very_negative"} \cup {"negative"}) \cup {"neutral"})
    BY <2>2, FS_AddElement
  <2>4. IsFiniteSet((({"very_negative"} \cup {"negative"}) \cup {"neutral"}) \cup {"positive"})
    BY <2>3, FS_AddElement
  <2> QED BY <2>1, <2>4, FS_AddElement
<1>5. SumFunction(n) = Cardinality(A)
  <2>1. DOMAIN n = SentimentOrder
        /\ \A x \in SentimentOrder : n[x] = Cardinality(Class(A, key, x) \cap A)
    <3>1. \A x : Class(A, key, x) \cap A = Class(A, key, x)
      BY DEF Class
    <3> HIDE DEF A, key, counts
    <3> QED BY <1>3, <3>1
  <2> HIDE DEF A, key, n
  <2> QED BY <1>1, <1>2, <1>4, <2>1, TotalOfCounts
<1>6. Total(SentimentBreakdown(db, w), LAMBDA p : p.count) = SumFunction(n)
  <2>1. /\ DOMAIN SentimentBreakdown(db, w) = SentimentOrder
        /\ \A x \in SentimentOrder : SentimentBreakdown(db, w)[x].count = At(counts, x)
    BY DEF SentimentBreakdown
  <2> HIDE DEF counts
  <2>2. [x \in DOMAIN SentimentBreakdown(db, w) |-> SentimentBreakdown(db, w)[x].count] = n
    BY <2>1
  <2> HIDE DEF n
  <2> QED BY <2>2, Zenon DEF Total
<1> HIDE DEF n
<1> QED BY <1>5, <1>6 DEF A

\* The agents of the leaderboard, or the numbers, that anybody called.
LEMMA BoardAddsUp ==
  ASSUME FiguresTyped, NEW w
  PROVE  Total(Leaderboard(db, w, {c.agent : c \in InRange(db, w)}), LAMBDA p : p.calls)
           = Cardinality(InRange(db, w))
<1> DEFINE C == InRange(db, w)
           key == [c \in C |-> c.agent]
           K == {c.agent : c \in C}
           board == Leaderboard(db, w, K)
           n == [x \in K |-> board[x].calls]
<1>1. C \in SUBSET db.calls /\ IsFiniteSet(C)
  BY TermsAreNumbers DEF InRange
<1>2. IsFiniteSet(K) /\ key \in [C -> K]
  <2>1. K = {key[c] : c \in C} /\ key \in [C -> K]
    OBVIOUS
  <2> HIDE DEF C, K, key
  <2> QED BY <1>1, <2>1, KeysAreFinite
<1>3. DOMAIN n = K /\ \A x \in K : n[x] = Cardinality(Class(C, key, x) \cap C)
  <2>1. \A x : Class(C, key, x) \cap C = {c \in C : c.agent = x}
    BY DEF Class
  <2>2. \A x \in K : board[x].calls = Cardinality({c \in C : c.agent = x})
    BY DEF Leaderboard, AgentRow
  <2> HIDE DEF C, key, board
  <2> QED BY <2>1, <2>2
<1>4. DOMAIN board = K
  BY DEF Leaderboard
<1> HIDE DEF C, key, K, board, n
<1>5. SumFunction(n) = Cardinality(C)
  <2>1. C \in SUBSET C
    OBVIOUS
  <2> QED BY <1>1, <1>2, <1>3, <2>1, TotalOfCounts
<1> QED BY <1>4, <1>5, Zenon DEF Total, n, C, K, board

\* Every recorded call is counted for its number.
LEMMA LinesAddUp ==
  ASSUME FiguresTyped, NEW w
  PROVE  Total(CoverageByNumber(db, w, {c.number : c \in InRange(db, w)}), LAMBDA p : p.recorded)
           = Cardinality({c \in InRange(db, w) : c.recorded})
<1> DEFINE C == InRange(db, w)
           R == {c \in C : c.recorded}
           key == [c \in C |-> c.number]
           K == {c.number : c \in C}
           lines == CoverageByNumber(db, w, K)
           n == [x \in K |-> lines[x].recorded]
<1>1. C \in SUBSET db.calls /\ IsFiniteSet(C) /\ R \in SUBSET C
  BY TermsAreNumbers DEF InRange
<1>2. IsFiniteSet(K) /\ key \in [C -> K]
  <2>1. K = {key[c] : c \in C} /\ key \in [C -> K]
    OBVIOUS
  <2> HIDE DEF C, K, key
  <2> QED BY <1>1, <2>1, KeysAreFinite
<1>3. DOMAIN n = K /\ \A x \in K : n[x] = Cardinality(Class(C, key, x) \cap R)
  <2>1. \A x : Class(C, key, x) \cap R = {c \in {d \in C : d.number = x} : c.recorded}
    BY DEF Class
  <2>2. \A x \in K : lines[x].recorded = Cardinality({c \in {d \in C : d.number = x} : c.recorded})
    BY DEF CoverageByNumber
  <2> HIDE DEF C, R, key, lines
  <2> QED BY <2>1, <2>2
<1>4. DOMAIN lines = K
  BY DEF CoverageByNumber
<1> HIDE DEF C, R, key, K, lines, n
<1>5. SumFunction(n) = Cardinality(R)
  BY <1>1, <1>2, <1>3, TotalOfCounts
<1> QED BY <1>4, <1>5, Zenon DEF Total, n, C, R, K, lines

\* An analysis has finitely many risk flags.
LEMMA RisksAreFinite ==
  ASSUME FiguresTyped, NEW C \in SUBSET db.calls
  PROVE  IsFiniteSet(RisksOf(db, C))
<1> DEFINE A == Analysed(db, C)
           flag(c) == [i \in DOMAIN db.analyses[c.id].risks |->
                         [call |-> c.id, nr |-> i, flag |-> db.analyses[c.id].risks[i]]]
           of == [c \in A |-> {flag(c)[i] : i \in DOMAIN flag(c)}]
<1>1. IsFiniteSet(A)
  <2>1. A \in SUBSET db.calls
    BY DEF Analysed
  <2> QED BY <2>1, TermsAreNumbers
<1>2. \A v \in Verdicts0 : v.risks \in Seq(RiskFlags)
  BY FiguresInputs
<1>3. ASSUME NEW c \in A PROVE IsFiniteSet(of[c])
  <2>1. db.analyses[c.id].risks \in Seq(RiskFlags)
    BY <1>2 DEF FiguresTyped, Analysed
  <2>2. DOMAIN flag(c) = 1..Len(db.analyses[c.id].risks) /\ Len(db.analyses[c.id].risks) \in Nat
    BY <2>1
  <2>3. IsFiniteSet(DOMAIN flag(c))
    BY <2>2, FS_Interval
  <2>4. of[c] = {flag(c)[i] : i \in DOMAIN flag(c)}
    OBVIOUS
  <2> HIDE DEF flag, of, A
  <2> QED BY <2>3, <2>4, FiniteImage
<1>4. RisksOf(db, C) = UNION {of[c] : c \in A}
  <2> DEFINE rows(c) == {[call |-> c.id, nr |-> i, flag |-> db.analyses[c.id].risks[i]] :
                           i \in DOMAIN db.analyses[c.id].risks}
  <2>1. \A c \in A : of[c] = rows(c)
    OBVIOUS
  <2> HIDE DEF rows, of, A
  <2>2. {of[c] : c \in A} = {rows(c) : c \in A}
    BY <2>1
  <2>3. RisksOf(db, C) = UNION {rows(c) : c \in A}
    BY Zenon DEF RisksOf, rows, A
  <2> QED BY <2>2, <2>3
<1> HIDE DEF of, A
<1>5. IsFiniteSet({of[c] : c \in A})
  BY <1>1, FiniteImage
<1> QED BY <1>3, <1>4, <1>5, FS_UNION

\* Every flag is counted for its kind.
LEMMA RisksAddUp ==
  ASSUME FiguresTyped, NEW w
  PROVE  Total(RiskSummary(db, w), LAMBDA p : p.count) = Cardinality(RisksOf(db, InRange(db, w)))
<1> DEFINE R == RisksOf(db, InRange(db, w))
           key == [r \in R |-> r.flag.kind]
           K == {r.flag.kind : r \in R}
           kinds == RiskSummary(db, w)
           n == [x \in K |-> kinds[x].count]
<1>1. IsFiniteSet(R)
  BY RisksAreFinite DEF InRange
<1>2. IsFiniteSet(K) /\ key \in [R -> K]
  <2>1. K = {key[r] : r \in R} /\ key \in [R -> K]
    OBVIOUS
  <2> HIDE DEF R, K, key
  <2> QED BY <1>1, <2>1, KeysAreFinite
<1>3. DOMAIN n = K /\ \A x \in K : n[x] = Cardinality(Class(R, key, x) \cap R)
  <2>1. \A x : Class(R, key, x) \cap R = {r \in R : r.flag.kind = x}
    BY DEF Class
  <2>2. \A x \in K : kinds[x].count = Cardinality({r \in R : r.flag.kind = x})
    BY DEF RiskSummary
  <2> HIDE DEF R, key, kinds
  <2> QED BY <2>1, <2>2
<1>4. DOMAIN kinds = K
  BY DEF RiskSummary
<1> HIDE DEF R, key, K, kinds, n
<1>5. SumFunction(n) = Cardinality(R)
  <2>1. R \in SUBSET R
    OBVIOUS
  <2> QED BY <1>1, <1>2, <1>3, <2>1, TotalOfCounts
<1> QED BY <1>4, <1>5, Zenon DEF Total, n, R, kinds

\* So the charts add up to the overview.
LEMMA ChartsAgree == ASSUME FiguresTyped PROVE ChartsAddUp
<1> DEFINE over == Overview(db, Window, Now)
           C == InRange(db, Window)
<1>1. /\ over.analysed = Cardinality(Analysed(db, C)) /\ over.calls = Cardinality(C)
      /\ over.recorded = Cardinality({c \in C : c.recorded})
      /\ over.risks = Cardinality(RisksOf(db, C))
  BY DEF Overview
<1>2. \A b : SumsToOverview(Timeseries(db, Window, b), over)
  BY ChartAddsUp
<1> HIDE DEF over
<1>3. /\ Total(SentimentBreakdown(db, Window), LAMBDA p : p.count) = over.analysed
      /\ Total(Leaderboard(db, Window, {c.agent : c \in C}), LAMBDA p : p.calls) = over.calls
      /\ Total(CoverageByNumber(db, Window, {c.number : c \in C}), LAMBDA p : p.recorded) = over.recorded
      /\ Total(RiskSummary(db, Window), LAMBDA p : p.count) = over.risks
  BY <1>1, BreakdownAddsUp, BoardAddsUp, LinesAddUp, RisksAddUp, Zenon
<1> QED BY <1>2, <1>3, Zenon DEF ChartsAddUp, over

\* Agents are available in one way or another, or offline: both counts of who is
\* online leave out the offline ones.
LEMMA PresenceAgrees == ASSUME FiguresTyped PROVE OverviewPresence(db) = Snapshot(db)
<1> DEFINE S == {a \in db.agents : a.active}
           key == [a \in S |-> a.status]
           counts == StatusCounts(db)
           K == {a.status : a \in S}
           All == OnlineStatuses \cup {"offline"}
           n == [s \in OnlineStatuses |-> At(counts, s)]
           m == [s \in All |-> At(counts, s)]
<1>1. IsFiniteSet(S) /\ \A a \in S : a.status \in All
  <2>1. /\ IsFiniteSet(Rest.agents) /\ \A a \in Rest.agents : a.status \in All
        /\ "agents" \in DOMAIN Rest
    BY FiguresInputs
  <2>2. db.agents = Rest.agents
    BY <2>1 DEF FiguresTyped
  <2> HIDE DEF All
  <2> QED BY <2>1, <2>2, FS_Subset
<1>2. \A x : At(counts, x) = Cardinality(Class(S, key, x))
  <2>1. DOMAIN counts = {key[a] : a \in S}
    BY DEF Tally, StatusCounts
  <2>2. \A x \in DOMAIN counts : counts[x] = Cardinality(Class(S, key, x))
    <3>1. \A x : Class(S, key, x) = {a \in S : a.status = x}
      BY DEF Class
    <3>2. \A x \in DOMAIN counts : counts[x] = Cardinality({a \in S : a.status = x})
      BY DEF Tally, StatusCounts
    <3> QED BY <3>1, <3>2
  <2> HIDE DEF S, key, counts
  <2> QED BY <2>1, <2>2, TallyCounts
<1>3. K = {key[a] : a \in S} /\ key \in [S -> K] /\ DOMAIN counts = K /\ S \in SUBSET S
  BY DEF Tally, StatusCounts
<1>4. key \in [S -> All]
  BY <1>1
<1>5. \A x : Class(S, key, x) \cap S = Class(S, key, x)
  BY DEF Class
<1>6. OnlineStatuses = (({"available"} \cup {"on_call"}) \cup {"wrap_up"}) \cup {"break"}
      /\ "offline" \notin OnlineStatuses
  BY DEF OnlineStatuses
<1>7. IsFiniteSet(OnlineStatuses) /\ IsFiniteSet(All)
  <2>1. IsFiniteSet({"available"} \cup {"on_call"})
    BY FS_Singleton, FS_AddElement
  <2>2. IsFiniteSet(({"available"} \cup {"on_call"}) \cup {"wrap_up"})
    BY <2>1, FS_AddElement
  <2>3. IsFiniteSet(OnlineStatuses)
    BY <1>6, <2>2, FS_AddElement
  <2> QED BY <2>3, FS_AddElement
<1> HIDE DEF S, key, counts, K
<1>8. SumFunction(counts) = Cardinality(S)
  <2>1. \A x \in K : counts[x] = Cardinality(Class(S, key, x) \cap S)
    BY <1>2, <1>3, <1>5 DEF At
  <2>2. IsFiniteSet(K)
    BY <1>1, <1>3, KeysAreFinite
  <2>3. IsFiniteSet(S) /\ key \in [S -> K] /\ S \in SUBSET S /\ DOMAIN counts = K
    BY <1>1, <1>3
  <2> QED BY <2>1, <2>2, <2>3, TotalOfCounts
<1>9. DOMAIN m = All /\ \A x \in All : m[x] = Cardinality(Class(S, key, x) \cap S) /\ m[x] \in Int
  <2>1. \A x : Class(S, key, x) \in SUBSET S
    BY DEF Class
  <2>2. \A x : Cardinality(Class(S, key, x)) \in Int
    BY <1>1, <2>1, FS_Subset, FS_CardinalityType
  <2> HIDE DEF All
  <2> QED BY <1>2, <1>5, <2>2
<1>10. \A s \in OnlineStatuses : m[s] \in Int /\ n[s] = m[s]
  BY <1>9
<1>11. m["offline"] = At(counts, "offline") /\ m["offline"] \in Int
  BY <1>9
<1>12. DOMAIN n = OnlineStatuses
  OBVIOUS
<1>13. SumFunction(m) = Cardinality(S)
  <2> HIDE DEF m, All
  <2>1. IsFiniteSet(S) /\ IsFiniteSet(All) /\ key \in [S -> All] /\ S \in SUBSET S
    BY <1>1, <1>4, <1>7
  <2>2. DOMAIN m = All /\ \A x \in All : m[x] = Cardinality(Class(S, key, x) \cap S)
    BY <1>9
  <2> QED BY <2>1, <2>2, TotalOfCounts
<1> HIDE DEF m, n
<1>14. SumFunctionOnSet(m, All) = SumFunctionOnSet(m, OnlineStatuses) + m["offline"]
  <2>1. \A x \in OnlineStatuses \cup {"offline"} : m[x] \in Int
    BY <1>9
  <2> QED BY <1>6, <1>7, <2>1, SumInsert
<1>15. SumFunctionOnSet(n, OnlineStatuses) = SumFunctionOnSet(m, OnlineStatuses)
  <2> DEFINE k == [s \in OnlineStatuses |-> m[s]]
  <2>1. k \in [OnlineStatuses -> Int] /\ \A s \in OnlineStatuses : n[s] = k[s] /\ m[s] = k[s]
    BY <1>10
  <2> HIDE DEF k
  <2> QED BY <1>7, <2>1, SumSame
<1>16. SumFunctionOnSet(m, OnlineStatuses) \in Int
  BY <1>7, <1>10, SumType
<1>17. SumFunction(m) = SumFunctionOnSet(m, All) /\ SumFunction(n) = SumFunctionOnSet(n, OnlineStatuses)
  BY <1>9, <1>12, Zenon DEF SumFunction
<1> HIDE DEF All
<1>18. SumFunction(counts) - At(counts, "offline") = SumFunction(n)
  BY <1>8, <1>11, <1>13, <1>14, <1>15, <1>16, <1>17
<1> QED BY <1>18, Zenon DEF OverviewPresence, Snapshot, counts, n

\* The lists are of the rows that the overview counts.
LEMMA ListsShowAll == ASSUME FiguresTyped PROVE ListsAgree
<1> DEFINE C == InRange(db, Window)
           over == Overview(db, Window, Now)
           A == Analysed(db, C)
           yes == Cardinality(Verdicts(db, C, "yes"))
           no == Cardinality(Verdicts(db, C, "no"))
<1>1. /\ over.calls = Cardinality(C) /\ over.missed = Cardinality({c \in C : c.status = "missed"})
      /\ over.satisfied = yes /\ over.unsatisfied = no /\ over.analysed = Cardinality(A)
      /\ over.unknown = Max({0, Cardinality(A) - yes - no})
      /\ over.presence = OverviewPresence(db)
      /\ over.open_tasks = Cardinality(OpenItems(db))
      /\ over.overdue = Cardinality({i \in OpenItems(db) : i.due # NoInstant /\ i.due < Now})
  BY DEF Overview
<1>2. Listed(db, Window, AnyCall) = C
  BY DEF Listed, AnyCall
<1>3. Listed(db, Window, [AnyCall EXCEPT !.status = "missed"]) = {c \in C : c.status = "missed"}
  BY DEF Listed, AnyCall
<1>4. Listed(db, Window, [AnyCall EXCEPT !.satisfied = "no"]) = Verdicts(db, C, "no")
  BY DEF Listed, AnyCall, Verdicts, Analysed
<1>5. yes + no + Max({0, Cardinality(A) - yes - no}) = Cardinality(A)
  <2> DEFINE Y == Verdicts(db, C, "yes")
             N == Verdicts(db, C, "no")
  <2>1. A \in SUBSET db.calls /\ Y \in SUBSET A /\ N \in SUBSET A /\ Y \cap N = {}
    BY DEF Verdicts, Analysed, InRange
  <2> HIDE DEF A, Y, N
  <2>2. IsFiniteSet(A) /\ IsFiniteSet(Y) /\ IsFiniteSet(N)
    BY <2>1, TermsAreNumbers, FS_Subset
  <2>3. /\ Cardinality(A) \in Nat /\ Cardinality(Y) \in Nat /\ Cardinality(N) \in Nat
        /\ Cardinality(Y \cup N) = Cardinality(Y) + Cardinality(N)
        /\ Cardinality(Y \cup N) <= Cardinality(A)
    <3>1. Y \cup N \in SUBSET A
      BY <2>1
    <3>2. Cardinality(Y \cap N) = 0
      BY <2>1, FS_EmptySet
    <3>3. Cardinality(Y \cup N) = Cardinality(Y) + Cardinality(N) - Cardinality(Y \cap N)
      BY <2>2, FS_Union
    <3>4. Cardinality(Y \cup N) <= Cardinality(A)
      BY <2>2, <3>1, FS_Subset
    <3>5. Cardinality(A) \in Nat /\ Cardinality(Y) \in Nat /\ Cardinality(N) \in Nat
      BY <2>2, FS_CardinalityType
    <3> QED BY <3>2, <3>3, <3>4, <3>5
  <2>4. /\ 0 \in Int /\ Cardinality(A) - Cardinality(Y) - Cardinality(N) \in Int
        /\ Cardinality(A) - Cardinality(Y) - Cardinality(N) >= 0
    BY <2>3
  <2>5. Max({0, Cardinality(A) - Cardinality(Y) - Cardinality(N)})
          = Cardinality(A) - Cardinality(Y) - Cardinality(N)
    BY <2>4, MaxMinOfTwo
  <2> QED BY <2>3, <2>5 DEF Y, N
<1>6. /\ BoardTasks(db, "any", "any", FALSE, Now) = OpenItems(db)
      /\ BoardTasks(db, "any", "any", TRUE, Now)
           = {i \in OpenItems(db) : i.due # NoInstant /\ i.due < Now}
  BY DEF BoardTasks, OpenItems
<1>7. OverviewPresence(db) = Snapshot(db)
  BY PresenceAgrees
<1> HIDE DEF C, over, A, yes, no
<1>8. /\ Cardinality(Listed(db, Window, AnyCall)) = over.calls
      /\ Cardinality(Listed(db, Window, [AnyCall EXCEPT !.status = "missed"])) = over.missed
      /\ Cardinality(Listed(db, Window, [AnyCall EXCEPT !.satisfied = "no"])) = over.unsatisfied
      /\ over.satisfied + over.unsatisfied + over.unknown = over.analysed
      /\ over.presence = Snapshot(db)
      /\ Cardinality(BoardTasks(db, "any", "any", FALSE, Now)) = over.open_tasks
      /\ Cardinality(BoardTasks(db, "any", "any", TRUE, Now)) = over.overdue
  BY <1>1, <1>2, <1>3, <1>4, <1>5, <1>6, <1>7, Zenon DEF no
<1> QED BY <1>8, Zenon DEF ListsAgree, over

\* One row that a LIMIT of one keeps counts at least as much as any.
LEMMA TopCountsMost ==
  ASSUME NEW counts, IsFiniteSet(DOMAIN counts), \A x \in DOMAIN counts : counts[x] \in Nat,
         NEW T \in Tops(counts, 1), NEW x \in T, NEW y \in DOMAIN counts
  PROVE  x \in DOMAIN counts /\ counts[x] >= counts[y]
<1>1. /\ T \in SUBSET DOMAIN counts /\ Cardinality(T) = Min({1, Cardinality(DOMAIN counts)})
      /\ \A a \in T, b \in DOMAIN counts \ T : counts[a] >= counts[b]
  BY Zenon DEF Tops
<1>2. Cardinality(T) <= 1
  <2>1. 1 \in Int /\ Cardinality(DOMAIN counts) \in Int
    BY FS_CardinalityType
  <2>2. Min({1, Cardinality(DOMAIN counts)})
          = IF 1 < Cardinality(DOMAIN counts) THEN 1 ELSE Cardinality(DOMAIN counts)
    BY <2>1, MaxMinOfTwo
  <2> QED BY <1>1, <2>1, <2>2
<1>3. y \in T => y = x
  <2>1. SUFFICES ASSUME y \in T, y # x PROVE FALSE
    OBVIOUS
  <2>2. IsFiniteSet(T) /\ IsFiniteSet({x}) /\ Cardinality({x}) = 1
    BY <1>1, FS_Subset, FS_Singleton
  <2>3. Cardinality({x} \cup {y}) = 2
    <3>1. y \notin {x}
      BY <2>1
    <3> DEFINE one == {x}
    <3>2. one \cup {y} = {x} \cup {y} /\ IsFiniteSet(one) /\ Cardinality(one) = 1 /\ y \notin one
      BY <2>2, <3>1
    <3> HIDE DEF one
    <3>3. Cardinality(one \cup {y}) = Cardinality(one) + 1
      BY <3>2, FS_AddElement
    <3> QED BY <3>2, <3>3
  <2>4. Cardinality({x} \cup {y}) <= Cardinality(T)
    <3>1. {x} \cup {y} \in SUBSET T
      BY <2>1
    <3> QED BY <2>2, <3>1, FS_Subset
  <2>5. Cardinality(T) \in Nat
    BY <2>2, FS_CardinalityType
  <2> QED BY <1>2, <2>3, <2>4, <2>5
<1> QED BY <1>1, <1>3

\* The leaderboard and the numbers begin with a row that counts at least as many
\* calls as any.
LEMMA LeadersLead ==
  ASSUME FiguresTyped, NEW w
  PROVE  LET agents == {c.agent : c \in InRange(db, w)}
             board == Leaderboard(db, w, agents)
         IN  \A T \in LeaderboardTops(db, w, 1) :
               \A g \in T, h \in agents : board[g].calls >= board[h].calls
<1> DEFINE C == InRange(db, w)
           key == [c \in C |-> c.agent]
           agents == {c.agent : c \in C}
           board == Leaderboard(db, w, agents)
           counts == Tally(C, LAMBDA c : c.agent)
<1>1. IsFiniteSet(C)
  BY TermsAreNumbers DEF InRange
<1>2. IsFiniteSet(agents)
  <2>1. agents = {key[c] : c \in C} /\ key \in [C -> agents]
    OBVIOUS
  <2> HIDE DEF C, agents, key
  <2> QED BY <1>1, <2>1, KeysAreFinite
<1>3. DOMAIN counts = agents /\ \A x \in agents : counts[x] = Cardinality({c \in C : c.agent = x})
  BY DEF Tally
<1>4. \A x \in agents : board[x].calls = Cardinality({c \in C : c.agent = x})
  BY DEF Leaderboard, AgentRow
<1>5. \A x \in agents : Cardinality({c \in C : c.agent = x}) \in Nat
  <2>1. \A x : {c \in C : c.agent = x} \in SUBSET C
    OBVIOUS
  <2> HIDE DEF C
  <2> QED BY <1>1, <2>1, FS_Subset, FS_CardinalityType
<1>6. LeaderboardTops(db, w, 1) = Tops(counts, 1)
  BY Zenon DEF LeaderboardTops
<1> HIDE DEF agents, board, counts
<1>7. IsFiniteSet(DOMAIN counts) /\ \A x \in DOMAIN counts : counts[x] \in Nat
  BY <1>2, <1>3, <1>5
<1>8. ASSUME NEW T \in Tops(counts, 1), NEW g \in T, NEW h \in agents
      PROVE  board[g].calls >= board[h].calls
  <2>1. g \in DOMAIN counts /\ counts[g] >= counts[h]
    BY <1>3, <1>7, TopCountsMost
  <2> QED BY <1>3, <1>4, <2>1
<1> QED BY <1>6, <1>8, Zenon DEF agents, board

\* The same for the numbers.
LEMMA LinesLead ==
  ASSUME FiguresTyped, NEW w
  PROVE  LET numbers == {c.number : c \in InRange(db, w)}
             lines == CoverageByNumber(db, w, numbers)
         IN  \A T \in CoverageTops(db, w, 1) :
               \A n \in T, o \in numbers : lines[n].calls >= lines[o].calls
<1> DEFINE C == InRange(db, w)
           key == [c \in C |-> c.number]
           numbers == {c.number : c \in C}
           lines == CoverageByNumber(db, w, numbers)
           counts == Tally(C, LAMBDA c : c.number)
<1>1. IsFiniteSet(C)
  BY TermsAreNumbers DEF InRange
<1>2. IsFiniteSet(numbers)
  <2>1. numbers = {key[c] : c \in C} /\ key \in [C -> numbers]
    OBVIOUS
  <2> HIDE DEF C, numbers, key
  <2> QED BY <1>1, <2>1, KeysAreFinite
<1>3. DOMAIN counts = numbers /\ \A x \in numbers : counts[x] = Cardinality({c \in C : c.number = x})
  BY DEF Tally
<1>4. \A x \in numbers : lines[x].calls = Cardinality({c \in C : c.number = x})
  BY DEF CoverageByNumber
<1>5. \A x \in numbers : Cardinality({c \in C : c.number = x}) \in Nat
  <2>1. \A x : {c \in C : c.number = x} \in SUBSET C
    OBVIOUS
  <2> HIDE DEF C
  <2> QED BY <1>1, <2>1, FS_Subset, FS_CardinalityType
<1>6. CoverageTops(db, w, 1) = Tops(counts, 1)
  BY Zenon DEF CoverageTops
<1> HIDE DEF numbers, lines, counts
<1>7. IsFiniteSet(DOMAIN counts) /\ \A x \in DOMAIN counts : counts[x] \in Nat
  BY <1>2, <1>3, <1>5
<1>8. ASSUME NEW T \in Tops(counts, 1), NEW n \in T, NEW o \in numbers
      PROVE  lines[n].calls >= lines[o].calls
  <2>1. n \in DOMAIN counts /\ counts[n] >= counts[o]
    BY <1>3, <1>7, TopCountsMost
  <2> QED BY <1>3, <1>4, <2>1
<1> QED BY <1>6, <1>8, Zenon DEF numbers, lines

\* The calls since the window began are those of the window when it ends after all
\* calls.
LEMMA HomeScreensAddUp ==
  ASSUME FiguresTyped, NEW w, \A t \in Instants : t < w.till
  PROVE  LET agents == {c.agent : c \in InRange(db, w)}
         IN  Total([g \in agents |-> Summary(db, g, w.from)], LAMBDA p : p.calls)
               = Cardinality(InRange(db, w))
<1> DEFINE C == InRange(db, w)
           key == [c \in C |-> c.agent]
           agents == {c.agent : c \in C}
           home == [g \in agents |-> Summary(db, g, w.from)]
           n == [g \in agents |-> home[g].calls]
<1>1. IsFiniteSet(C)
  BY TermsAreNumbers DEF InRange
<1>2. IsFiniteSet(agents) /\ key \in [C -> agents]
  <2>1. agents = {key[c] : c \in C} /\ key \in [C -> agents]
    OBVIOUS
  <2> HIDE DEF C, agents, key
  <2> QED BY <1>1, <2>1, KeysAreFinite
<1>3. DOMAIN n = agents /\ \A g \in agents : n[g] = Cardinality(Class(C, key, g) \cap C)
  <2>1. \A c \in db.calls : c.at \in Int /\ c.at < w.till
    <3>1. Instants \subseteq Int
      BY FiguresInputs
    <3>2. \A c \in db.calls : c.at \in Instants
      BY DEF FiguresTyped
    <3>3. \A c \in db.calls : c.at < w.till
      BY <3>2, Zenon
    <3>4. \A c \in db.calls : c.at \in Int
      BY <3>1, <3>2, Zenon
    <3> QED BY <3>3, <3>4, Zenon
  <2>2. C = {c \in db.calls : w.from <= c.at}
    BY <2>1 DEF InRange
  <2>3. \A g : Class(C, key, g) \cap C = {c \in {d \in db.calls : d.agent = g} : w.from <= c.at}
    BY <2>2 DEF Class
  <2>4. \A g \in agents :
          n[g] = Cardinality({c \in {d \in db.calls : d.agent = g} : c.at >= w.from})
    BY DEF Summary
  <2>5. \A g : {c \in {d \in db.calls : d.agent = g} : c.at >= w.from}
                 = {c \in {d \in db.calls : d.agent = g} : w.from <= c.at}
    OBVIOUS
  <2> HIDE DEF C, key, home
  <2> QED BY <2>3, <2>4, <2>5
<1>4. DOMAIN home = agents
  OBVIOUS
<1> HIDE DEF C, key, agents, home, n
<1>5. SumFunction(n) = Cardinality(C)
  <2>1. C \in SUBSET C
    OBVIOUS
  <2> QED BY <1>1, <1>2, <1>3, <2>1, TotalOfCounts
<1> QED BY <1>4, <1>5, Zenon DEF Total, n, C, agents, home

\* So what is shown of an agent is the same in every place.
LEMMA AgentsShowTheSame == ASSUME FiguresTyped PROVE AgentsAgree
<1> DEFINE C == InRange(db, Window)
           agents == {c.agent : c \in C}
           numbers == {c.number : c \in C}
           board == Leaderboard(db, Window, agents)
           lines == CoverageByNumber(db, Window, numbers)
<1>1. \A g \in agents :
        LET s == AgentStats(db, g, Window, Window.from)
        IN  /\ s.calls = board[g].calls /\ s.sentiment = board[g].sentiment
            /\ s.satisfaction = board[g].satisfaction /\ s.open_tasks = board[g].open_tasks
            /\ OnlyConnectedAnalysed(g) => s.duration = board[g].duration
  <2>1. \A g \in agents : board[g] = AgentRow(db, C, g)
    BY DEF Leaderboard
  <2>2. \A g :
        LET s == AgentStats(db, g, Window, Window.from)
            r == AgentRow(db, C, g)
        IN  /\ s.calls = r.calls /\ s.sentiment = r.sentiment
            /\ s.satisfaction = r.satisfaction /\ s.open_tasks = r.open_tasks
    BY DEF AgentStats, AgentRow
  <2>3. ASSUME NEW g, OnlyConnectedAnalysed(g)
        PROVE  AgentStats(db, g, Window, Window.from).duration = AgentRow(db, C, g).duration
    <3> DEFINE own == {c \in C : c.agent = g}
               mine == {c \in Analysed(db, own) : c.duration # NoDuration}
               ours == {c \in own : c.status # "missed" /\ c.duration # NoDuration}
    <3>1. \A c \in own : c.id \in DOMAIN db.analyses <=> c.status # "missed"
      BY <2>3 DEF OnlyConnectedAnalysed
    <3>2. mine = ours
      BY <3>1 DEF Analysed
    <3>3. AgentStats(db, g, Window, Window.from).duration = IfNonZero(Mean(LAMBDA c : c.duration, mine))
      BY DEF AgentStats
    <3>4. AgentRow(db, C, g).duration = IfNonZero(Mean(LAMBDA c : c.duration, ours))
      BY DEF AgentRow, DurationMean
    <3> HIDE DEF own, mine, ours
    <3> QED BY <3>2, <3>3, <3>4
  <2> HIDE DEF board, C, agents
  <2> QED BY <2>1, <2>2, <2>3
<1>2. \A T \in LeaderboardTops(db, Window, 1) :
        \A g \in T, h \in agents : board[g].calls >= board[h].calls
  BY LeadersLead, Zenon
<1>3. \A T \in CoverageTops(db, Window, 1) :
        \A n \in T, o \in numbers : lines[n].calls >= lines[o].calls
  BY LinesLead, Zenon
<1>4. (\A t \in Instants : t < Window.till)
        => Total([g \in agents |-> Summary(db, g, Window.from)], LAMBDA p : p.calls)
             = Overview(db, Window, Now).calls
  <2>1. Overview(db, Window, Now).calls = Cardinality(C)
    BY DEF Overview
  <2> QED BY <2>1, HomeScreensAddUp, Zenon
<1> QED BY <1>1, <1>2, <1>3, <1>4, Zenon DEF AgentsAgree

-----------------------------------------------------------------------------
(* Pages *)

\* How many calls are newer, and whether no other began at the same time.
Rank(c, C) == Cardinality({d \in C : d.at > c.at})
Alone(c, C) == \A d \in C : d.at = c.at => d = c

\* A page has as many calls as are left for it, and a call that began alone is on it
\* when the calls newer than it fill the pages before.
LEMMA PageIsRanked ==
  ASSUME FiguresTyped, NEW C \in SUBSET db.calls, NEW limit \in Nat \ {0}, NEW off \in Nat,
         NEW P \in Pages(C, limit, off)
  PROVE  /\ Cardinality(P) = Max({0, Min({limit, Cardinality(C) - off})})
         /\ \A c \in C : Alone(c, C) =>
              (c \in P <=> off <= Rank(c, C) /\ Rank(c, C) < off + limit)
<1>1. P \in SUBSET C /\ IsFiniteSet(C) /\ \A c \in C : c.at \in Int
  <2>1. Instants \subseteq Int
    BY FiguresInputs
  <2>2. \A c \in C : c.at \in Instants
    BY DEF FiguresTyped
  <2>3. \A c \in C : c.at \in Int
    BY <2>1, <2>2, Zenon
  <2>4. P \in SUBSET C
    BY Zenon DEF Pages
  <2> QED BY <2>3, <2>4, TermsAreNumbers
<1>2. PICK N \in SUBSET (C \ P) :
        /\ Cardinality(N) = Min({off, Cardinality(C)})
        /\ Cardinality(P) = Min({limit, Cardinality(C) - Cardinality(N)})
        /\ \A x \in N, p \in P : x.at >= p.at
        /\ \A p \in P, o \in C \ (P \cup N) : p.at >= o.at
  BY Zenon DEF Pages
<1> DEFINE s == Cardinality(C)
           n == Cardinality(N)
           m == Cardinality(P)
<1>3. IsFiniteSet(N) /\ IsFiniteSet(P) /\ s \in Nat /\ n \in Nat /\ m \in Nat
  <2>1. IsFiniteSet(N) /\ IsFiniteSet(P)
    BY <1>1, FS_Subset
  <2> QED BY <1>1, <2>1, FS_CardinalityType
<1>4. n = (IF off < s THEN off ELSE s) /\ m = (IF limit < s - n THEN limit ELSE s - n)
  <2>1. Min({off, s}) = (IF off < s THEN off ELSE s)
    BY <1>3, MaxMinOfTwo
  <2>2. s - n \in Int /\ limit \in Int
    BY <1>3
  <2> HIDE DEF s, n, m
  <2>3. Min({limit, s - n}) = (IF limit < s - n THEN limit ELSE s - n)
    BY <2>2, MaxMinOfTwo
  <2> QED BY <1>2, <2>1, <2>3 DEF s, n, m
<1> HIDE DEF s, n, m
<1>5. m = Max({0, Min({limit, s - off})})
  <2>1. s - off \in Int /\ limit \in Int /\ 0 \in Int
    BY <1>3
  <2>2. Min({limit, s - off}) = (IF limit < s - off THEN limit ELSE s - off)
    BY <2>1, MaxMinOfTwo
  <2>3. Min({limit, s - off}) \in Int
    BY <2>1, <2>2
  <2>4. Max({0, Min({limit, s - off})})
          = (IF 0 < Min({limit, s - off}) THEN Min({limit, s - off}) ELSE 0)
    <3> DEFINE q == Min({limit, s - off})
    <3>1. q \in Int
      BY <2>3
    <3> HIDE DEF q
    <3>2. Max({0, q}) = (IF 0 < q THEN q ELSE 0)
      BY <2>1, <3>1, MaxMinOfTwo
    <3> QED BY <3>2 DEF q
  <2> QED BY <1>3, <1>4, <2>2, <2>4
<1>6. ASSUME NEW c \in C, Alone(c, C)
      PROVE  c \in P <=> off <= Rank(c, C) /\ Rank(c, C) < off + limit
  <2> DEFINE H == {d \in C : d.at > c.at}
             h == Rank(c, C)
  <2>1. H \in SUBSET C /\ c \notin H /\ IsFiniteSet(H) /\ h = Cardinality(H) /\ h \in Nat
    <3>1. H \in SUBSET C /\ c \notin H /\ h = Cardinality(H)
      BY <1>1 DEF Rank
    <3>2. IsFiniteSet(H)
      BY <1>1, <3>1, FS_Subset
    <3> QED BY <3>1, <3>2, FS_CardinalityType
  <2>2. \A d \in C : d \in H <=> d.at > c.at
    OBVIOUS
  <2> HIDE DEF H, h
  <2>3. IsFiniteSet(H \cup {c}) /\ Cardinality(H \cup {c}) = h + 1
    BY <2>1, FS_AddElement
  <2>4. IsFiniteSet(N \cup P) /\ Cardinality(N \cup P) = n + m /\ N \cap P = {}
    <3>1. N \cap P = {} /\ Cardinality(N \cap P) = 0
      BY FS_EmptySet
    <3>2. IsFiniteSet(N \cup P) /\ Cardinality(N \cup P) = n + m - Cardinality(N \cap P)
      BY <1>3, FS_Union DEF n, m
    <3> QED BY <1>3, <3>1, <3>2
  <2>5. \A d \in C : d # c => d.at > c.at \/ d.at < c.at
    BY <1>1, <1>6 DEF Alone
  <2>6. P = {} => N = C
    <3>1. P = {} => m = 0
      BY FS_EmptySet DEF m
    <3>2. P = {} => n = s
      BY <1>3, <1>4, <3>1
    <3>3. N \in SUBSET C
      OBVIOUS
    <3> QED BY <1>1, <3>2, <3>3, FS_Subset DEF n, s
  <2>7. CASE c \in N
    <3>1. H \cup {c} \in SUBSET N
      <4>1. SUFFICES ASSUME NEW d \in H, d \notin N PROVE FALSE
        BY <2>7
      <4>2. d \in C /\ d.at > c.at /\ d.at \in Int /\ c.at \in Int
        BY <1>1, <2>1, <2>2
      <4>3. CASE d \in P
        <5>1. c.at >= d.at
          BY <1>2, <2>7, <4>3
        <5> QED BY <4>2, <5>1
      <4>4. CASE d \notin P
        <5>1. PICK p \in P : TRUE
          BY <2>6, <4>1, <4>2
        <5>2. c.at >= p.at /\ p.at >= d.at /\ p.at \in Int
          BY <1>1, <1>2, <2>7, <4>1, <4>2, <4>4
        <5> QED BY <4>2, <5>2
      <4> QED BY <4>3, <4>4
    <3>2. h + 1 <= n
      BY <1>3, <2>3, <3>1, FS_Subset DEF n
    <3>3. c \notin P
      BY <2>7
    <3> QED BY <1>3, <1>4, <2>1, <3>2, <3>3 DEF h
  <2>8. CASE c \in P
    <3>1. N \in SUBSET H
      <4>1. SUFFICES ASSUME NEW d \in N PROVE d \in H
        OBVIOUS
      <4>2. d \in C /\ d # c /\ d.at >= c.at
        BY <1>2, <2>8
      <4> QED BY <1>1, <2>2, <2>5, <4>2
    <3>2. H \cup {c} \in SUBSET (N \cup P)
      <4>1. SUFFICES ASSUME NEW d \in H, d \notin N \cup P PROVE FALSE
        BY <2>8
      <4>2. d \in C /\ c.at >= d.at /\ d.at > c.at
        BY <1>2, <2>1, <2>2, <2>8, <4>1
      <4> QED BY <1>1, <4>2
    <3>3. n <= h
      BY <2>1, <3>1, FS_Subset DEF n
    <3>4. h + 1 <= n + m
      BY <2>3, <2>4, <3>2, FS_Subset
    <3>5. m # 0
      BY <1>3, <2>8, FS_EmptySet DEF m
    <3>6. off <= h /\ h < off + limit
      BY <1>3, <1>4, <2>1, <3>3, <3>4, <3>5
    <3> QED BY <2>8, <3>6 DEF h
  <2>9. CASE c \notin N \cup P
    <3>1. N \cup P \in SUBSET H
      <4>1. PICK q \in P : TRUE
        BY <2>6, <2>9
      <4>2. \A p \in P : p.at >= c.at
        BY <1>2, <2>9
      <4>3. ASSUME NEW d \in N \cup P PROVE d.at >= c.at
        <5>1. CASE d \in P
          BY <4>2, <5>1
        <5>2. CASE d \in N
          <6>1. d.at >= q.at /\ q.at >= c.at /\ d.at \in Int /\ q.at \in Int /\ c.at \in Int
            BY <1>1, <1>2, <4>2, <5>2
          <6> QED BY <6>1
        <5> QED BY <5>1, <5>2
      <4>4. ASSUME NEW d \in N \cup P PROVE d \in H
        <5>1. d \in C /\ d # c /\ d.at \in Int /\ c.at \in Int /\ d.at >= c.at
          BY <1>1, <2>9, <4>3
        <5> QED BY <2>2, <2>5, <5>1
      <4> QED BY <4>4
    <3>2. n + m <= h
      BY <2>1, <2>4, <3>1, FS_Subset
    <3>3. n + m + 1 <= s
      <4>1. Cardinality((N \cup P) \cup {c}) = n + m + 1
        BY <1>3, <2>4, <2>9, FS_AddElement
      <4>2. (N \cup P) \cup {c} \in SUBSET C
        BY <1>1
      <4> QED BY <1>1, <4>1, <4>2, FS_Subset DEF s
    <3>4. ~(h < off + limit)
      BY <1>3, <1>4, <2>1, <3>2, <3>3
    <3> QED BY <2>9, <3>4 DEF h
  <2> QED BY <2>7, <2>8, <2>9
<1> QED BY <1>5, <1>6 DEF m, s

\* One page begins at or before a rank and ends after it.
LEMMA OnePageForARank ==
  ASSUME NEW limit \in 1..2, NEW r \in Nat
  PROVE  \E k \in 0..r : \A j \in Nat : j * limit <= r /\ r < j * limit + limit <=> j = k
<1>1. CASE limit = 1
  BY <1>1
<1>2. CASE limit = 2
  <2>1. r \div 2 \in 0..r /\ \A j \in Nat : j * 2 <= r /\ r < j * 2 + 2 <=> j = r \div 2
    OBVIOUS
  <2> QED BY <1>2, <2>1
<1> QED BY <1>1, <1>2

\* So every call that began alone is on one page, and no page is short before the last.
LEMMA PagesShowAll == ASSUME FiguresTyped PROVE PagesCover
<1> SUFFICES ASSUME NEW limit \in 1..2
    PROVE  LET C == Listed(db, Window, AnyCall)
               pages(k) == ListCalls(db, Window, AnyCall, limit, k * limit)
               alone == {c \in C : \A d \in C : d.at = c.at => d = c}
           IN  /\ \A c \in alone : \E k \in 0..Cardinality(C) :
                    \A j \in 0..Cardinality(C) : \A p \in pages(j) : c \in DOMAIN p.items <=> j = k
               /\ \A k \in 0..Cardinality(C) : \A p \in pages(k) :
                    Cardinality(DOMAIN p.items) = Max({0, Min({limit, p.total - k * limit})})
  BY Zenon DEF PagesCover
<1> DEFINE C == Listed(db, Window, AnyCall)
           pages(k) == ListCalls(db, Window, AnyCall, limit, k * limit)
<1>1. C \in SUBSET db.calls /\ IsFiniteSet(C)
  <2>1. C \in SUBSET db.calls
    BY DEF Listed, InRange
  <2> HIDE DEF C
  <2> QED BY <2>1, TermsAreNumbers
<1>2. ASSUME NEW j \in Nat, NEW p \in pages(j)
      PROVE  p.total = Cardinality(C) /\ DOMAIN p.items \in Pages(C, limit, j * limit)
  <2>1. PICK P \in Pages(C, limit, j * limit) :
          p = [total |-> Cardinality(C), items |-> [c \in P |-> ListedRow(db, c)]]
    BY Zenon DEF ListCalls
  <2> HIDE DEF C
  <2>2. p.total = Cardinality(C) /\ p.items = [c \in P |-> ListedRow(db, c)]
    BY <2>1
  <2>3. DOMAIN [c \in P |-> ListedRow(db, c)] = P
    OBVIOUS
  <2> QED BY <2>1, <2>2, <2>3, Zenon
<1> HIDE DEF C, pages
<1>3. ASSUME NEW j \in Nat, NEW p \in pages(j)
      PROVE  /\ Cardinality(DOMAIN p.items) = Max({0, Min({limit, p.total - j * limit})})
             /\ \A c \in C : Alone(c, C) =>
                  (c \in DOMAIN p.items
                     <=> j * limit <= Rank(c, C) /\ Rank(c, C) < j * limit + limit)
  <2> DEFINE P == DOMAIN p.items
             off == j * limit
  <2>1. limit \in Nat \ {0} /\ off \in Nat
    OBVIOUS
  <2>2. p.total = Cardinality(C) /\ P \in Pages(C, limit, off)
    BY <1>2
  <2> HIDE DEF P, off
  <2>3. /\ Cardinality(P) = Max({0, Min({limit, Cardinality(C) - off})})
        /\ \A c \in C : Alone(c, C) => (c \in P <=> off <= Rank(c, C) /\ Rank(c, C) < off + limit)
    BY <1>1, <2>1, <2>2, PageIsRanked
  <2> QED BY <2>2, <2>3, Zenon DEF P, off
<1>4. ASSUME NEW c \in C, Alone(c, C)
      PROVE  \E k \in 0..Cardinality(C) :
               \A j \in 0..Cardinality(C) : \A p \in pages(j) : c \in DOMAIN p.items <=> j = k
  <2>1. Rank(c, C) \in Nat /\ Rank(c, C) <= Cardinality(C) /\ Cardinality(C) \in Nat
    <3>1. {d \in C : d.at > c.at} \in SUBSET C
      OBVIOUS
    <3> QED BY <1>1, <3>1, FS_Subset, FS_CardinalityType DEF Rank
  <2>2. PICK k \in 0..Rank(c, C) :
          \A j \in Nat : j * limit <= Rank(c, C) /\ Rank(c, C) < j * limit + limit <=> j = k
    BY <2>1, OnePageForARank
  <2>3. k \in 0..Cardinality(C)
    BY <2>1
  <2>4. \A j \in 0..Cardinality(C) : j \in Nat
    BY <2>1
  <2>5. \A j \in 0..Cardinality(C) : \A p \in pages(j) : c \in DOMAIN p.items <=> j = k
    BY <1>3, <1>4, <2>2, <2>4, Zenon
  <2> QED BY <2>3, <2>5
<1>5. \A k \in 0..Cardinality(C) : \A p \in pages(k) :
        Cardinality(DOMAIN p.items) = Max({0, Min({limit, p.total - k * limit})})
  <2>1. \A k \in 0..Cardinality(C) : k \in Nat
    BY <1>1, FS_CardinalityType
  <2> QED BY <1>3, <2>1, Zenon
<1> QED BY <1>4, <1>5, Zenon DEF Alone, C, pages

-----------------------------------------------------------------------------
(* Windows that meet *)

\* The windows before and after an instant of a window.
First(w, t) == [w EXCEPT !.till = t]
Then(w, t) == [w EXCEPT !.from = t]

\* They share no call, and no lead, and leave none out.
LEMMA WindowsPart ==
  ASSUME FiguresTyped, NEW a \in Int, NEW t \in Int, NEW b \in Int, a <= t, t <= b,
         NEW w, w = [from |-> a, till |-> b]
  PROVE  /\ InRange(db, First(w, t)) \cup InRange(db, Then(w, t)) = InRange(db, w)
         /\ InRange(db, First(w, t)) \cap InRange(db, Then(w, t)) = {}
         /\ Leads(db, First(w, t), "any", "any") \cup Leads(db, Then(w, t), "any", "any")
              = Leads(db, w, "any", "any")
         /\ Leads(db, First(w, t), "any", "any") \cap Leads(db, Then(w, t), "any", "any") = {}
         /\ IsFiniteSet(Leads(db, w, "any", "any"))
<1>1. First(w, t) = [from |-> a, till |-> t] /\ Then(w, t) = [from |-> t, till |-> b]
  BY DEF First, Then
<1>2. \A c \in db.calls : c.at \in Int
  <2>1. Instants \subseteq Int
    BY FiguresInputs
  <2>2. \A c \in db.calls : c.at \in Instants
    BY DEF FiguresTyped
  <2> QED BY <2>1, <2>2, Zenon
<1>3. IsFiniteSet(db.leads) /\ \A l \in db.leads : l.at \in Int
  <2>1. /\ IsFiniteSet(Rest.leads) /\ "leads" \in DOMAIN Rest
        /\ \A l \in Rest.leads : l.at \in Int
    BY FiguresInputs
  <2>2. db.leads = Rest.leads
    BY <2>1 DEF FiguresTyped
  <2> QED BY <2>1, <2>2
<1>4. \A x, y \in Int : InRange(db, [from |-> x, till |-> y]) = {c \in db.calls : x <= c.at /\ c.at < y}
  BY DEF InRange
<1>5. \A x, y \in Int : Leads(db, [from |-> x, till |-> y], "any", "any")
                          = {l \in db.leads : x <= l.at /\ l.at < y}
  BY DEF Leads
<1>6. /\ InRange(db, First(w, t)) = {c \in db.calls : a <= c.at /\ c.at < t}
      /\ InRange(db, Then(w, t)) = {c \in db.calls : t <= c.at /\ c.at < b}
      /\ InRange(db, w) = {c \in db.calls : a <= c.at /\ c.at < b}
  BY <1>1, <1>4, Zenon
<1>7. /\ Leads(db, First(w, t), "any", "any") = {l \in db.leads : a <= l.at /\ l.at < t}
      /\ Leads(db, Then(w, t), "any", "any") = {l \in db.leads : t <= l.at /\ l.at < b}
      /\ Leads(db, w, "any", "any") = {l \in db.leads : a <= l.at /\ l.at < b}
  BY <1>1, <1>5, Zenon
<1>8. \A S : (\A x \in S : x.at \in Int)
        => /\ {x \in S : a <= x.at /\ x.at < t} \cup {x \in S : t <= x.at /\ x.at < b}
                = {x \in S : a <= x.at /\ x.at < b}
           /\ {x \in S : a <= x.at /\ x.at < t} \cap {x \in S : t <= x.at /\ x.at < b} = {}
  OBVIOUS
<1>9. IsFiniteSet({l \in db.leads : a <= l.at /\ l.at < b})
  BY <1>3, FS_Subset
<1> QED BY <1>2, <1>3, <1>6, <1>7, <1>8, <1>9, Zenon

\* Two sets of calls that share none share no risk flag: a flag names its call.
LEMMA RisksPart ==
  ASSUME FiguresTyped, NEW C \in SUBSET db.calls, NEW D \in SUBSET db.calls, C \cap D = {}
  PROVE  /\ RisksOf(db, C \cup D) = RisksOf(db, C) \cup RisksOf(db, D)
         /\ RisksOf(db, C) \cap RisksOf(db, D) = {}
<1>1. Analysed(db, C \cup D) = Analysed(db, C) \cup Analysed(db, D)
  BY DEF Analysed
<1>2. RisksOf(db, C \cup D) = RisksOf(db, C) \cup RisksOf(db, D)
  <2> DEFINE rows(c) == {[call |-> c.id, nr |-> i, flag |-> db.analyses[c.id].risks[i]] :
                           i \in DOMAIN db.analyses[c.id].risks}
  <2>1. \A B : RisksOf(db, B) = UNION {rows(c) : c \in Analysed(db, B)}
    BY Zenon DEF RisksOf
  <2> HIDE DEF rows
  <2>2. \A B, r : r \in RisksOf(db, B) <=> \E c \in Analysed(db, B) : r \in rows(c)
    BY <2>1
  <2>3. \A r : r \in RisksOf(db, C \cup D) <=> r \in RisksOf(db, C) \/ r \in RisksOf(db, D)
    BY <1>1, <2>2
  <2> QED BY <2>3
<1>3. \A B \in SUBSET db.calls : \A r \in RisksOf(db, B) : \E c \in B : r.call = c.id
  BY DEF RisksOf, Analysed
<1>4. \A c \in C, d \in D : c.id # d.id
  BY DEF FiguresTyped
<1>5. ASSUME NEW r \in RisksOf(db, C), r \in RisksOf(db, D) PROVE FALSE
  <2>1. PICK c \in C : r.call = c.id
    BY <1>3
  <2>2. PICK d \in D : r.call = d.id
    BY <1>3, <1>5
  <2> QED BY <1>4, <2>1, <2>2
<1> QED BY <1>2, <1>5

\* How often a speaker used a term in each of the calls.
UsesOf(C, who, term) ==
  [c \in C |-> IF c.id \in DOMAIN db.analyses /\ who \in DOMAIN db.analyses[c.id].fillers
                 THEN At(db.analyses[c.id].fillers[who], term) ELSE 0]

\* The Counter over the analyses of a window holds their sum.
LEMMA FillersAreSums ==
  ASSUME FiguresTyped, NEW w, NEW who, NEW term
  PROVE  /\ UsesOf(db.calls, who, term) \in [db.calls -> Int]
         /\ At(FillerCounts(db, w, who), term)
              = SumFunctionOnSet(UsesOf(db.calls, who, term), InRange(db, w))
<1> DEFINE C == InRange(db, w)
           A == {c \in Analysed(db, C) : who \in DOMAIN db.analyses[c.id].fillers}
           said(c) == db.analyses[c.id].fillers[who]
           uses == UsesOf(db.calls, who, term)
           mine == [c \in A |-> At(said(c), term)]
<1>1. C \in SUBSET db.calls /\ A \in SUBSET C /\ IsFiniteSet(C) /\ IsFiniteSet(A) /\ IsFiniteSet(C \ A)
  <2>1. C \in SUBSET db.calls /\ A \in SUBSET C
    BY DEF InRange, Analysed
  <2> HIDE DEF A, C
  <2>2. IsFiniteSet(C)
    BY <2>1, TermsAreNumbers
  <2> QED BY <2>1, <2>2, FS_Subset
<1>2. uses \in [db.calls -> Int]
  <2>1. \A v \in Verdicts0 : \A x \in DOMAIN v.fillers : \A y \in DOMAIN v.fillers[x] : v.fillers[x][y] \in Int
    <3>1. \A v \in Verdicts0 : \A x \in DOMAIN v.fillers : \A y \in DOMAIN v.fillers[x] : v.fillers[x][y] \in Nat
      BY FiguresInputs, Zenon
    <3> QED BY <3>1
  <2>2. \A id \in DOMAIN db.analyses : db.analyses[id] \in Verdicts0
    BY DEF FiguresTyped
  <2>3. ASSUME NEW c \in db.calls, c.id \in DOMAIN db.analyses, who \in DOMAIN db.analyses[c.id].fillers
        PROVE  At(said(c), term) \in Int
    BY <2>1, <2>2, <2>3 DEF At
  <2> QED BY <2>3 DEF UsesOf
<1>3. /\ \A c \in A : uses[c] = At(said(c), term) /\ mine[c] = uses[c]
      /\ \A c \in C \ A : uses[c] = 0
  BY <1>1 DEF UsesOf, Analysed
<1>4. DOMAIN mine = A
  OBVIOUS
<1>5. /\ DOMAIN FillerCounts(db, w, who) = UNION {DOMAIN said(c) : c \in A}
      /\ term \in DOMAIN FillerCounts(db, w, who)
           => FillerCounts(db, w, who)[term] = SumFunction(mine)
  BY DEF FillerCounts
<1>6. term \notin DOMAIN FillerCounts(db, w, who) => \A c \in A : At(said(c), term) = 0
  BY <1>5 DEF At
<1> HIDE DEF C, A, said, uses, mine
<1>7. SumFunctionOnSet(uses, C) = SumFunctionOnSet(uses, A)
  <2>1. SumFunctionOnSet(uses, C \ A) = 0
    BY <1>1, <1>3, SumOfZeros
  <2>2. A \cup (C \ A) = C /\ A \cap (C \ A) = {} /\ \A c \in A \cup (C \ A) : uses[c] \in Int
    BY <1>1, <1>2
  <2>3. SumFunctionOnSet(uses, A \cup (C \ A))
          = SumFunctionOnSet(uses, A) + SumFunctionOnSet(uses, C \ A)
    BY <1>1, <2>2, SumUnion
  <2>4. SumFunctionOnSet(uses, A) \in Int
    <3>1. \A c \in A : uses[c] \in Int
      BY <2>2
    <3> QED BY <1>1, <3>1, SumType
  <2>5. SumFunctionOnSet(uses, C) = SumFunctionOnSet(uses, A) + 0
    BY <2>1, <2>2, <2>3, Zenon
  <2> QED BY <2>4, <2>5
<1>8. SumFunction(mine) = SumFunctionOnSet(uses, A)
  <2> DEFINE k == [c \in A |-> uses[c]]
  <2>1. k \in [A -> Int] /\ \A c \in A : mine[c] = k[c] /\ uses[c] = k[c]
    BY <1>1, <1>2, <1>3
  <2> HIDE DEF k
  <2>2. SumFunctionOnSet(mine, A) = SumFunctionOnSet(k, A) /\ SumFunctionOnSet(uses, A) = SumFunctionOnSet(k, A)
    BY <1>1, <2>1, SumSame
  <2> QED BY <1>4, <2>2, Zenon DEF SumFunction
<1>9. term \notin DOMAIN FillerCounts(db, w, who) => SumFunctionOnSet(uses, A) = 0
  BY <1>1, <1>3, <1>6, SumOfZeros
<1>10. At(FillerCounts(db, w, who), term) = SumFunctionOnSet(uses, C)
  BY <1>5, <1>7, <1>8, <1>9, Zenon DEF At
<1> QED BY <1>2, <1>10 DEF uses, C

\* What is counted in two windows that meet adds up.
LEMMA MeetingWindowsAddUp ==
  ASSUME FiguresTyped, NEW a \in Int, NEW t \in Int, NEW b \in Int, a <= t, t <= b,
         NEW w, w = [from |-> a, till |-> b]
  PROVE  LET first == First(w, t)
             then  == Then(w, t)
         IN  /\ Cardinality(InRange(db, first)) + Cardinality(InRange(db, then))
                  = Cardinality(InRange(db, w))
             /\ Cardinality(RisksOf(db, InRange(db, first))) + Cardinality(RisksOf(db, InRange(db, then)))
                  = Cardinality(RisksOf(db, InRange(db, w)))
             /\ At(FillerCounts(db, first, "agent"), "um") + At(FillerCounts(db, then, "agent"), "um")
                  = At(FillerCounts(db, w, "agent"), "um")
             /\ Cardinality(Leads(db, first, "any", "any")) + Cardinality(Leads(db, then, "any", "any"))
                  = Cardinality(Leads(db, w, "any", "any"))
<1> DEFINE C == InRange(db, First(w, t))
           D == InRange(db, Then(w, t))
           L == Leads(db, First(w, t), "any", "any")
           M == Leads(db, Then(w, t), "any", "any")
           uses == UsesOf(db.calls, "agent", "um")
<1>1. /\ C \in SUBSET db.calls /\ D \in SUBSET db.calls
      /\ C \cup D = InRange(db, w) /\ C \cap D = {}
      /\ L \cup M = Leads(db, w, "any", "any") /\ L \cap M = {}
      /\ IsFiniteSet(Leads(db, w, "any", "any"))
  <2>1. C \in SUBSET db.calls /\ D \in SUBSET db.calls
    BY DEF InRange
  <2> QED BY <2>1, WindowsPart
<1>2. /\ At(FillerCounts(db, First(w, t), "agent"), "um") = SumFunctionOnSet(uses, C)
      /\ At(FillerCounts(db, Then(w, t), "agent"), "um") = SumFunctionOnSet(uses, D)
      /\ At(FillerCounts(db, w, "agent"), "um") = SumFunctionOnSet(uses, InRange(db, w))
      /\ uses \in [db.calls -> Int]
  BY FillersAreSums, Zenon
<1> HIDE DEF C, D, L, M, uses
<1>3. IsFiniteSet(C) /\ IsFiniteSet(D) /\ IsFiniteSet(L) /\ IsFiniteSet(M)
  <2>1. L \in SUBSET (L \cup M) /\ M \in SUBSET (L \cup M)
    OBVIOUS
  <2> QED BY <1>1, <2>1, TermsAreNumbers, FS_Subset
<1>4. ASSUME NEW S, NEW T, IsFiniteSet(S), IsFiniteSet(T), S \cap T = {}
      PROVE  Cardinality(S) + Cardinality(T) = Cardinality(S \cup T)
  <2>1. Cardinality(S \cap T) = 0 /\ Cardinality(S) \in Nat /\ Cardinality(T) \in Nat
    BY <1>4, FS_EmptySet, FS_CardinalityType
  <2>2. Cardinality(S \cup T) = Cardinality(S) + Cardinality(T) - Cardinality(S \cap T)
    BY <1>4, FS_Union
  <2> QED BY <2>1, <2>2
<1>5. Cardinality(C) + Cardinality(D) = Cardinality(InRange(db, w))
  BY <1>1, <1>3, <1>4, Zenon
<1>6. Cardinality(RisksOf(db, C)) + Cardinality(RisksOf(db, D)) = Cardinality(RisksOf(db, InRange(db, w)))
  <2>1. IsFiniteSet(RisksOf(db, C)) /\ IsFiniteSet(RisksOf(db, D))
    BY <1>1, RisksAreFinite
  <2>2. /\ RisksOf(db, C \cup D) = RisksOf(db, C) \cup RisksOf(db, D)
        /\ RisksOf(db, C) \cap RisksOf(db, D) = {}
    BY <1>1, RisksPart
  <2> QED BY <1>1, <1>4, <2>1, <2>2, Zenon
<1>7. SumFunctionOnSet(uses, C) + SumFunctionOnSet(uses, D) = SumFunctionOnSet(uses, InRange(db, w))
  <2>1. \A x \in C \cup D : uses[x] \in Int
    BY <1>1, <1>2
  <2>2. SumFunctionOnSet(uses, C \cup D) = SumFunctionOnSet(uses, C) + SumFunctionOnSet(uses, D)
    BY <1>1, <1>3, <2>1, SumUnion
  <2> QED BY <1>1, <2>2, Zenon
<1>8. Cardinality(L) + Cardinality(M) = Cardinality(Leads(db, w, "any", "any"))
  BY <1>1, <1>3, <1>4, Zenon
<1> QED BY <1>2, <1>5, <1>6, <1>7, <1>8, Zenon DEF C, D, L, M

\* So it does for every instant of a window that is asked for.
LEMMA WindowsMeet == ASSUME FiguresTyped PROVE WindowsAdjoin
<1>1. PICK a \in Int, b \in Int : Window = [from |-> a, till |-> b] /\ a <= b
  <2>1. Window.from \in Int /\ Window.till \in Int /\ Window.from <= Window.till
    BY WindowInRange
  <2>2. Window = [from |-> Window.from, till |-> Window.till]
    BY DEF Window, ResolveRange
  <2> QED BY <2>1, <2>2
<1>2. ASSUME NEW t \in {x \in Instants : Window.from <= x /\ x <= Window.till}
      PROVE  LET first == [Window EXCEPT !.till = t]
                 then  == [Window EXCEPT !.from = t]
                 Adds(f(_)) == f(first) + f(then) = f(Window)
             IN  /\ Adds(LAMBDA w : Overview(db, w, Now).calls)
                 /\ Adds(LAMBDA w : Overview(db, w, Now).risks)
                 /\ Adds(LAMBDA w : At(FillerCounts(db, w, "agent"), "um"))
                 /\ Adds(LAMBDA w : Cardinality(Leads(db, w, "any", "any")))
  <2>1. Window.from = a /\ Window.till = b
    BY <1>1
  <2>2. t \in Int /\ a <= t /\ t <= b
    <3>1. Instants \subseteq Int
      BY FiguresInputs
    <3>2. t \in Int
      BY <3>1, Zenon
    <3> QED BY <2>1, <3>2
  <2>3. \A w : /\ Overview(db, w, Now).calls = Cardinality(InRange(db, w))
               /\ Overview(db, w, Now).risks = Cardinality(RisksOf(db, InRange(db, w)))
    BY DEF Overview
  <2>4. /\ Cardinality(InRange(db, First(Window, t))) + Cardinality(InRange(db, Then(Window, t)))
             = Cardinality(InRange(db, Window))
        /\ Cardinality(RisksOf(db, InRange(db, First(Window, t))))
             + Cardinality(RisksOf(db, InRange(db, Then(Window, t))))
             = Cardinality(RisksOf(db, InRange(db, Window)))
        /\ At(FillerCounts(db, First(Window, t), "agent"), "um")
             + At(FillerCounts(db, Then(Window, t), "agent"), "um")
             = At(FillerCounts(db, Window, "agent"), "um")
        /\ Cardinality(Leads(db, First(Window, t), "any", "any"))
             + Cardinality(Leads(db, Then(Window, t), "any", "any"))
             = Cardinality(Leads(db, Window, "any", "any"))
    BY <1>1, <2>2, MeetingWindowsAddUp
  <2> QED BY <2>3, <2>4, Zenon DEF First, Then
<1> QED BY <1>2, Zenon DEF WindowsAdjoin

\* Two places that show one thing show one number: charts, breakdowns, boards,
\* lists, home screens and pages are of the calls the overview counts, for any
\* tables, any request and any division of its window.
THEOREM FiguresAgreeEverywhere == FiguresSpec => []FiguresAgree
<1>1. FiguresTyped => FiguresAgree
  BY ChartsAgree, ListsShowAll, AgentsShowTheSame, PagesShowAll, WindowsMeet DEF FiguresAgree
<1> QED BY <1>1, FiguresTypedInvariant, PTL

-----------------------------------------------------------------------------
(* From what is heard to a transcript *)

ChunkSet == [start : Int, end : Int, text : STRING]
Speakers == {"agent", "customer", "unknown"}
SegmentSet == [start : Int, end : Int, text : STRING, speaker : Speakers]

\* How often a text is said.
Said(s, x) == Cardinality({i \in DOMAIN s : s[i].text = x})

\* The loop that drops what has no text.
Keeps(g, s, conv) ==
  g = [T \in SUBSET DOMAIN s |->
         IF T = {} THEN <<>>
         ELSE IF s[Max(T)].text = NoText THEN g[T \ {Max(T)}]
         ELSE Append(g[T \ {Max(T)}], conv[s[Max(T)]])]

\* What changes an element without touching its text.
Rewordings(E, F) == {conv \in [E -> F] : \A e \in E : conv[e].text = e.text}

LEMMA KeepsRuns ==
  ASSUME NEW E, NEW s \in Seq(E), NEW F, NEW conv \in Rewordings(E, F)
  PROVE  \E g : Keeps(g, s, conv)
<1> DEFINE step == [p \in E \X Seq(F) |->
                      IF p[1].text = NoText THEN p[2] ELSE Append(p[2], conv[p[1]])]
<1>1. step \in [E \X Seq(F) -> Seq(F)]
  BY DEF Rewordings
<1>2. DOMAIN s = 1..Len(s) /\ Len(s) \in Nat /\ \A i \in DOMAIN s : s[i] \in E
  OBVIOUS
<1>3. \A T \in SUBSET DOMAIN s : T # {} => Max(T) \in T
  BY <1>2, FirstIndices
<1> QED
  <2>1. PICK g : g \in [SUBSET DOMAIN s -> Seq(F)] /\ Loops(g, s, <<>>, step)
    <3>1. <<>> \in Seq(F)
      OBVIOUS
    <3> HIDE DEF step
    <3> QED BY <1>1, <3>1, LoopRuns
  <2>2. ASSUME NEW T \in SUBSET DOMAIN s, T # {}
        PROVE  step[<<s[Max(T)], g[T \ {Max(T)}]>>]
                 = IF s[Max(T)].text = NoText THEN g[T \ {Max(T)}]
                   ELSE Append(g[T \ {Max(T)}], conv[s[Max(T)]])
    <3>1. s[Max(T)] \in E /\ g[T \ {Max(T)}] \in Seq(F)
      BY <1>2, <1>3, <2>1, <2>2
    <3>2. \A e \in E, q \in Seq(F) :
            step[<<e, q>>] = IF e.text = NoText THEN q ELSE Append(q, conv[e])
      OBVIOUS
    <3> HIDE DEF step
    <3> QED BY <3>1, <3>2
  <2> HIDE DEF step
  <2>3. Keeps(g, s, conv)
    BY <2>1, <2>2 DEF Loops, Keeps
  <2> QED BY <2>3

\* A loop that drops what has no text and changes the rest without touching its text
\* says every text as often as it was said.
LEMMA KeepsTexts ==
  ASSUME NEW E, NEW s \in Seq(E), NEW F, NEW conv \in Rewordings(E, F), NEW r, Keeps(r, s, conv)
  PROVE  /\ r[DOMAIN s] \in Seq(F)
         /\ \A x : x # NoText => Said(r[DOMAIN s], x) = Said(s, x)
<1>1. DOMAIN s = 1..Len(s) /\ Len(s) \in Nat
  OBVIOUS
<1>2. r[1..0] = <<>>
  <2>1. 1..0 = {} /\ {} \in SUBSET DOMAIN s
    OBVIOUS
  <2> QED BY <2>1 DEF Keeps
<1>3. ASSUME NEW n \in 1..Len(s)
      PROVE r[1..n] = IF s[n].text = NoText THEN r[1..(n - 1)] ELSE Append(r[1..(n - 1)], conv[s[n]])
  <2>1. 1..n \in SUBSET DOMAIN s /\ 1..n # {} /\ Max(1..n) = n /\ (1..n) \ {n} = 1..(n - 1)
    BY <1>1, FirstIndices
  <2>2. PICK T : T = 1..n
    OBVIOUS
  <2>3. r[T] = IF s[Max(T)].text = NoText THEN r[T \ {Max(T)}] ELSE Append(r[T \ {Max(T)}], conv[s[Max(T)]])
    BY <2>1, <2>2 DEF Keeps
  <2>4. Max(T) = n /\ T \ {Max(T)} = 1..(n - 1)
    BY <2>1, <2>2
  <2> QED BY <2>2, <2>3, <2>4, Zenon
<1>4. conv \in [E -> F] /\ \A e \in E : conv[e].text = e.text
  BY DEF Rewordings
<1> DEFINE Heard(n, x) == {i \in 1..n : s[i].text = x}
           Kept(n) == /\ r[1..n] \in Seq(F)
                      /\ \A x : x # NoText => Said(r[1..n], x) = Cardinality(Heard(n, x))
           Fine == {n \in Nat : n <= Len(s) => Kept(n)}
<1>5. 0 \in Fine
  <2>1. \A x : Heard(0, x) = {}
    OBVIOUS
  <2>2. \A x : Said(<<>>, x) = 0
    <3>1. \A x : {i \in DOMAIN <<>> : <<>>[i].text = x} = {}
      OBVIOUS
    <3> QED BY <3>1, FS_EmptySet DEF Said
  <2>3. Kept(0)
    <3>1. r[1..0] = <<>> /\ <<>> \in Seq(F) /\ Cardinality({}) = 0
      BY <1>2, FS_EmptySet
    <3> HIDE DEF Heard
    <3> QED BY <2>1, <2>2, <3>1
  <2> HIDE DEF Kept
  <2> QED BY <2>3
<1>6. ASSUME NEW n \in Fine PROVE n + 1 \in Fine
  <2>1. SUFFICES ASSUME n + 1 <= Len(s) PROVE Kept(n + 1)
    OBVIOUS
  <2>2. n \in Nat /\ n + 1 \in 1..Len(s) /\ (n + 1) - 1 = n /\ s[n + 1] \in E
    BY <2>1
  <2> DEFINE was == r[1..n]
             e == s[n + 1]
  <2>3. was \in Seq(F) /\ \A x : x # NoText => Said(was, x) = Cardinality(Heard(n, x))
    BY <2>1, <2>2
  <2>4. r[1..(n + 1)] = IF e.text = NoText THEN was ELSE Append(was, conv[e])
    BY <1>3, <2>2
  <2>5. \A x : Heard(n + 1, x) = IF e.text = x THEN Heard(n, x) \cup {n + 1} ELSE Heard(n, x)
    BY <2>2
  <2>6. \A x : IsFiniteSet(Heard(n, x)) /\ n + 1 \notin Heard(n, x)
    <3>1. IsFiniteSet(1..n)
      BY <2>2, FS_Interval
    <3>2. \A x : Heard(n, x) \in SUBSET (1..n)
      OBVIOUS
    <3> QED BY <2>2, <3>1, <3>2, FS_Subset
  <2> HIDE DEF Heard
  <2>7. CASE e.text = NoText
    BY <2>3, <2>4, <2>5, <2>7
  <2>8. CASE e.text # NoText
    <3> DEFINE now == Append(was, conv[e])
               Saying(q, x) == {i \in DOMAIN q : q[i].text = x}
    <3>1. now \in Seq(F) /\ conv[e].text = e.text
      BY <1>4, <2>2, <2>3
    <3>2. \A x : Saying(now, x) = IF e.text = x THEN Saying(was, x) \cup {Len(was) + 1} ELSE Saying(was, x)
      BY <2>2, <2>3, <3>1
    <3>3. \A x : IsFiniteSet(Saying(was, x)) /\ Len(was) + 1 \notin Saying(was, x)
      <4>1. IsFiniteSet(DOMAIN was) /\ DOMAIN was = 1..Len(was) /\ Len(was) \in Nat
        <5>1. DOMAIN was = 1..Len(was) /\ Len(was) \in Nat
          <6> HIDE DEF was
          <6> QED BY <2>3
        <5> HIDE DEF was
        <5> QED BY <5>1, FS_Interval
      <4>2. \A x : Saying(was, x) \in SUBSET DOMAIN was
        OBVIOUS
      <4> QED BY <4>1, <4>2, FS_Subset
    <3> HIDE DEF Saying
    <3>4. ASSUME NEW x, x # NoText PROVE Cardinality(Saying(now, x)) = Cardinality(Heard(n + 1, x))
      <4>1. Cardinality(Saying(was, x)) = Cardinality(Heard(n, x))
        BY <2>3, <3>4 DEF Said, Saying
      <4>2. CASE e.text = x
        <5>1. /\ Saying(now, x) = Saying(was, x) \cup {Len(was) + 1}
              /\ Heard(n + 1, x) = Heard(n, x) \cup {n + 1}
          BY <2>5, <3>2, <4>2
        <5>2. Cardinality(Saying(was, x) \cup {Len(was) + 1}) = Cardinality(Saying(was, x)) + 1
          BY <3>3, FS_AddElement
        <5>3. Cardinality(Heard(n, x) \cup {n + 1}) = Cardinality(Heard(n, x)) + 1
          BY <2>6, FS_AddElement
        <5> QED BY <4>1, <5>1, <5>2, <5>3
      <4>3. CASE e.text # x
        BY <2>5, <3>2, <4>1, <4>3
      <4> QED BY <4>2, <4>3
    <3> QED BY <2>4, <2>8, <3>1, <3>4 DEF Said, Saying
  <2> QED BY <2>7, <2>8
<1> HIDE DEF Fine
<1>7. Fine = Nat
  <2>1. Fine \in SUBSET Nat
    BY DEF Fine
  <2> QED BY <1>5, <1>6, <2>1, NumberInduction
<1>8. DOMAIN s = 1..Len(s) /\ Len(s) \in Nat
  OBVIOUS
<1>9. Kept(Len(s))
  <2> HIDE DEF Kept
  <2> QED BY <1>7, <1>8 DEF Fine
<1>10. \A x : Said(s, x) = Cardinality(Heard(Len(s), x))
  BY <1>8 DEF Said
<1> HIDE DEF Heard
<1> QED BY <1>8, <1>9, <1>10

\* The place among the elements with a text of the one at i.
NthOf(s, i) == Cardinality({j \in 1..i : s[j].text # NoText})

\* Places go up with the elements, each with a text taking the next.
LEMMA PlacesGoUp ==
  ASSUME NEW s
  PROVE  /\ NthOf(s, 0) = 0
         /\ \A n \in Nat : /\ NthOf(s, n) \in Nat
                          /\ NthOf(s, n + 1) = NthOf(s, n) + (IF s[n + 1].text # NoText THEN 1 ELSE 0)
         /\ \A m, n \in Nat : m <= n => NthOf(s, m) <= NthOf(s, n)
<1> DEFINE A(n) == {j \in 1..n : s[j].text # NoText}
<1>1. \A n \in Nat : IsFiniteSet(A(n)) /\ Cardinality(A(n)) \in Nat
  <2>1. \A n \in Nat : A(n) \in SUBSET (1..n) /\ IsFiniteSet(1..n)
    BY FS_Interval
  <2> HIDE DEF A
  <2> QED BY <2>1, FS_Subset, FS_CardinalityType
<1>2. Cardinality(A(0)) = 0
  <2>1. A(0) = {}
    OBVIOUS
  <2> HIDE DEF A
  <2> QED BY <2>1, FS_EmptySet
<1>3. ASSUME NEW n \in Nat
      PROVE  Cardinality(A(n + 1)) = Cardinality(A(n)) + (IF s[n + 1].text # NoText THEN 1 ELSE 0)
  <2>1. n + 1 \notin A(n)
    OBVIOUS
  <2>2. A(n + 1) = IF s[n + 1].text # NoText THEN A(n) \cup {n + 1} ELSE A(n)
    OBVIOUS
  <2> HIDE DEF A
  <2>3. Cardinality(A(n) \cup {n + 1}) = Cardinality(A(n)) + 1
    BY <1>1, <2>1, FS_AddElement
  <2> QED BY <1>1, <2>2, <2>3
<1>4. ASSUME NEW m \in Nat, NEW n \in Nat, m <= n PROVE Cardinality(A(m)) <= Cardinality(A(n))
  <2>1. A(m) \in SUBSET A(n)
    BY <1>4
  <2> HIDE DEF A
  <2> QED BY <1>1, <2>1, FS_Subset
<1> QED BY <1>1, <1>2, <1>3, <1>4 DEF NthOf

\* What a loop keeps it keeps in order: the element kept at place k is the k-th of
\* those with a text.
KeptInOrder(q, s, conv) ==
  /\ Len(q) = NthOf(s, Len(s))
  /\ \A i \in DOMAIN s : s[i].text # NoText =>
       NthOf(s, i) \in 1..Len(q) /\ q[NthOf(s, i)] = conv[s[i]]
  /\ \A k \in 1..Len(q) : \E i \in DOMAIN s :
       s[i].text # NoText /\ NthOf(s, i) = k /\ q[k] = conv[s[i]]

LEMMA KeepsOrder ==
  ASSUME NEW E, NEW s \in Seq(E), NEW F, NEW conv \in Rewordings(E, F), NEW r, Keeps(r, s, conv)
  PROVE  KeptInOrder(r[DOMAIN s], s, conv)
<1> DEFINE At0(n, q) == /\ q \in Seq(F) /\ Len(q) = NthOf(s, n)
                        /\ \A k \in 1..Len(q) : \E i \in 1..n :
                            s[i].text # NoText /\ NthOf(s, i) = k /\ q[k] = conv[s[i]]
           Kept(n) == At0(n, r[1..n])
           Fine == {n \in Nat : n <= Len(s) => Kept(n)}
<1>1. DOMAIN s = 1..Len(s) /\ Len(s) \in Nat /\ \A i \in DOMAIN s : s[i] \in E
  OBVIOUS
<1>2. r[1..0] = <<>>
  <2>1. 1..0 = {} /\ {} \in SUBSET DOMAIN s
    OBVIOUS
  <2> QED BY <2>1 DEF Keeps
<1>3. ASSUME NEW n \in 1..Len(s)
      PROVE r[1..n] = IF s[n].text = NoText THEN r[1..(n - 1)] ELSE Append(r[1..(n - 1)], conv[s[n]])
  <2>1. 1..n \in SUBSET DOMAIN s /\ 1..n # {} /\ Max(1..n) = n /\ (1..n) \ {n} = 1..(n - 1)
    BY <1>1, FirstIndices
  <2>2. PICK T : T = 1..n
    OBVIOUS
  <2>3. r[T] = IF s[Max(T)].text = NoText THEN r[T \ {Max(T)}] ELSE Append(r[T \ {Max(T)}], conv[s[Max(T)]])
    BY <2>1, <2>2 DEF Keeps
  <2>4. Max(T) = n /\ T \ {Max(T)} = 1..(n - 1)
    BY <2>1, <2>2
  <2> QED BY <2>2, <2>3, <2>4, Zenon
<1>4. 0 \in Fine
  <2>1. Kept(0)
    BY <1>2, PlacesGoUp
  <2> QED BY <2>1
<1>5. ASSUME NEW n \in Fine PROVE n + 1 \in Fine
  <2>0. n \in Nat /\ n + 1 \in Nat /\ (n <= Len(s) => Kept(n))
    <3> HIDE DEF Kept
    <3> QED BY <1>5
  <2>1. SUFFICES ASSUME n + 1 <= Len(s) PROVE Kept(n + 1)
    <3> HIDE DEF Kept
    <3> QED BY <2>0
  <2>2. n \in Nat /\ n + 1 \in 1..Len(s) /\ (n + 1) - 1 = n /\ s[n + 1] \in E /\ n <= Len(s)
    BY <1>1, <2>0, <2>1
  <2> DEFINE was == r[1..n]
             e == s[n + 1]
  <2>3. At0(n, was)
    <3> HIDE DEF At0
    <3> QED BY <2>0, <2>2
  <2>4. r[1..(n + 1)] = IF e.text = NoText THEN was ELSE Append(was, conv[e])
    BY <1>3, <2>2
  <2>5. /\ NthOf(s, n) \in Nat
        /\ NthOf(s, n + 1) = NthOf(s, n) + (IF e.text # NoText THEN 1 ELSE 0)
    BY <2>2, PlacesGoUp
  <2>6. conv[e] \in F
    BY <2>2 DEF Rewordings
  <2> HIDE DEF was, e, Fine
  <2>7. CASE e.text = NoText
    <3>1. NthOf(s, n + 1) = NthOf(s, n)
      BY <2>5, <2>7
    <3>2. \A i \in 1..n : i \in 1..(n + 1)
      BY <2>2
    <3>3. At0(n + 1, was)
      BY <2>3, <3>1, <3>2
    <3> QED BY <2>4, <2>7, <3>3
  <2>8. CASE e.text # NoText
    <3> DEFINE now == Append(was, conv[e])
    <3>1. /\ now \in Seq(F) /\ Len(now) = Len(was) + 1 /\ now[Len(was) + 1] = conv[e]
          /\ \A k \in 1..Len(was) : now[k] = was[k]
      BY <2>3, <2>6
    <3>2. Len(was) \in Nat /\ Len(now) = NthOf(s, n + 1)
      BY <2>3, <2>5, <2>8, <3>1
    <3> HIDE DEF now
    <3>3. ASSUME NEW k \in 1..Len(now)
          PROVE  \E i \in 1..(n + 1) :
                   s[i].text # NoText /\ NthOf(s, i) = k /\ now[k] = conv[s[i]]
      <4>1. CASE k \in 1..Len(was)
        <5>1. PICK i \in 1..n : s[i].text # NoText /\ NthOf(s, i) = k /\ was[k] = conv[s[i]]
          BY <2>3, <4>1
        <5>2. i \in 1..(n + 1)
          BY <2>2
        <5> QED BY <3>1, <4>1, <5>1, <5>2
      <4>2. CASE k = Len(was) + 1
        <5>1. n + 1 \in 1..(n + 1)
          BY <2>2
        <5> QED BY <2>8, <3>1, <3>2, <4>2, <5>1 DEF e
      <4> QED BY <3>1, <3>2, <4>1, <4>2
    <3>4. At0(n + 1, now)
      BY <3>1, <3>2, <3>3
    <3> QED BY <2>4, <2>8, <3>4 DEF now
  <2> QED BY <2>7, <2>8
<1> HIDE DEF Fine
<1>6. Fine = Nat
  <2>1. Fine \in SUBSET Nat
    BY DEF Fine
  <2> QED BY <1>4, <1>5, <2>1, NumberInduction
<1>7. At0(Len(s), r[DOMAIN s])
  <2>1. Kept(Len(s))
    <3> HIDE DEF Kept
    <3> QED BY <1>1, <1>6 DEF Fine
  <2> QED BY <1>1, <2>1
<1> DEFINE q == r[DOMAIN s]
<1> HIDE DEF q
<1>8. /\ q \in Seq(F) /\ Len(q) \in Nat /\ Len(q) = NthOf(s, Len(s))
      /\ \A k \in 1..Len(q) : \E i \in DOMAIN s :
           s[i].text # NoText /\ NthOf(s, i) = k /\ q[k] = conv[s[i]]
  BY <1>1, <1>7 DEF q
<1>9. ASSUME NEW i \in DOMAIN s, s[i].text # NoText
      PROVE  NthOf(s, i) \in 1..Len(q) /\ q[NthOf(s, i)] = conv[s[i]]
  <2>1. i \in Nat /\ i - 1 \in Nat /\ (i - 1) + 1 = i /\ i <= Len(s)
    BY <1>1
  <2>2. /\ NthOf(s, i - 1) \in Nat
        /\ NthOf(s, (i - 1) + 1) = NthOf(s, i - 1) + (IF s[(i - 1) + 1].text # NoText THEN 1 ELSE 0)
    BY <2>1, PlacesGoUp
  <2>3. NthOf(s, i) = NthOf(s, i - 1) + 1
    BY <1>9, <2>1, <2>2
  <2>4. NthOf(s, i) <= NthOf(s, Len(s))
    BY <1>1, <2>1, PlacesGoUp
  <2>5. NthOf(s, i) \in 1..Len(q)
    BY <1>8, <2>2, <2>3, <2>4
  <2>6. PICK j \in DOMAIN s : /\ s[j].text # NoText /\ NthOf(s, j) = NthOf(s, i)
                              /\ q[NthOf(s, i)] = conv[s[j]]
    BY <1>8, <2>5
  <2>7. j \in Nat /\ j - 1 \in Nat /\ (j - 1) + 1 = j
    BY <1>1
  <2>8. /\ NthOf(s, j - 1) \in Nat
        /\ NthOf(s, (j - 1) + 1) = NthOf(s, j - 1) + (IF s[(j - 1) + 1].text # NoText THEN 1 ELSE 0)
    BY <2>7, PlacesGoUp
  <2>9. NthOf(s, j) = NthOf(s, j - 1) + 1
    BY <2>6, <2>7, <2>8
  <2>10. i < j => NthOf(s, i) <= NthOf(s, j - 1)
    <3>1. ASSUME i < j PROVE i <= j - 1
      BY <2>1, <2>7, <3>1
    <3> QED BY <2>1, <2>7, <3>1, PlacesGoUp
  <2>11. j < i => NthOf(s, j) <= NthOf(s, i - 1)
    <3>1. ASSUME j < i PROVE j <= i - 1
      BY <2>1, <2>7, <3>1
    <3> QED BY <2>1, <2>7, <3>1, PlacesGoUp
  <2>12. i = j
    BY <2>1, <2>2, <2>3, <2>6, <2>7, <2>8, <2>9, <2>10, <2>11
  <2> QED BY <2>5, <2>6, <2>12
<1> QED BY <1>8, <1>9 DEF KeptInOrder, q

\* The chunks of the service say what was heard, in the order it was heard.
LEMMA ChunksKeepTexts ==
  ASSUME NEW s \in Seq(Chunks)
  PROVE  /\ TranscribeChunks(s) \in Seq(ChunkSet)
         /\ \A x : x # NoText => Said(TranscribeChunks(s), x) = Said(s, x)
         /\ KeptInOrder(TranscribeChunks(s), s, [c \in Chunks |-> ChunkOf(c)])
<1> DEFINE conv == [c \in Chunks |-> ChunkOf(c)]
           Is(g) == g = [T \in SUBSET DOMAIN s |->
                           IF T = {} THEN <<>>
                           ELSE IF s[Max(T)].text = NoText THEN g[T \ {Max(T)}]
                           ELSE Append(g[T \ {Max(T)}], ChunkOf(s[Max(T)]))]
<1>1. conv \in Rewordings(Chunks, ChunkSet)
  BY SpeechInputs DEF ChunkOf, NoEnd, ChunkSet, Rewordings
<1>2. \A T \in SUBSET DOMAIN s : T # {} => conv[s[Max(T)]] = ChunkOf(s[Max(T)])
  <2>1. DOMAIN s = 1..Len(s) /\ Len(s) \in Nat /\ \A i \in DOMAIN s : s[i] \in Chunks
    OBVIOUS
  <2>2. \A T \in SUBSET DOMAIN s : T # {} => Max(T) \in T
    BY <2>1, FirstIndices
  <2> QED BY <2>1, <2>2
<1> DEFINE r == CHOOSE g : Is(g)
<1>3. \A g : Keeps(g, s, conv) <=> Is(g)
  <2> HIDE DEF conv
  <2> QED BY <1>2 DEF Keeps
<1>4. \E g : Keeps(g, s, conv)
  <2> HIDE DEF conv, Is
  <2> QED BY <1>1, KeepsRuns
<1>5. Is(r)
  BY <1>3, <1>4, Zenon
<1>6. TranscribeChunks(s) = r[DOMAIN s]
  BY Zenon DEF TranscribeChunks, FoldLeft, MapThenFoldSet
<1>7. Keeps(r, s, conv)
  BY <1>3, <1>5
<1>8. KeptInOrder(r[DOMAIN s], s, conv)
  <2> HIDE DEF r, conv, Is
  <2> QED BY <1>1, <1>7, KeepsOrder
<1>9. /\ r[DOMAIN s] \in Seq(ChunkSet)
      /\ \A x : x # NoText => Said(r[DOMAIN s], x) = Said(s, x)
  <2> HIDE DEF r, conv, Is
  <2> QED BY <1>1, <1>7, KeepsTexts
<1> HIDE DEF r, Is
<1> QED BY <1>6, <1>8, <1>9

\* The adapter reads every text once, and no segment it makes ends before it begins.
HeardSet == {e \in SegmentSet : e.start <= e.end}

LEMMA AdaptedKeepsTexts ==
  ASSUME NEW S, NEW s \in Seq([start : Int, end : Int, text : STRING, speaker : S])
  PROVE  /\ Adapted(s) \in Seq(HeardSet)
         /\ \A x : x # NoText => Said(Adapted(s), x) = Said(s, x)
         /\ KeptInOrder(Adapted(s), s,
                        [c \in [start : Int, end : Int, text : STRING, speaker : S] |-> Adapt(c)])
<1> DEFINE E == [start : Int, end : Int, text : STRING, speaker : S]
           conv == [c \in E |-> Adapt(c)]
           Is(g) == g = [T \in SUBSET DOMAIN s |->
                           IF T = {} THEN <<>>
                           ELSE IF s[Max(T)].text = NoText THEN g[T \ {Max(T)}]
                           ELSE Append(g[T \ {Max(T)}], Adapt(s[Max(T)]))]
<1>0. s \in Seq(E)
  OBVIOUS
<1>1. conv \in Rewordings(E, HeardSet)
  <2>1. ASSUME NEW c \in E PROVE Adapt(c) \in HeardSet /\ Adapt(c).text = c.text
    <3>1. \A n \in Int : ToMs(n) \in Int
      BY DEF ToMs
    <3>2. \A l : MapSpeaker(l) \in Speakers
      BY DEF MapSpeaker, Speakers
    <3>3. \A a, b \in Int : Max({a, b}) \in Int /\ a <= Max({a, b})
      BY MaxMinOfTwo
    <3>4. /\ c.start \in Int /\ c.end \in Int /\ c.text \in STRING
      BY DEF E
    <3>5. /\ ToMs(c.start) \in Int /\ ToMs(c.end) \in Int /\ MapSpeaker(c.speaker) \in Speakers
      BY <3>1, <3>2, <3>4
    <3>6. /\ Max({ToMs(c.start), ToMs(c.end)}) \in Int
          /\ ToMs(c.start) <= Max({ToMs(c.start), ToMs(c.end)})
      BY <3>3, <3>5
    <3> QED BY <3>4, <3>5, <3>6 DEF Adapt, HeardSet, SegmentSet
  <2> QED BY <2>1 DEF Rewordings
<1>2. \A T \in SUBSET DOMAIN s : T # {} => conv[s[Max(T)]] = Adapt(s[Max(T)])
  <2>1. DOMAIN s = 1..Len(s) /\ Len(s) \in Nat /\ \A i \in DOMAIN s : s[i] \in E
    <3> HIDE DEF E
    <3> QED BY <1>0
  <2>2. \A T \in SUBSET DOMAIN s : T # {} => Max(T) \in T
    BY <2>1, FirstIndices
  <2> QED BY <2>1, <2>2
<1> DEFINE r == CHOOSE g : Is(g)
<1>3. \A g : Keeps(g, s, conv) <=> Is(g)
  <2> HIDE DEF conv, E
  <2> QED BY <1>2 DEF Keeps
<1>4. \E g : Keeps(g, s, conv)
  <2> HIDE DEF conv, Is, E
  <2> QED BY <1>0, <1>1, KeepsRuns
<1>5. Is(r)
  BY <1>3, <1>4, Zenon
<1>6. Adapted(s) = r[DOMAIN s]
  BY Zenon DEF Adapted, FoldLeft, MapThenFoldSet
<1>7. Keeps(r, s, conv)
  BY <1>3, <1>5
<1>8. /\ r[DOMAIN s] \in Seq(HeardSet)
      /\ \A x : x # NoText => Said(r[DOMAIN s], x) = Said(s, x)
      /\ KeptInOrder(r[DOMAIN s], s, conv)
  <2> HIDE DEF r, conv, Is, E
  <2> QED BY <1>0, <1>1, <1>7, KeepsTexts, KeepsOrder
<1> HIDE DEF r, Is
<1> QED BY <1>6, <1>8

\* An element put behind the first n of a sequence.
LEMMA Inserted ==
  ASSUME NEW E, NEW q \in Seq(E), NEW e \in E, NEW n \in 0..Len(q)
  PROVE  /\ InsertAt(q, n + 1, e) \in Seq(E) /\ Len(InsertAt(q, n + 1, e)) = Len(q) + 1
         /\ \A j \in 1..(Len(q) + 1) :
              InsertAt(q, n + 1, e)[j] = IF j <= n THEN q[j] ELSE IF j = n + 1 THEN e ELSE q[j - 1]
<1> DEFINE u == SubSeq(q, 1, n)
           v == SubSeq(q, n + 1, Len(q))
           w == u \o <<e>>
           new == InsertAt(q, n + 1, e)
<1>1. n \in Nat /\ Len(q) \in Nat /\ n <= Len(q) /\ \A i \in 1..Len(q) : q[i] \in E
  OBVIOUS
<1>2. u \in Seq(E) /\ Len(u) = n /\ \A j \in 1..n : u[j] = q[j]
  OBVIOUS
<1>3. v \in Seq(E) /\ Len(v) = Len(q) - n /\ \A j \in 1..(Len(q) - n) : v[j] = q[j + n]
  <2>1. CASE n + 1 <= Len(q)
    BY <1>1, <2>1, SubSeqProperties
  <2>2. CASE n = Len(q)
    BY <1>1, <2>2, SubSeqProperties
  <2> QED BY <1>1, <2>1, <2>2
<1>4. new = w \o v
  <2>1. (n + 1) - 1 = n
    OBVIOUS
  <2> QED BY <2>1, Zenon DEF InsertAt
<1> HIDE DEF u, v, new
<1>5. /\ w \in Seq(E) /\ Len(w) = n + 1
      /\ \A j \in 1..(n + 1) : w[j] = IF j <= n THEN q[j] ELSE e
  <2>1. w \in Seq(E) /\ Len(w) = n + 1
    BY <1>2
  <2>2. \A j \in 1..(n + 1) : w[j] = IF j <= n THEN q[j] ELSE e
    BY <1>2
  <2> QED BY <2>1, <2>2
<1> HIDE DEF w
<1>6. new \in Seq(E) /\ Len(new) = Len(q) + 1
  <2>1. new \in Seq(E) /\ Len(new) = Len(w) + Len(v)
    BY <1>3, <1>4, <1>5, ConcatProperties
  <2> QED BY <1>1, <1>3, <1>5, <2>1
<1>7. ASSUME NEW j \in 1..(Len(q) + 1)
      PROVE  new[j] = IF j <= n THEN q[j] ELSE IF j = n + 1 THEN e ELSE q[j - 1]
  <2>1. new[j] = IF j <= Len(w) THEN w[j] ELSE v[j - Len(w)]
    BY <1>1, <1>3, <1>4, <1>5
  <2>2. CASE j <= n + 1
    BY <1>1, <1>5, <2>1, <2>2
  <2>3. CASE j > n + 1
    <3>1. j - (n + 1) \in 1..(Len(q) - n) /\ (j - (n + 1)) + n = j - 1
      BY <1>1, <2>3
    <3>2. v[j - (n + 1)] = q[j - 1]
      BY <1>3, <3>1
    <3> QED BY <1>1, <1>5, <2>1, <2>3, <3>2
  <2> QED BY <1>1, <2>2, <2>3
<1> QED BY <1>6, <1>7 DEF new

\* It is said once more, and the others as often.
LEMMA InsertedIsSaid ==
  ASSUME NEW E, NEW q \in Seq(E), NEW e \in E, NEW n \in 0..Len(q), NEW x
  PROVE  /\ Said(q, x) \in Nat
         /\ Said(InsertAt(q, n + 1, e), x) = Said(q, x) + (IF e.text = x THEN 1 ELSE 0)
<1> DEFINE new == InsertAt(q, n + 1, e)
<1>1. /\ new \in Seq(E) /\ Len(new) = Len(q) + 1
      /\ \A j \in 1..(Len(q) + 1) :
           new[j] = IF j <= n THEN q[j] ELSE IF j = n + 1 THEN e ELSE q[j - 1]
  BY Inserted
<1> HIDE DEF new
<1> DEFINE Old == {i \in 1..Len(q) : q[i].text = x}
           New == {i \in 1..Len(new) : new[i].text = x}
           Moved == New \ {n + 1}
           f == [i \in Old |-> IF i <= n THEN i ELSE i + 1]
<1>2. Said(q, x) = Cardinality(Old) /\ Said(new, x) = Cardinality(New)
  <2>1. DOMAIN q = 1..Len(q) /\ DOMAIN new = 1..Len(new)
    BY <1>1
  <2> QED BY <2>1 DEF Said
<1>3. IsFiniteSet(Old) /\ IsFiniteSet(New)
  <2>1. Old \in SUBSET (1..Len(q)) /\ New \in SUBSET (1..Len(new)) /\ Len(q) \in Int /\ Len(new) \in Int
    BY <1>1
  <2>2. IsFiniteSet(1..Len(q)) /\ IsFiniteSet(1..Len(new))
    <3> HIDE DEF Old, New
    <3> QED BY <2>1, FS_Interval
  <2> HIDE DEF Old, New
  <2> QED BY <2>1, <2>2, FS_Subset
<1>4. f \in Bijection(Old, Moved)
  <2>1. f \in [Old -> Moved]
    BY <1>1
  <2>2. \A a, b \in Old : f[a] = f[b] => a = b
    OBVIOUS
  <2>3. ASSUME NEW b \in Moved PROVE \E a \in Old : f[a] = b
    <3>1. b \in 1..(Len(q) + 1) /\ b # n + 1 /\ new[b].text = x /\ n \in Nat /\ Len(q) \in Nat
      BY <1>1
    <3>2. CASE b <= n
      <4>1. b \in Old
        BY <1>1, <3>1, <3>2
      <4>2. f[b] = b
        BY <3>2, <4>1
      <4> QED BY <4>1, <4>2
    <3>3. CASE b > n
      <4>1. b - 1 \in 1..Len(q) /\ ~(b - 1 <= n) /\ q[b - 1].text = x /\ (b - 1) + 1 = b
        BY <1>1, <3>1, <3>3
      <4>2. b - 1 \in Old
        BY <4>1
      <4>3. f[b - 1] = b
        BY <4>1, <4>2
      <4> QED BY <4>2, <4>3
    <3> HIDE DEF f, Old, Moved
    <3> QED BY <3>1, <3>2, <3>3
  <2> HIDE DEF f, Old, Moved
  <2>4. f \in Injection(Old, Moved)
    BY <2>1, <2>2 DEF Injection, IsInjective
  <2>5. f \in Surjection(Old, Moved)
    BY <2>1, <2>3 DEF Surjection
  <2> QED BY <2>4, <2>5 DEF Bijection
<1>5. Cardinality(Moved) = Cardinality(Old)
  <2> HIDE DEF f, Old, Moved
  <2> QED BY <1>3, <1>4, FS_Bijection DEF ExistsBijection
<1>6. n + 1 \in New <=> e.text = x
  BY <1>1
<1>7. Cardinality(Moved) = IF n + 1 \in New THEN Cardinality(New) - 1 ELSE Cardinality(New)
  <2> HIDE DEF New
  <2> QED BY <1>3, FS_RemoveElement
<1>8. Cardinality(New) \in Nat /\ Cardinality(Old) \in Nat
  <2> HIDE DEF New, Old
  <2> QED BY <1>3, FS_CardinalityType
<1> HIDE DEF Old, New, Moved
<1> QED BY <1>2, <1>5, <1>6, <1>7, <1>8 DEF new

\* A sequence in order stays in order when an element is put behind those that begin
\* no later.
Ordered(q) == \A i, j \in DOMAIN q : i < j => q[i].start <= q[j].start

LEMMA PlaceKeepsOrder ==
  ASSUME NEW E, NEW q \in Seq(E), NEW e \in E, Ordered(q), \A d \in E : d.start \in Int
  PROVE  /\ Place(q, e) \in Seq(E) /\ Ordered(Place(q, e))
         /\ \E n \in 0..Len(q) : Place(q, e) = InsertAt(q, n + 1, e)
<1> DEFINE A == {i \in DOMAIN q : q[i].start <= e.start}
<1>1. DOMAIN q = 1..Len(q) /\ Len(q) \in Nat /\ IsFiniteSet(DOMAIN q) /\ \A i \in DOMAIN q : q[i] \in E
  BY FS_Interval
<1>2. PICK n \in 0..Len(q) : A = 1..n
  <2>1. CASE A = {}
    <3>1. 1..0 = {} /\ 0 \in 0..Len(q)
      BY <1>1
    <3> QED BY <2>1, <3>1
  <2>2. CASE A # {}
    <3>1. IsFiniteSet(A) /\ A \in SUBSET Nat /\ A \in SUBSET DOMAIN q
      BY <1>1, FS_Subset
    <3> HIDE DEF A
    <3>2. PICK n \in A : \A m \in A : m <= n
      BY <2>2, <3>1, LargestNumber
    <3>3. n \in 1..Len(q)
      BY <1>1, <3>1
    <3>4. ASSUME NEW i \in 1..n PROVE i \in A
      <4>1. i \in 1..Len(q) /\ q[i] \in E /\ q[n] \in E
        BY <1>1, <3>3
      <4>2. q[n].start <= e.start
        BY <3>2 DEF A
      <4>3. i < n => q[i].start <= q[n].start
        BY <1>1, <3>3, <4>1 DEF Ordered
      <4>4. q[i].start \in Int /\ q[n].start \in Int /\ e.start \in Int
        BY <4>1
      <4>5. q[i].start <= e.start
        BY <3>3, <4>2, <4>3, <4>4
      <4> QED BY <1>1, <4>1, <4>5 DEF A
    <3>5. \A m \in A : m \in 1..n
      BY <1>1, <3>1, <3>2, <3>3
    <3>6. A = 1..n
      BY <3>4, <3>5
    <3>7. n \in 0..Len(q)
      BY <3>3
    <3> QED BY <3>6, <3>7
  <2> QED BY <2>1, <2>2
<1>3. Cardinality(A) = n
  <2>1. Cardinality(1..n) = n
    BY FS_Interval
  <2> HIDE DEF A
  <2> QED BY <1>2, <2>1
<1> DEFINE new == InsertAt(q, n + 1, e)
<1>4. Place(q, e) = new
  BY <1>3 DEF Place
<1>5. /\ new \in Seq(E) /\ Len(new) = Len(q) + 1
      /\ \A j \in 1..(Len(q) + 1) :
           new[j] = IF j <= n THEN q[j] ELSE IF j = n + 1 THEN e ELSE q[j - 1]
  BY Inserted
<1>6. \A k \in 1..Len(q) : IF k <= n THEN q[k].start <= e.start ELSE q[k].start > e.start
  <2>1. ASSUME NEW k \in 1..Len(q) PROVE k <= n <=> q[k].start <= e.start
    <3>1. k \in A <=> k \in 1..n
      BY <1>2
    <3>2. k \in A <=> q[k].start <= e.start
      BY <1>1
    <3> HIDE DEF A
    <3> QED BY <3>1, <3>2
  <2>2. \A k \in 1..Len(q) : q[k].start \in Int /\ e.start \in Int
    BY <1>1
  <2> HIDE DEF A
  <2> QED BY <2>1, <2>2
<1> HIDE DEF A, new
<1>7. ASSUME NEW i \in 1..(Len(q) + 1), NEW j \in 1..(Len(q) + 1), i < j
      PROVE  new[i].start <= new[j].start
  <2>1. \A k, l \in 1..Len(q) : k < l => q[k].start <= q[l].start
    BY <1>1 DEF Ordered
  <2>2. \A k \in 1..Len(q) : q[k].start \in Int
    BY <1>1
  <2>3. e.start \in Int /\ n \in Nat /\ n <= Len(q) /\ Len(q) \in Nat
    BY <1>1
  <2>9. /\ new[i] = IF i <= n THEN q[i] ELSE IF i = n + 1 THEN e ELSE q[i - 1]
        /\ new[j] = IF j <= n THEN q[j] ELSE IF j = n + 1 THEN e ELSE q[j - 1]
    BY <1>5
  <2>4. CASE j <= n
    <3>1. i \in 1..Len(q) /\ j \in 1..Len(q) /\ new[i] = q[i] /\ new[j] = q[j]
      BY <1>7, <2>3, <2>4, <2>9
    <3> QED BY <1>7, <2>1, <3>1
  <2>5. CASE i <= n /\ j = n + 1
    <3>1. i \in 1..Len(q) /\ i <= n /\ new[i] = q[i] /\ new[j] = e
      BY <1>7, <2>3, <2>5, <2>9
    <3> QED BY <1>6, <3>1
  <2>6. CASE i <= n /\ j > n + 1
    <3>1. i \in 1..Len(q) /\ j - 1 \in 1..Len(q) /\ i < j - 1 /\ new[i] = q[i] /\ new[j] = q[j - 1]
      BY <1>7, <2>3, <2>6, <2>9
    <3> QED BY <2>1, <3>1
  <2>7. CASE i = n + 1
    <3>1. j - 1 \in 1..Len(q) /\ ~(j - 1 <= n) /\ new[j] = q[j - 1] /\ new[i] = e
      BY <1>5, <1>7, <2>3, <2>7
    <3> QED BY <1>6, <2>2, <2>3, <3>1
  <2>8. CASE i > n + 1
    <3>1. i - 1 \in 1..Len(q) /\ j - 1 \in 1..Len(q) /\ i - 1 < j - 1 /\ new[i] = q[i - 1] /\ new[j] = q[j - 1]
      BY <1>7, <2>3, <2>8, <2>9
    <3> QED BY <2>1, <3>1
  <2> QED BY <1>7, <2>3, <2>4, <2>5, <2>6, <2>7, <2>8
<1>8. Ordered(new)
  BY <1>1, <1>5, <1>7 DEF Ordered
<1> QED BY <1>4, <1>5, <1>8 DEF new

\* Sorting is such a loop: the outcome is in order and says what went in.
Sorts(g, s) ==
  g = [T \in SUBSET DOMAIN s |-> IF T = {} THEN <<>> ELSE Place(g[T \ {Max(T)}], s[Max(T)])]

\* The sequences in order over the elements of a set.
Sorted(E) == {q \in Seq(E) : Ordered(q)}
Timed(E) == \A e \in E : e.start \in Int

LEMMA PlaceIsSorted ==
  ASSUME NEW E, Timed(E), NEW q \in Sorted(E), NEW e \in E
  PROVE  /\ Place(q, e) \in Sorted(E)
         /\ \A x : Said(q, x) \in Nat /\ Said(Place(q, e), x) = Said(q, x) + (IF e.text = x THEN 1 ELSE 0)
<1>1. q \in Seq(E) /\ Ordered(q) /\ \A d \in E : d.start \in Int
  BY DEF Sorted, Timed
<1>2. /\ Place(q, e) \in Seq(E) /\ Ordered(Place(q, e))
      /\ \E n \in 0..Len(q) : Place(q, e) = InsertAt(q, n + 1, e)
  BY <1>1, PlaceKeepsOrder
<1>3. PICK n \in 0..Len(q) : Place(q, e) = InsertAt(q, n + 1, e)
  BY <1>2
<1>4. \A x : Said(q, x) \in Nat /\ Said(InsertAt(q, n + 1, e), x) = Said(q, x) + (IF e.text = x THEN 1 ELSE 0)
  BY <1>1, InsertedIsSaid
<1> QED BY <1>2, <1>3, <1>4 DEF Sorted

LEMMA SortRuns ==
  ASSUME NEW E, Timed(E), NEW s \in Seq(E)
  PROVE  \E g : Sorts(g, s)
<1> DEFINE step == [p \in E \X Sorted(E) |-> Place(p[2], p[1])]
<1>1. step \in [E \X Sorted(E) -> Sorted(E)]
  BY PlaceIsSorted
<1>2. DOMAIN s = 1..Len(s) /\ Len(s) \in Nat /\ \A i \in DOMAIN s : s[i] \in E
  OBVIOUS
<1>3. \A T \in SUBSET DOMAIN s : T # {} => Max(T) \in T
  BY <1>2, FirstIndices
<1>4. PICK g : g \in [SUBSET DOMAIN s -> Sorted(E)] /\ Loops(g, s, <<>>, step)
  <2>1. <<>> \in Sorted(E)
    BY DEF Sorted, Ordered
  <2> HIDE DEF step
  <2> QED BY <1>1, <2>1, LoopRuns
<1>5. ASSUME NEW T \in SUBSET DOMAIN s, T # {}
      PROVE  step[<<s[Max(T)], g[T \ {Max(T)}]>>] = Place(g[T \ {Max(T)}], s[Max(T)])
  <2>1. s[Max(T)] \in E /\ g[T \ {Max(T)}] \in Sorted(E)
    BY <1>2, <1>3, <1>4, <1>5
  <2>2. \A e \in E, q \in Sorted(E) : step[<<e, q>>] = Place(q, e)
    OBVIOUS
  <2> HIDE DEF step
  <2> QED BY <2>1, <2>2
<1> HIDE DEF step
<1>6. Sorts(g, s)
  BY <1>4, <1>5 DEF Loops, Sorts
<1> QED BY <1>6

LEMMA SortKeepsTexts ==
  ASSUME NEW E, Timed(E), NEW s \in Seq(E), NEW r, Sorts(r, s)
  PROVE  r[DOMAIN s] \in Sorted(E) /\ \A x : Said(r[DOMAIN s], x) = Said(s, x)
<1> DEFINE Heard(n, x) == {i \in 1..n : s[i].text = x}
           Kept(n) == /\ r[1..n] \in Sorted(E)
                      /\ \A x : Said(r[1..n], x) = Cardinality(Heard(n, x))
           Fine == {n \in Nat : n <= Len(s) => Kept(n)}
<1>1. DOMAIN s = 1..Len(s) /\ Len(s) \in Nat
  OBVIOUS
<1>2. r[1..0] = <<>>
  <2>1. 1..0 = {} /\ {} \in SUBSET DOMAIN s
    OBVIOUS
  <2> QED BY <2>1 DEF Sorts
<1>3. ASSUME NEW n \in 1..Len(s) PROVE r[1..n] = Place(r[1..(n - 1)], s[n])
  <2>1. 1..n \in SUBSET DOMAIN s /\ 1..n # {} /\ Max(1..n) = n /\ (1..n) \ {n} = 1..(n - 1)
    BY <1>1, FirstIndices
  <2>2. PICK T : T = 1..n
    OBVIOUS
  <2>3. r[T] = Place(r[T \ {Max(T)}], s[Max(T)])
    BY <2>1, <2>2 DEF Sorts
  <2>4. Max(T) = n /\ T \ {Max(T)} = 1..(n - 1)
    BY <2>1, <2>2
  <2> QED BY <2>2, <2>3, <2>4, Zenon
<1>4. 0 \in Fine
  <2>1. \A x : Heard(0, x) = {}
    OBVIOUS
  <2>2. \A x : Said(<<>>, x) = 0
    <3>1. \A x : {i \in DOMAIN <<>> : <<>>[i].text = x} = {}
      OBVIOUS
    <3> QED BY <3>1, FS_EmptySet DEF Said
  <2>3. Kept(0)
    <3>1. r[1..0] = <<>> /\ <<>> \in Sorted(E) /\ Cardinality({}) = 0
      BY <1>2, FS_EmptySet DEF Sorted, Ordered
    <3> HIDE DEF Heard
    <3> QED BY <2>1, <2>2, <3>1
  <2> HIDE DEF Kept
  <2> QED BY <2>3
<1>5. ASSUME NEW n \in Fine PROVE n + 1 \in Fine
  <2>1. SUFFICES ASSUME n + 1 <= Len(s) PROVE Kept(n + 1)
    OBVIOUS
  <2>2. n \in Nat /\ n + 1 \in 1..Len(s) /\ (n + 1) - 1 = n /\ s[n + 1] \in E
    BY <2>1
  <2> DEFINE was == r[1..n]
             e == s[n + 1]
  <2>3. was \in Sorted(E) /\ \A x : Said(was, x) = Cardinality(Heard(n, x))
    BY <2>1, <2>2
  <2>4. r[1..(n + 1)] = Place(was, e)
    BY <1>3, <2>2
  <2>5. \A x : Heard(n + 1, x) = IF e.text = x THEN Heard(n, x) \cup {n + 1} ELSE Heard(n, x)
    BY <2>2
  <2>6. \A x : IsFiniteSet(Heard(n, x)) /\ n + 1 \notin Heard(n, x)
    <3>1. IsFiniteSet(1..n)
      BY <2>2, FS_Interval
    <3>2. \A x : Heard(n, x) \in SUBSET (1..n)
      OBVIOUS
    <3> QED BY <2>2, <3>1, <3>2, FS_Subset
  <2> HIDE DEF Heard, was, Fine
  <2>7. /\ Place(was, e) \in Sorted(E)
        /\ \A x : Said(was, x) \in Nat /\ Said(Place(was, e), x) = Said(was, x) + (IF e.text = x THEN 1 ELSE 0)
    <3> HIDE DEF e
    <3>1. e \in E
      BY <2>2 DEF e
    <3> QED BY <2>3, <3>1, PlaceIsSorted
  <2> HIDE DEF e
  <2>8. ASSUME NEW x PROVE Said(Place(was, e), x) = Cardinality(Heard(n + 1, x))
    <3>1. Cardinality(Heard(n, x) \cup {n + 1}) = Cardinality(Heard(n, x)) + 1
      BY <2>6, FS_AddElement
    <3>2. Said(was, x) = Cardinality(Heard(n, x)) /\ Said(was, x) \in Nat
          /\ Said(Place(was, e), x) = Said(was, x) + (IF e.text = x THEN 1 ELSE 0)
      BY <2>3, <2>7
    <3>3. CASE e.text = x
      BY <2>5, <3>1, <3>2, <3>3
    <3>4. CASE e.text # x
      <4>1. Heard(n + 1, x) = Heard(n, x)
        BY <2>5, <3>4
      <4>2. Said(Place(was, e), x) = Said(was, x)
        <5>1. (IF e.text = x THEN 1 ELSE 0) = 0
          BY <3>4
        <5> QED BY <3>2, <5>1
      <4> QED BY <3>2, <4>1, <4>2
    <3> QED BY <3>3, <3>4
  <2> QED BY <2>4, <2>7, <2>8
<1> HIDE DEF Fine
<1>6. Fine = Nat
  <2>1. Fine \in SUBSET Nat
    BY DEF Fine
  <2> QED BY <1>4, <1>5, <2>1, NumberInduction
<1>7. Kept(Len(s))
  <2> HIDE DEF Kept
  <2> QED BY <1>1, <1>6 DEF Fine
<1>8. \A x : Said(s, x) = Cardinality(Heard(Len(s), x))
  BY <1>1 DEF Said
<1> HIDE DEF Heard
<1> QED BY <1>1, <1>7, <1>8

\* An element that begins no earlier than all others goes to the end.
LEMMA PlaceLast ==
  ASSUME NEW E, NEW q \in Seq(E), NEW e \in E, \A i \in DOMAIN q : q[i].start <= e.start
  PROVE  Place(q, e) = Append(q, e)
<1>1. DOMAIN q = 1..Len(q) /\ Len(q) \in 0..Len(q) /\ Len(q) \in Nat
  OBVIOUS
<1>2. Cardinality({i \in DOMAIN q : q[i].start <= e.start}) = Len(q)
  <2>1. {i \in DOMAIN q : q[i].start <= e.start} = 1..Len(q)
    BY <1>1
  <2>2. Cardinality(1..Len(q)) = Len(q)
    BY <1>1, FS_Interval
  <2> QED BY <2>1, <2>2
<1> DEFINE new == InsertAt(q, Len(q) + 1, e)
           last == Append(q, e)
<1>3. Place(q, e) = new
  BY <1>2 DEF Place
<1>4. /\ new \in Seq(E) /\ Len(new) = Len(q) + 1
      /\ \A j \in 1..(Len(q) + 1) :
           new[j] = IF j <= Len(q) THEN q[j] ELSE IF j = Len(q) + 1 THEN e ELSE q[j - 1]
  <2>1. PICK n \in 0..Len(q) : n = Len(q)
    BY <1>1
  <2>2. /\ InsertAt(q, n + 1, e) \in Seq(E) /\ Len(InsertAt(q, n + 1, e)) = Len(q) + 1
        /\ \A j \in 1..(Len(q) + 1) :
             InsertAt(q, n + 1, e)[j] = IF j <= n THEN q[j] ELSE IF j = n + 1 THEN e ELSE q[j - 1]
    BY Inserted
  <2> QED BY <2>1, <2>2
<1>5. /\ last \in Seq(E) /\ Len(last) = Len(q) + 1
      /\ \A j \in 1..(Len(q) + 1) : last[j] = IF j <= Len(q) THEN q[j] ELSE e
  BY <1>1
<1> HIDE DEF new, last
<1>6. \A j \in 1..Len(new) : new[j] = last[j]
  BY <1>1, <1>4, <1>5
<1>7. new = last
  BY <1>4, <1>5, <1>6, SeqEqual
<1> QED BY <1>3, <1>7 DEF last

\* Sorting leaves a sequence in order as it is.
LEMMA SortKeepsOrder ==
  ASSUME NEW E, Timed(E), NEW s \in Seq(E), NEW r, Sorts(r, s)
  PROVE  /\ r[DOMAIN s] \in Sorted(E) /\ Len(r[DOMAIN s]) = Len(s)
         /\ Ordered(s) => r[DOMAIN s] = s
<1> DEFINE At0(n, q) == /\ q \in Sorted(E) /\ Len(q) = n
                        /\ Ordered(s) => \A j \in 1..n : q[j] = s[j]
           Kept(n) == At0(n, r[1..n])
           Fine == {n \in Nat : n <= Len(s) => Kept(n)}
<1>1. DOMAIN s = 1..Len(s) /\ Len(s) \in Nat /\ \A i \in DOMAIN s : s[i] \in E
  OBVIOUS
<1>2. r[1..0] = <<>>
  <2>1. 1..0 = {} /\ {} \in SUBSET DOMAIN s
    OBVIOUS
  <2> QED BY <2>1 DEF Sorts
<1>3. ASSUME NEW n \in 1..Len(s) PROVE r[1..n] = Place(r[1..(n - 1)], s[n])
  <2>1. 1..n \in SUBSET DOMAIN s /\ 1..n # {} /\ Max(1..n) = n /\ (1..n) \ {n} = 1..(n - 1)
    BY <1>1, FirstIndices
  <2>2. PICK T : T = 1..n
    OBVIOUS
  <2>3. r[T] = Place(r[T \ {Max(T)}], s[Max(T)])
    BY <2>1, <2>2 DEF Sorts
  <2>4. Max(T) = n /\ T \ {Max(T)} = 1..(n - 1)
    BY <2>1, <2>2
  <2> QED BY <2>2, <2>3, <2>4, Zenon
<1>4. 0 \in Fine
  <2>1. Kept(0)
    BY <1>2 DEF Sorted, Ordered
  <2> QED BY <2>1
<1>5. ASSUME NEW n \in Fine PROVE n + 1 \in Fine
  <2>0. n \in Nat /\ n + 1 \in Nat /\ (n <= Len(s) => Kept(n))
    <3> HIDE DEF Kept
    <3> QED BY <1>5
  <2>1. SUFFICES ASSUME n + 1 <= Len(s) PROVE Kept(n + 1)
    <3> HIDE DEF Kept
    <3> QED BY <2>0
  <2>2. n \in Nat /\ n + 1 \in 1..Len(s) /\ (n + 1) - 1 = n /\ s[n + 1] \in E /\ n <= Len(s)
    BY <1>1, <2>0, <2>1
  <2> DEFINE was == r[1..n]
             e == s[n + 1]
             now == Place(was, e)
  <2>3. At0(n, was)
    <3> HIDE DEF At0
    <3> QED BY <2>0, <2>2
  <2>4. r[1..(n + 1)] = now
    BY <1>3, <2>2
  <2> HIDE DEF was, e, Fine
  <2>5. e \in E /\ was \in Seq(E) /\ Ordered(was) /\ \A d \in E : d.start \in Int
    BY <2>2, <2>3 DEF Sorted, Timed, e
  <2>6. /\ now \in Seq(E) /\ Ordered(now)
        /\ \E k \in 0..Len(was) : now = InsertAt(was, k + 1, e)
    BY <2>5, PlaceKeepsOrder
  <2>7. Len(now) = n + 1
    <3>1. PICK k \in 0..Len(was) : now = InsertAt(was, k + 1, e)
      BY <2>6
    <3>2. Len(InsertAt(was, k + 1, e)) = Len(was) + 1
      BY <2>5, Inserted
    <3> QED BY <2>3, <3>1, <3>2
  <2>8. ASSUME Ordered(s) PROVE \A j \in 1..(n + 1) : now[j] = s[j]
    <3>1. /\ DOMAIN was = 1..n /\ \A i \in 1..n : was[i] = s[i]
      BY <2>3, <2>5, <2>8
    <3>2. \A i \in 1..n : s[i].start <= e.start
      BY <1>1, <2>2, <2>8 DEF Ordered, e
    <3>3. now = Append(was, e)
      BY <2>5, <3>1, <3>2, PlaceLast
    <3> HIDE DEF now
    <3>4. now[n + 1] = e /\ \A i \in 1..n : now[i] = was[i]
      BY <2>2, <2>3, <2>5, <3>3
    <3>5. \A j \in 1..(n + 1) : j \in 1..n \/ j = n + 1
      BY <2>2
    <3> QED BY <3>1, <3>4, <3>5 DEF e
  <2> HIDE DEF now
  <2>9. At0(n + 1, now)
    BY <2>6, <2>7, <2>8 DEF Sorted
  <2> QED BY <2>4, <2>9
<1> HIDE DEF Fine
<1>6. Fine = Nat
  <2>1. Fine \in SUBSET Nat
    BY DEF Fine
  <2> QED BY <1>4, <1>5, <2>1, NumberInduction
<1>7. At0(Len(s), r[DOMAIN s])
  <2>1. Kept(Len(s))
    <3> HIDE DEF Kept
    <3> QED BY <1>1, <1>6 DEF Fine
  <2> QED BY <1>1, <2>1
<1> DEFINE q == r[DOMAIN s]
<1> HIDE DEF q
<1>8. q \in Seq(E) /\ q \in Sorted(E) /\ Len(q) = Len(s)
  BY <1>7 DEF q, Sorted
<1>9. ASSUME Ordered(s) PROVE q = s
  <2>1. \A j \in 1..Len(q) : q[j] = s[j]
    BY <1>7, <1>8, <1>9 DEF q
  <2> QED BY <1>8, <2>1, SeqEqual
<1> QED BY <1>8, <1>9 DEF q

LEMMA ByStartSorts ==
  ASSUME NEW E, Timed(E), NEW s \in Seq(E)
  PROVE  /\ ByStart(s) \in Sorted(E) /\ \A x : Said(ByStart(s), x) = Said(s, x)
         /\ Len(ByStart(s)) = Len(s) /\ (Ordered(s) => ByStart(s) = s)
<1> DEFINE Is(g) == g = [T \in SUBSET DOMAIN s |->
                           IF T = {} THEN <<>> ELSE Place(g[T \ {Max(T)}], s[Max(T)])]
           r == CHOOSE g : Is(g)
<1>1. \E g : Is(g)
  BY SortRuns, Zenon DEF Sorts
<1>2. Is(r)
  BY <1>1, Zenon
<1>3. ByStart(s) = r[DOMAIN s]
  BY Zenon DEF ByStart, FoldLeft, MapThenFoldSet
<1>4. Sorts(r, s)
  BY <1>2 DEF Sorts
<1> HIDE DEF r, Is
<1>5. r[DOMAIN s] \in Sorted(E) /\ \A x : Said(r[DOMAIN s], x) = Said(s, x)
  BY <1>4, SortKeepsTexts
<1>6. Len(r[DOMAIN s]) = Len(s) /\ (Ordered(s) => r[DOMAIN s] = s)
  BY <1>4, SortKeepsOrder
<1> QED BY <1>3, <1>5, <1>6

Parsed(h, t) == ParsePayload(ServiceSegments(h, t))

\* What the adapter returns is the service's segments as it reads them, in order; it is
\* what was heard, in the order it was heard, when no time is taken for seconds.
LEMMA ParsedIsOrdered ==
  ASSUME NEW h \in Seq(Chunks), NEW t
  PROVE  /\ Parsed(h, t) \in Sorted(HeardSet)
         /\ \A x : x # NoText => Said(Parsed(h, t), x) = Said(h, x)
         /\ Len(Parsed(h, t)) = NthOf(h, Len(h))
         /\ Ordered(h) /\ (\A i \in DOMAIN h : h[i].start \notin 1..(SecondsBelow - 1)) =>
              \A i \in DOMAIN h : h[i].text # NoText =>
                /\ Parsed(h, t)[NthOf(h, i)].text = h[i].text
                /\ Parsed(h, t)[NthOf(h, i)].start = h[i].start
<1> DEFINE chunks == TranscribeChunks(h)
           S == {SpeakerFor(t, chunks[i]) : i \in DOMAIN chunks}
           sent == ServiceSegments(h, t)
           E == [start : Int, end : Int, text : STRING, speaker : S]
           read == Adapted(sent)
<1>1. chunks \in Seq(ChunkSet) /\ \A x : x # NoText => Said(chunks, x) = Said(h, x)
  BY ChunksKeepTexts
<1>2. KeptInOrder(chunks, h, [c \in Chunks |-> ChunkOf(c)])
  BY ChunksKeepTexts
<1>3. \A i \in DOMAIN h : h[i] \in Chunks /\ h[i].start \in Nat /\ i \in Nat
  BY SpeechInputs
<1>4. /\ sent = [i \in DOMAIN chunks |->
                   [start |-> chunks[i].start, end |-> chunks[i].end, text |-> chunks[i].text,
                    speaker |-> SpeakerFor(t, chunks[i])]]
      /\ \A i \in DOMAIN chunks : SpeakerFor(t, chunks[i]) \in S
  BY Zenon DEF ServiceSegments
<1> HIDE DEF chunks, S, sent
<1>5. /\ sent \in Seq(E)
      /\ DOMAIN sent = DOMAIN chunks
      /\ \A i \in DOMAIN sent : sent[i].text = chunks[i].text /\ sent[i].start = chunks[i].start
  <2>1. DOMAIN chunks = 1..Len(chunks) /\ Len(chunks) \in Nat /\ \A i \in DOMAIN chunks : chunks[i] \in ChunkSet
    BY <1>1
  <2>2. \A i \in DOMAIN chunks : /\ chunks[i].start \in Int /\ chunks[i].end \in Int
                                 /\ chunks[i].text \in STRING
    BY <2>1 DEF ChunkSet
  <2> QED BY <1>4, <2>1, <2>2
<1>6. \A x : Said(sent, x) = Said(chunks, x)
  <2>1. \A x : {i \in DOMAIN sent : sent[i].text = x} = {i \in DOMAIN chunks : chunks[i].text = x}
    BY <1>5
  <2> QED BY <2>1 DEF Said
<1>7. /\ read \in Seq(HeardSet) /\ \A x : x # NoText => Said(read, x) = Said(sent, x)
      /\ KeptInOrder(read, sent, [c \in E |-> Adapt(c)])
  BY <1>5, AdaptedKeepsTexts
<1> HIDE DEF E
<1>8. Timed(HeardSet)
  BY DEF Timed, HeardSet, SegmentSet
<1>9. Parsed(h, t) = ByStart(read)
  BY Zenon DEF Parsed, ParsePayload, sent
<1> HIDE DEF read
<1>10. /\ ByStart(read) \in Sorted(HeardSet) /\ \A x : Said(ByStart(read), x) = Said(read, x)
       /\ Len(ByStart(read)) = Len(read) /\ (Ordered(read) => ByStart(read) = read)
  BY <1>7, <1>8, ByStartSorts
\* No chunk is without a text, so the adapter drops none.
<1>11. /\ DOMAIN chunks = 1..Len(chunks) /\ Len(chunks) \in Nat /\ Len(chunks) = NthOf(h, Len(h))
       /\ \A k \in 1..Len(chunks) : \E i \in DOMAIN h :
            /\ h[i].text # NoText /\ NthOf(h, i) = k
            /\ chunks[k].text = h[i].text /\ chunks[k].start = h[i].start
  <2> DEFINE conv == [c \in Chunks |-> ChunkOf(c)]
  <2>1. \A i \in DOMAIN h : conv[h[i]].text = h[i].text /\ conv[h[i]].start = h[i].start
    BY <1>3, SpeechInputs DEF ChunkOf, NoEnd
  <2>2. KeptInOrder(chunks, h, conv)
    BY <1>2
  <2>3. DOMAIN chunks = 1..Len(chunks) /\ Len(chunks) \in Nat
    BY <1>1
  <2> HIDE DEF conv
  <2> QED BY <2>1, <2>2, <2>3 DEF KeptInOrder
<1>12. \A k \in DOMAIN sent : sent[k].text # NoText
  BY <1>5, <1>11
<1>13. DOMAIN sent = 1..Len(sent) /\ Len(sent) = Len(chunks)
  BY <1>5, <1>11
<1>14. \A k \in 0..Len(sent) : NthOf(sent, k) = k
  <2>1. ASSUME NEW k \in 0..Len(sent) PROVE NthOf(sent, k) = k
    <3>1. {j \in 1..k : sent[j].text # NoText} = 1..k
      BY <1>11, <1>12, <1>13
    <3>2. Cardinality(1..k) = k
      BY <1>11, <1>13, FS_Interval
    <3> QED BY <3>1, <3>2 DEF NthOf
  <2> QED BY <2>1
<1>15. Len(read) = Len(sent) /\ \A k \in 1..Len(sent) : read[k] = Adapt(sent[k])
  <2>1. Len(sent) \in 0..Len(sent) /\ \A k \in 1..Len(sent) : k \in 0..Len(sent) /\ sent[k] \in E
    BY <1>5, <1>11, <1>13
  <2>2. Len(read) = NthOf(sent, Len(sent))
    BY <1>7 DEF KeptInOrder
  <2>3. ASSUME NEW k \in 1..Len(sent) PROVE read[k] = Adapt(sent[k])
    <3>1. read[NthOf(sent, k)] = [c \in E |-> Adapt(c)][sent[k]]
      BY <1>7, <1>12, <1>13 DEF KeptInOrder
    <3>2. NthOf(sent, k) = k
      BY <1>14, <2>1
    <3> QED BY <2>1, <3>1, <3>2
  <2> QED BY <1>14, <2>1, <2>2, <2>3
<1>16. Len(Parsed(h, t)) = NthOf(h, Len(h))
  BY <1>9, <1>10, <1>11, <1>13, <1>15
<1>17. ASSUME Ordered(h), \A i \in DOMAIN h : h[i].start \notin 1..(SecondsBelow - 1),
              NEW i \in DOMAIN h, h[i].text # NoText
       PROVE  /\ Parsed(h, t)[NthOf(h, i)].text = h[i].text
              /\ Parsed(h, t)[NthOf(h, i)].start = h[i].start
  <2>1. \A k \in 1..Len(chunks) : read[k].text = chunks[k].text /\ read[k].start = ToMs(chunks[k].start)
    <3>1. \A c : Adapt(c).text = c.text /\ Adapt(c).start = ToMs(c.start)
      BY DEF Adapt
    <3> QED BY <1>5, <1>11, <1>13, <1>15, <3>1
  <2>2. \A j \in DOMAIN h : ToMs(h[j].start) = h[j].start
    <3>1. ASSUME NEW j \in DOMAIN h PROVE ToMs(h[j].start) = h[j].start
      <4>1. h[j].start \in Nat /\ h[j].start \notin 1..(SecondsBelow - 1) /\ SecondsBelow \in Nat
        BY <1>3, <1>17, SpeechAssumption
      <4> QED BY <4>1 DEF ToMs
    <3> QED BY <3>1
  <2>3. ASSUME NEW k \in 1..Len(chunks), NEW l \in 1..Len(chunks), k < l
        PROVE  read[k].start <= read[l].start
    <3>1. PICK a \in DOMAIN h : NthOf(h, a) = k /\ chunks[k].start = h[a].start
      BY <1>11
    <3>2. PICK b \in DOMAIN h : NthOf(h, b) = l /\ chunks[l].start = h[b].start
      BY <1>11
    <3>3. a < b
      <4>1. ASSUME b <= a PROVE FALSE
        <5>1. NthOf(h, b) <= NthOf(h, a)
          BY <1>3, <4>1, PlacesGoUp
        <5> QED BY <2>3, <3>1, <3>2, <5>1
      <4> QED BY <1>3, <4>1
    <3>4. h[a].start <= h[b].start
      BY <1>17, <3>3 DEF Ordered
    <3> QED BY <2>1, <2>2, <3>1, <3>2, <3>4
  <2>4. Ordered(read)
    <3>1. DOMAIN read = 1..Len(chunks)
      BY <1>7, <1>13, <1>15
    <3> QED BY <2>3, <3>1 DEF Ordered
  <2>5. Parsed(h, t) = read
    BY <1>9, <1>10, <2>4
  <2>6. /\ NthOf(h, i) \in 1..Len(chunks)
        /\ chunks[NthOf(h, i)] = [c \in Chunks |-> ChunkOf(c)][h[i]]
    BY <1>2, <1>17 DEF KeptInOrder
  <2>7. chunks[NthOf(h, i)].text = h[i].text /\ chunks[NthOf(h, i)].start = h[i].start
    <3>1. ChunkOf(h[i]).text = h[i].text /\ ChunkOf(h[i]).start = h[i].start
      BY <1>3, SpeechInputs DEF ChunkOf, NoEnd
    <3> QED BY <1>3, <2>6, <3>1
  <2> QED BY <2>1, <2>2, <2>5, <2>6, <2>7
<1> QED BY <1>1, <1>6, <1>7, <1>9, <1>10, <1>16, <1>17

SpeechTyped == heard \in Seq(Chunks) /\ turns \in Seq(Turns) /\ Ordered(heard)

LEMMA SpeechTypedInvariant == SpeechSpec => []SpeechTyped
<1>1. SpeechInit => SpeechTyped
  BY DEF SpeechInit, SpeechTyped, Ordered
<1>2. SpeechTyped /\ [SpeechNext]_speechVars => SpeechTyped'
  <2>1. SUFFICES ASSUME SpeechTyped, [SpeechNext]_speechVars PROVE SpeechTyped'
    OBVIOUS
  <2>2. CASE HearWords
    <3>1. PICK c \in Chunks : /\ heard' = Append(heard, c) /\ UNCHANGED turns
                              /\ Len(heard) > 0 => heard[Len(heard)].start <= c.start
      BY <2>2 DEF HearWords
    <3>2. /\ heard \in Seq(Chunks) /\ DOMAIN heard = 1..Len(heard) /\ Len(heard) \in Nat
          /\ \A i \in 1..Len(heard) : heard[i].start \in Int
          /\ \A i, j \in 1..Len(heard) : i < j => heard[i].start <= heard[j].start
      BY <2>1, SpeechInputs DEF SpeechTyped, Ordered
    <3>3. c.start \in Int
      BY SpeechInputs
    <3>4. \A i \in 1..Len(heard) : heard[i].start <= c.start
      <4>1. ASSUME NEW i \in 1..Len(heard) PROVE heard[i].start <= c.start
        <5>1. Len(heard) > 0 /\ Len(heard) \in 1..Len(heard)
          BY <3>2
        <5>2. heard[i].start <= heard[Len(heard)].start
          BY <3>2, <5>1
        <5> QED BY <3>1, <3>2, <3>3, <5>1, <5>2
      <4> QED BY <4>1
    <3>5. /\ heard' \in Seq(Chunks) /\ DOMAIN heard' = 1..(Len(heard) + 1)
          /\ heard'[Len(heard) + 1] = c /\ \A i \in 1..Len(heard) : heard'[i] = heard[i]
      BY <3>1, <3>2
    <3>6. Ordered(heard')
      BY <3>2, <3>4, <3>5 DEF Ordered
    <3> QED BY <2>1, <3>1, <3>5, <3>6 DEF SpeechTyped
  <2>3. CASE HearTurn
    BY <2>1, <2>3 DEF SpeechTyped, HearTurn, Ordered
  <2>4. CASE UNCHANGED speechVars
    BY <2>1, <2>4 DEF SpeechTyped, speechVars, Ordered
  <2> QED BY <2>1, <2>2, <2>3, <2>4 DEF SpeechNext
<1> QED BY <1>1, <1>2, PTL DEF SpeechSpec

\* The first transcript of a recording.
LEMMA StoredIsParsed == Stored = Parsed(heard, turns)
BY DEF Stored, Parsed, RunTranscription

LEMMA StoredIsOrdered ==
  ASSUME SpeechTyped
  PROVE  Stored \in Sorted(HeardSet)
BY StoredIsParsed, ParsedIsOrdered DEF SpeechTyped

\* Where nothing is heard an earlier transcript stays; else what is stored is in the
\* order of its times, no segment ends before it begins, every text is in it as often
\* as it was heard, and when no time is taken for seconds it is what was heard in the
\* order it was heard (parse_payload).
THEOREM TranscriptsKeepOrder == SpeechSpec => []TranscriptInOrder
<1>1. SpeechTyped => TranscriptInOrder
  <2>1. SUFFICES ASSUME SpeechTyped, NEW e \in Earlier
                 PROVE  LET q == RunTranscription(e, heard, turns)
                        IN  IF AllHeard = 0 THEN q = e
                            ELSE /\ \A i, j \in DOMAIN q : i < j => q[i].start <= q[j].start
                                 /\ \A i \in DOMAIN q : q[i].start <= q[i].end
                                 /\ \A x \in {c.text : c \in Chunks} \ {NoText} :
                                      Cardinality({i \in DOMAIN q : q[i].text = x})
                                        = Cardinality({i \in DOMAIN heard : heard[i].text = x})
                                 /\ (\A i \in DOMAIN heard : heard[i].start \notin 1..(SecondsBelow - 1))
                                      => TextsAsHeard(q) /\ TimesAsHeard(q)
    BY DEF TranscriptInOrder
  <2> DEFINE p == Parsed(heard, turns)
  <2>2. /\ p \in Sorted(HeardSet)
        /\ \A x : x # NoText => Said(p, x) = Said(heard, x)
        /\ Len(p) = NthOf(heard, Len(heard))
        /\ (\A i \in DOMAIN heard : heard[i].start \notin 1..(SecondsBelow - 1)) =>
             \A i \in DOMAIN heard : heard[i].text # NoText =>
               p[NthOf(heard, i)].text = heard[i].text /\ p[NthOf(heard, i)].start = heard[i].start
    BY <2>1, ParsedIsOrdered DEF SpeechTyped
  <2>3. \A i : Nth(i) = NthOf(heard, i)
    BY DEF Nth, NthOf
  <2>4. p = <<>> <=> AllHeard = 0
    <3>1. p \in Seq(HeardSet) /\ Len(p) = AllHeard
      BY <2>2, <2>3 DEF Sorted, AllHeard
    <3> HIDE DEF p
    <3> QED BY <3>1
  <2>5. RunTranscription(e, heard, turns) = IF p = <<>> THEN e ELSE p
    BY DEF RunTranscription, Parsed
  <2> HIDE DEF p
  <2>6. CASE AllHeard = 0
    BY <2>4, <2>5, <2>6
  <2>7. CASE AllHeard # 0
    <3>1. RunTranscription(e, heard, turns) = p
      BY <2>4, <2>5, <2>7
    <3>2. p \in Seq(HeardSet) /\ Ordered(p)
      BY <2>2 DEF Sorted
    <3>3. \A i \in DOMAIN p : p[i].start <= p[i].end
      BY <3>2 DEF HeardSet
    <3>4. (\A i \in DOMAIN heard : heard[i].start \notin 1..(SecondsBelow - 1))
            => TextsAsHeard(p) /\ TimesAsHeard(p)
      BY <2>2, <2>3 DEF TextsAsHeard, TimesAsHeard, AllHeard
    <3>5. \A x \in {c.text : c \in Chunks} \ {NoText} :
            Cardinality({i \in DOMAIN p : p[i].text = x})
              = Cardinality({i \in DOMAIN heard : heard[i].text = x})
      BY <2>2 DEF Said
    <3> QED BY <2>7, <3>1, <3>2, <3>3, <3>4, <3>5 DEF Ordered
  <2> QED BY <2>6, <2>7
<1> QED BY <1>1, SpeechTypedInvariant, PTL

-----------------------------------------------------------------------------
(* What is drawn from a transcript *)

\* What is spoken is a time.
LEMMA SpokenIsTime ==
  ASSUME NEW q \in Seq(HeardSet), NEW w
  PROVE  Spoken(q, w) \in Nat /\ Words(q, w) \in Nat
<1> DEFINE S == {i \in DOMAIN q : q[i].speaker \in {w}}
           f == [i \in S |-> Max({0, q[i].end - q[i].start})]
           R == {i \in DOMAIN q : q[i].speaker = w}
<1>1. IsFiniteSet(S) /\ IsFiniteSet(R)
  <2>1. DOMAIN q = 1..Len(q) /\ Len(q) \in Nat
    OBVIOUS
  <2>2. IsFiniteSet(DOMAIN q) /\ S \in SUBSET DOMAIN q /\ R \in SUBSET DOMAIN q
    BY <2>1, FS_Interval
  <2> HIDE DEF S, R
  <2> QED BY <2>2, FS_Subset
<1>2. \A i \in S : f[i] \in Nat
  <2>1. ASSUME NEW i \in S PROVE Max({0, q[i].end - q[i].start}) \in Nat
    <3>1. q[i].end - q[i].start \in Int
      BY DEF HeardSet, SegmentSet
    <3> QED BY <3>1, MaxMinOfTwo
  <2> QED BY <2>1
<1>3. DOMAIN f = S
  OBVIOUS
<1>4. Spoken(q, w) = SumFunctionOnSet(f, DOMAIN f)
  BY Zenon DEF Spoken, SpokenBy, SumFunction
<1> HIDE DEF S, f
<1>5. SumFunctionOnSet(f, S) \in Nat
  BY <1>1, <1>2, SumNat
<1>6. Cardinality(R) \in Nat
  <2> HIDE DEF R
  <2> QED BY <1>1, FS_CardinalityType
<1> QED BY <1>3, <1>4, <1>5, <1>6 DEF Words

\* Two transcripts with the same times, of which one has u where the other has w.
LEMMA SpokenIsSame ==
  ASSUME NEW q, NEW p, NEW w, NEW u, DOMAIN p = DOMAIN q,
         \A i \in DOMAIN q : /\ p[i].start = q[i].start /\ p[i].end = q[i].end
                             /\ p[i].speaker = u <=> q[i].speaker = w
  PROVE  Spoken(p, u) = Spoken(q, w) /\ Words(p, u) = Words(q, w)
<1>1. [i \in {i \in DOMAIN p : p[i].speaker \in {u}} |-> Max({0, p[i].end - p[i].start})]
        = [i \in {i \in DOMAIN q : q[i].speaker \in {w}} |-> Max({0, q[i].end - q[i].start})]
  OBVIOUS
<1>2. {i \in DOMAIN p : p[i].speaker = u} = {i \in DOMAIN q : q[i].speaker = w}
  OBVIOUS
<1>3. Spoken(p, u) = Spoken(q, w)
  BY <1>1, Zenon DEF Spoken, SpokenBy
<1> QED BY <1>2, <1>3 DEF Words

LEMMA TalkIsSharedOut ==
  ASSUME Stored \in Seq(HeardSet)
  PROVE  TalkIsShared
<1> DEFINE Flip(w) == CASE w = "agent" -> "customer" [] w = "customer" -> "agent" [] OTHER -> w
<1>1. /\ Flip("agent") = "customer" /\ Flip("customer") = "agent"
      /\ \A w : w # "agent" /\ w # "customer" => Flip(w) = w
  BY Zenon
<1>2. Swapped = [i \in DOMAIN Stored |-> [Stored[i] EXCEPT !.speaker = Flip(@)]]
  BY Zenon DEF Swapped
<1> HIDE DEF Flip
<1>3. \A w : Flip(w) = "agent" <=> w = "customer"
  BY <1>1
<1>4. \A w : Flip(w) = "customer" <=> w = "agent"
  BY <1>1
<1>5. /\ DOMAIN Swapped = DOMAIN Stored
      /\ \A i \in DOMAIN Stored : /\ Swapped[i].start = Stored[i].start /\ Swapped[i].end = Stored[i].end
                                  /\ Swapped[i].speaker = Flip(Stored[i].speaker)
  <2>1. \A i \in DOMAIN Stored : Stored[i] \in [start : Int, end : Int, text : STRING, speaker : Speakers]
    BY DEF HeardSet, SegmentSet
  <2> QED BY <1>2, <2>1
<1>6. /\ Spoken(Swapped, "agent") = Spoken(Stored, "customer")
      /\ Words(Swapped, "agent") = Words(Stored, "customer")
  BY <1>3, <1>5, SpokenIsSame
<1>7. /\ Spoken(Swapped, "customer") = Spoken(Stored, "agent")
      /\ Words(Swapped, "customer") = Words(Stored, "agent")
  <2>1. /\ DOMAIN Swapped = DOMAIN Stored
        /\ \A i \in DOMAIN Stored :
             /\ Swapped[i].start = Stored[i].start /\ Swapped[i].end = Stored[i].end
             /\ Swapped[i].speaker = "customer" <=> Stored[i].speaker = "agent"
    BY <1>4, <1>5
  <2> QED BY <2>1, SpokenIsSame
<1>8. /\ Spoken(Stored, "agent") \in Nat /\ Spoken(Stored, "customer") \in Nat
      /\ Words(Stored, "agent") \in Nat /\ Words(Stored, "customer") \in Nat
  BY SpokenIsTime
<1> QED BY <1>6, <1>7, <1>8 DEF TalkIsShared, TalkRatio

\* A loop over the points of a timeline, from the colours there were.
Paints(g, q, was, tl) ==
  g = [T \in SUBSET DOMAIN tl |->
         IF T = {} THEN was ELSE Painted(q, g[T \ {Max(T)}], tl[Max(T)])]

Labels == {"very_negative", "negative", "neutral", "positive", "very_positive"}
Points == [at : Nat, label : Labels]
Colours(q) == [DOMAIN q -> Labels \cup {"none"}]

LEMMA PaintRuns ==
  ASSUME NEW q, NEW was \in Colours(q), NEW tl \in Seq(Points)
  PROVE  \E g : g \in [SUBSET DOMAIN tl -> Colours(q)] /\ Paints(g, q, was, tl)
<1> DEFINE V == Colours(q)
           step == [p \in Points \X V |-> Painted(q, p[2], p[1])]
<1>1. step \in [Points \X V -> V]
  BY DEF Painted, Points, Colours
<1>2. DOMAIN tl = 1..Len(tl) /\ Len(tl) \in Nat /\ \A i \in DOMAIN tl : tl[i] \in Points
  OBVIOUS
<1>3. \A T \in SUBSET DOMAIN tl : T # {} => Max(T) \in T
  BY <1>2, FirstIndices
<1> HIDE DEF V, step
<1>4. PICK g : g \in [SUBSET DOMAIN tl -> V] /\ Loops(g, tl, was, step)
  BY <1>1, LoopRuns DEF V
<1>5. ASSUME NEW T \in SUBSET DOMAIN tl, T # {}
      PROVE  step[<<tl[Max(T)], g[T \ {Max(T)}]>>] = Painted(q, g[T \ {Max(T)}], tl[Max(T)])
  <2>1. tl[Max(T)] \in Points /\ g[T \ {Max(T)}] \in V
    BY <1>2, <1>3, <1>4, <1>5
  <2>2. \A e \in Points, c \in V : step[<<e, c>>] = Painted(q, c, e)
    BY DEF step
  <2> QED BY <2>1, <2>2
<1>6. Paints(g, q, was, tl)
  BY <1>4, <1>5 DEF Loops, Paints
<1> QED BY <1>4, <1>6 DEF V

\* The points up to n that land in a segment, and its colour after them.
Landing(q, tl, n, i) == {k \in 1..n : i \in LastBegun(q, tl[k].at)}
ColourAfter(q, was, tl, n, i) ==
  IF Landing(q, tl, n, i) = {} THEN was[i] ELSE tl[Max(Landing(q, tl, n, i))].label

\* A segment has the label of the last point that landed in it, else what it had.
LEMMA PaintColours ==
  ASSUME NEW q, NEW was \in Colours(q), NEW tl \in Seq(Points), NEW g, Paints(g, q, was, tl)
  PROVE  \A i \in DOMAIN q : g[DOMAIN tl][i] = ColourAfter(q, was, tl, Len(tl), i)
<1> DEFINE Right(n) == \A i \in DOMAIN q : g[1..n][i] = ColourAfter(q, was, tl, n, i)
           Fine == {n \in Nat : n <= Len(tl) => Right(n)}
<1>1. DOMAIN tl = 1..Len(tl) /\ Len(tl) \in Nat
  OBVIOUS
<1>2. g[1..0] = was
  <2>1. 1..0 = {} /\ {} \in SUBSET DOMAIN tl
    OBVIOUS
  <2> QED BY <2>1 DEF Paints
<1>3. ASSUME NEW n \in 1..Len(tl) PROVE g[1..n] = Painted(q, g[1..(n - 1)], tl[n])
  <2>1. 1..n \in SUBSET DOMAIN tl /\ 1..n # {} /\ Max(1..n) = n /\ (1..n) \ {n} = 1..(n - 1)
    BY <1>1, FirstIndices
  <2>2. PICK T : T = 1..n
    OBVIOUS
  <2>3. g[T] = Painted(q, g[T \ {Max(T)}], tl[Max(T)])
    BY <2>1, <2>2 DEF Paints
  <2>4. Max(T) = n /\ T \ {Max(T)} = 1..(n - 1)
    BY <2>1, <2>2
  <2> QED BY <2>2, <2>3, <2>4, Zenon
<1>4. 0 \in Fine
  <2>1. \A i : Landing(q, tl, 0, i) = {}
    BY DEF Landing
  <2> QED BY <1>2, <2>1 DEF ColourAfter
<1>5. ASSUME NEW n \in Fine PROVE n + 1 \in Fine
  <2>1. SUFFICES ASSUME n + 1 <= Len(tl) PROVE Right(n + 1)
    OBVIOUS
  <2>2. n \in Nat /\ n + 1 \in 1..Len(tl) /\ (n + 1) - 1 = n
    BY <2>1
  <2>3. Right(n)
    BY <2>1, <2>2
  <2>4. g[1..(n + 1)] = Painted(q, g[1..n], tl[n + 1])
    BY <1>3, <2>2
  <2>5. SUFFICES ASSUME NEW i \in DOMAIN q
                 PROVE  g[1..(n + 1)][i] = ColourAfter(q, was, tl, n + 1, i)
    OBVIOUS
  <2>6. g[1..(n + 1)][i] = IF i \in LastBegun(q, tl[n + 1].at) THEN tl[n + 1].label ELSE g[1..n][i]
    BY <2>4 DEF Painted
  <2>7. Landing(q, tl, n + 1, i) = IF i \in LastBegun(q, tl[n + 1].at)
                                   THEN Landing(q, tl, n, i) \cup {n + 1} ELSE Landing(q, tl, n, i)
    <3>1. \A k : k \in 1..(n + 1) <=> k \in 1..n \/ k = n + 1
      BY <2>2
    <3> QED BY <3>1 DEF Landing
  <2>8. Max(Landing(q, tl, n, i) \cup {n + 1}) = n + 1
    <3>1. \A k \in Landing(q, tl, n, i) : k \in Nat /\ k < n + 1
      BY <2>2 DEF Landing
    <3> QED BY <2>2, <3>1 DEF Max
  <2>9. CASE i \in LastBegun(q, tl[n + 1].at)
    BY <2>6, <2>7, <2>8, <2>9 DEF ColourAfter
  <2>10. CASE i \notin LastBegun(q, tl[n + 1].at)
    BY <2>3, <2>6, <2>7, <2>10 DEF ColourAfter
  <2> QED BY <2>9, <2>10
<1> HIDE DEF Fine
<1>6. Fine = Nat
  <2>1. Fine \in SUBSET Nat
    BY DEF Fine
  <2> QED BY <1>4, <1>5, <2>1, NumberInduction
<1>7. Right(Len(tl))
  <2> HIDE DEF Right
  <2> QED BY <1>1, <1>6 DEF Fine
<1> QED BY <1>1, <1>7

LEMMA SentimentColours ==
  ASSUME NEW q, NEW was \in Colours(q), NEW tl \in Seq(Points)
  PROVE  /\ ApplySentiment(q, was, tl) \in Colours(q)
         /\ \A i \in DOMAIN q : ApplySentiment(q, was, tl)[i] = ColourAfter(q, was, tl, Len(tl), i)
<1> DEFINE Is(g) == g = [T \in SUBSET DOMAIN tl |->
                           IF T = {} THEN was ELSE Painted(q, g[T \ {Max(T)}], tl[Max(T)])]
           r == CHOOSE g : Is(g)
<1>1. PICK h : h \in [SUBSET DOMAIN tl -> Colours(q)] /\ Paints(h, q, was, tl)
  BY PaintRuns
<1>2. \E g : Is(g)
  <2>1. Is(h)
    BY <1>1 DEF Paints
  <2> QED BY <2>1, Zenon
<1>3. Is(r)
  BY <1>2, Zenon
<1>4. ApplySentiment(q, was, tl) = r[DOMAIN tl]
  BY Zenon DEF ApplySentiment, FoldLeft, MapThenFoldSet
<1>5. Paints(r, q, was, tl)
  BY <1>3 DEF Paints
<1> HIDE DEF r, Is
<1>6. \A i \in DOMAIN q : r[DOMAIN tl][i] = ColourAfter(q, was, tl, Len(tl), i)
  BY <1>5, PaintColours
<1>7. r[DOMAIN tl] \in Colours(q)
  <2>1. DOMAIN tl = 1..Len(tl) /\ Len(tl) \in Nat /\ \A k \in 1..Len(tl) : tl[k] \in Points
    OBVIOUS
  <2>2. CASE Len(tl) = 0
    <3>1. DOMAIN tl = {} /\ DOMAIN tl \in SUBSET DOMAIN tl
      BY <2>1, <2>2
    <3>2. r[DOMAIN tl] = was
      BY <1>5, <3>1 DEF Paints
    <3> QED BY <3>2
  <2>3. CASE Len(tl) # 0
    <3>1. PICK T : T = DOMAIN tl
      OBVIOUS
    <3>2. r[T] = Painted(q, r[T \ {Max(T)}], tl[Max(T)])
      <4>1. T # {} /\ T \in SUBSET DOMAIN tl
        BY <2>1, <2>3, <3>1
      <4> QED BY <1>5, <4>1 DEF Paints
    <3>3. r[DOMAIN tl] = [i \in DOMAIN q |-> r[DOMAIN tl][i]]
      BY <3>1, <3>2 DEF Painted
    <3>4. \A i \in DOMAIN q : ColourAfter(q, was, tl, Len(tl), i) \in Labels \cup {"none"}
      <4>1. ASSUME NEW i \in DOMAIN q, Landing(q, tl, Len(tl), i) # {}
            PROVE  Max(Landing(q, tl, Len(tl), i)) \in 1..Len(tl)
        <5>1. Landing(q, tl, Len(tl), i) \in SUBSET (1..Len(tl))
          BY DEF Landing
        <5> QED BY <2>1, <4>1, <5>1, FirstIndices
      <4> QED BY <2>1, <4>1 DEF ColourAfter, Colours, Points
    <3> QED BY <1>6, <3>3, <3>4 DEF Colours
  <2> QED BY <2>2, <2>3
<1> QED BY <1>4, <1>6, <1>7

\* In a transcript in order, the last segment begun is the one before the next begins.
LEMMA LastBegunLands ==
  ASSUME NEW q \in Sorted(HeardSet), NEW at \in Nat, NEW i \in DOMAIN q
  PROVE  i \in LastBegun(q, at) <=> /\ q[i].start <= at
                                    /\ i < Len(q) => at < q[i + 1].start
<1>1. /\ DOMAIN q = 1..Len(q) /\ Len(q) \in Nat /\ i \in 1..Len(q)
      /\ \A j \in 1..Len(q) : q[j].start \in Int
      /\ \A j, k \in 1..Len(q) : j < k => q[j].start <= q[k].start
  BY DEF Sorted, Ordered, HeardSet, SegmentSet
<1>2. ASSUME i \in LastBegun(q, at), i < Len(q) PROVE at < q[i + 1].start
  <2>1. i + 1 \in 1..Len(q) /\ ~(i + 1 <= i)
    BY <1>1, <1>2
  <2> QED BY <1>1, <1>2, <2>1 DEF LastBegun
<1>3. ASSUME q[i].start <= at, i < Len(q) => at < q[i + 1].start,
             NEW j \in 1..Len(q), q[j].start <= at
      PROVE  j <= i
  <2>1. SUFFICES ASSUME j > i PROVE FALSE
    BY <1>1
  <2>2. i + 1 \in 1..Len(q) /\ i < Len(q)
    BY <1>1, <2>1
  <2>3. q[i + 1].start <= q[j].start
    <3>1. CASE i + 1 = j
      BY <1>1, <3>1
    <3>2. CASE i + 1 < j
      BY <1>1, <2>2, <3>2
    <3> QED BY <1>1, <2>1, <3>1, <3>2
  <2> QED BY <1>1, <1>3, <2>2, <2>3
<1> QED BY <1>1, <1>2, <1>3 DEF LastBegun

\* The talk ratio is shared out; a segment has the label of the last point of the
\* timeline that lands in it, and where none does what the run before gave it
\* (talk_ratio, _apply_segment_sentiment).
THEOREM InsightsAreOfTheTranscript == SpeechSpec => []InsightsFitTranscript
<1>1. SpeechTyped => InsightsFitTranscript
  <2>1. SUFFICES ASSUME SpeechTyped PROVE InsightsFitTranscript
    OBVIOUS
  <2>2. Stored \in Sorted(HeardSet)
    BY <2>1, StoredIsOrdered
  <2>3. Stored \in Seq(HeardSet)
    BY <2>2 DEF Sorted
  <2>4. TalkIsShared
    BY <2>3, TalkIsSharedOut
  <2> DEFINE lands(p) == {j \in DOMAIN Stored :
                            /\ Stored[j].start <= p.at
                            /\ j < Len(Stored) => p.at < Stored[j + 1].start}
             before(first) == ApplySentiment(Stored, Uncoloured(Stored), first)
             own(tl, i) == {k \in DOMAIN tl : i \in lands(tl[k])}
  <2>5. ASSUME NEW first \in Timelines, NEW tl \in Timelines, NEW i \in DOMAIN Stored
        PROVE  ApplySentiment(Stored, before(first), tl)[i]
                 = IF own(tl, i) = {} THEN before(first)[i] ELSE tl[Max(own(tl, i))].label
    <3>1. tl \in Seq(Points) /\ first \in Seq(Points)
      BY SpeechInputs DEF Points, Labels
    <3>2. \A k \in DOMAIN tl : tl[k].at \in Nat
      <4>1. \A k \in DOMAIN tl : tl[k] \in Points
        BY <3>1
      <4> QED BY <4>1 DEF Points
    <3>3. Uncoloured(Stored) \in Colours(Stored)
      BY DEF Uncoloured, Colours
    <3>4. before(first) \in Colours(Stored)
      BY <3>1, <3>3, SentimentColours
    <3>5. ApplySentiment(Stored, before(first), tl)[i]
            = ColourAfter(Stored, before(first), tl, Len(tl), i)
      <4> HIDE DEF before
      <4> QED BY <3>1, <3>4, SentimentColours
    <3>6. \A k \in DOMAIN tl : i \in LastBegun(Stored, tl[k].at) <=> i \in lands(tl[k])
      BY <2>2, <3>2, LastBegunLands
    <3>7. Landing(Stored, tl, Len(tl), i) = own(tl, i)
      <4>1. DOMAIN tl = 1..Len(tl)
        BY <3>1
      <4> HIDE DEF lands
      <4> QED BY <3>6, <4>1 DEF Landing
    <3> HIDE DEF before, own
    <3> QED BY <3>5, <3>7 DEF ColourAfter
  <2>6. PointsColourTheirSegment
    BY <2>5, Zenon DEF PointsColourTheirSegment
  <2> QED BY <2>4, <2>6 DEF InsightsFitTranscript
<1> QED BY <1>1, SpeechTypedInvariant, PTL
=============================================================================
