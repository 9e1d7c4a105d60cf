------------------------- MODULE AggregateTheorems -------------------------
(***************************************************************************)
(* Sums and maxima of the library, over finite sets.  The library states   *)
(* nothing about them that can be cited here, as its theorems on folds and *)
(* induction take operators.  The induction is therefore over the subsets  *)
(* of the given set: a family of counterexamples among them that is not    *)
(* empty has a member of which no proper subset is one (Smallest).         *)
(*                                                                         *)
(* A sum is a CHOOSE of a recursive function.  Exists and Unique say that  *)
(* there is exactly one such function, AnyOrder that the order of adding   *)
(* makes no difference; the theorems after them are what other modules     *)
(* use.                                                                    *)
(***************************************************************************)
EXTENDS Functions, FiniteSetsExt, FiniteSetTheorems, TLAPS

Any(s) == CHOOSE x \in s : TRUE

(* g adds up f over each subset of S, one arbitrary element at a time.     *)
SumStep(g, f, s)  == IF s = {} THEN 0 ELSE f[Any(s)] + g[s \ {Any(s)}]
IsSum(g, f, S) == g = [s \in SUBSET S |-> SumStep(g, f, s)]

(* Of the members of a family of subsets of a finite set one is smallest.  *)
LEMMA Smallest ==
    ASSUME NEW S, IsFiniteSet(S), NEW F, F \subseteq SUBSET S, F # {}
    PROVE  \E T \in F : \A U \in F : U \subseteq T => U = T
<1>1. F \subseteq FiniteSubsetsOf(S)
  BY FS_FiniteSubsetsOfFinite
<1>2. IsWellFoundedOn(StrictSubsetOrdering(S), FiniteSubsetsOf(S))
  BY FS_StrictSubsetOrderingWellFounded
<1>3. PICK T \in F : \A U \in F : ~(<<U, T>> \in StrictSubsetOrdering(S))
  BY <1>1, <1>2, WFMin
<1> QED
  BY <1>3 DEF StrictSubsetOrdering

(* A number for each element of a finite set: one of the elements has the  *)
(* greatest.                                                               *)
THEOREM Greatest ==
    ASSUME NEW S, IsFiniteSet(S), S # {}, NEW f, \A x \in S : f[x] \in Int
    PROVE  \E x \in S : \A y \in S : f[y] <= f[x]
<1> DEFINE Tops(T) == {x \in T : \A y \in T : f[y] <= f[x]}
           F == {T \in SUBSET S : T # {} /\ Tops(T) = {}}
<1>1. ASSUME NEW T \in F, \A U \in F : U \subseteq T => U = T PROVE FALSE
  <2>1. T \in SUBSET S /\ T # {} /\ Tops(T) = {}
        /\ \A U \in SUBSET S : U # {} /\ U \notin F => Tops(U) # {}
    OBVIOUS
  <2> HIDE DEF F
  <2>2. PICK a \in T : TRUE
    BY <2>1
  <2>3. T \ {a} \in SUBSET S /\ T \ {a} \notin F
    BY <1>1, <2>1, <2>2, Zenon
  <2>4. CASE T \ {a} = {}
    BY <2>1, <2>2, <2>4
  <2>5. CASE T \ {a} # {}
    <3>1. PICK b \in T \ {a} : \A y \in T \ {a} : f[y] <= f[b]
      BY <2>1, <2>3, <2>5
    <3>2. \A y \in T : f[y] \in Int
      BY <2>1
    <3>3. IF f[a] <= f[b] THEN b \in Tops(T) ELSE a \in Tops(T)
      BY <2>2, <3>1, <3>2
    <3> QED
      BY <2>1, <3>3
  <2> QED
    BY <2>4, <2>5
<1>2. F \subseteq SUBSET S /\ (Tops(S) # {} \/ S \in F)
  OBVIOUS
<1> HIDE DEF F
<1>3. Tops(S) # {}
  BY <1>1, <1>2, Smallest
<1> QED
  BY <1>3

(* The maximum of finitely many integers is the greatest of them.          *)
THEOREM MaxOfInts ==
    ASSUME NEW S \in SUBSET Int, IsFiniteSet(S), S # {}
    PROVE  Max(S) \in S /\ \A y \in S : y <= Max(S)
<1> DEFINE f == [x \in S |-> x]
<1>1. \E x \in S : \A y \in S : f[y] <= f[x]
  <2>1. \A x \in S : f[x] \in Int
    OBVIOUS
  <2> HIDE DEF f
  <2> QED
    BY <2>1, Greatest
<1>2. \E x \in S : \A y \in S : x >= y
  BY <1>1
<1>3. Max(S) \in S /\ \A y \in S : Max(S) >= y
  BY <1>2 DEF Max
<1> QED
  BY <1>3

(* What the sum over a subset is made of.                                  *)
LEMMA Unfold ==
    ASSUME NEW S, NEW f, NEW g, IsSum(g, f, S), NEW s \in SUBSET S
    PROVE  g[s] = SumStep(g, f, s)
  BY Zenon DEF IsSum

(* There is at most one function that adds up f over the subsets of S.     *)
LEMMA Unique ==
    ASSUME NEW S, IsFiniteSet(S), NEW f, NEW g, NEW h, IsSum(g, f, S), IsSum(h, f, S)
    PROVE  g = h
<1> DEFINE F == {s \in SUBSET S : g[s] # h[s]}
<1>1. SUFFICES F = {}
  <2>1. g = [s \in SUBSET S |-> g[s]] /\ h = [s \in SUBSET S |-> h[s]]
    BY Zenon DEF IsSum
  <2>2. ASSUME F = {} PROVE \A s \in SUBSET S : g[s] = h[s]
    BY <2>2
  <2> HIDE DEF F
  <2> QED
    BY <2>1, <2>2, Zenon
<1>2. ASSUME NEW s \in F, \A u \in F : u \subseteq s => u = s PROVE FALSE
  <2>1. s \in SUBSET S /\ g[s] # h[s]
    OBVIOUS
  <2>2. g[{}] = 0 /\ h[{}] = 0
    BY Unfold DEF SumStep
  <2>3. s # {}
    BY <2>1, <2>2
  <2>4. Any(s) \in s
    BY <2>3 DEF Any
  <2>5. s \ {Any(s)} \in SUBSET S /\ s \ {Any(s)} \notin F
    BY <1>2, <2>4, Zenon
  <2>6. g[s \ {Any(s)}] = h[s \ {Any(s)}]
    BY <2>5
  <2>7. g[s] = f[Any(s)] + g[s \ {Any(s)}] /\ h[s] = f[Any(s)] + h[s \ {Any(s)}]
    <3>1. g[s] = SumStep(g, f, s) /\ h[s] = SumStep(h, f, s)
      BY <2>1, Unfold
    <3> QED
      BY <2>3, <3>1 DEF SumStep
  <2> QED
    BY <2>1, <2>6, <2>7
<1>3. F \subseteq SUBSET S
  OBVIOUS
<1> HIDE DEF F
<1> QED
  BY <1>2, <1>3, Smallest

(* A function that adds up f over the subsets of S does it over those of a *)
(* part of S.                                                              *)
LEMMA Restricted ==
    ASSUME NEW S, NEW f, NEW g, IsSum(g, f, S), NEW T \in SUBSET S
    PROVE  IsSum([s \in SUBSET T |-> g[s]], f, T)
<1> DEFINE h == [s \in SUBSET T |-> g[s]]
<1>1. ASSUME NEW s \in SUBSET T PROVE h[s] = SumStep(h, f, s)
  <2>1. s \in SUBSET S /\ s \ {Any(s)} \in SUBSET T
    OBVIOUS
  <2>2. h[s] = g[s] /\ h[s \ {Any(s)}] = g[s \ {Any(s)}]
    BY <2>1
  <2>3. g[s] = SumStep(g, f, s)
    BY <2>1, Unfold
  <2> HIDE DEF h
  <2> QED
    BY <2>2, <2>3 DEF SumStep
<1>2. h = [s \in SUBSET T |-> h[s]]
  OBVIOUS
<1> HIDE DEF h
<1>3. IsSum(h, f, T)
  BY <1>1, <1>2, Zenon DEF IsSum
<1> QED
  BY <1>3 DEF h

(* A function that adds up f over the subsets of a finite set exists.      *)
LEMMA Exists ==
    ASSUME NEW S, IsFiniteSet(S), NEW f
    PROVE  \E g : IsSum(g, f, S)
<1> DEFINE F == {T \in SUBSET S : ~ \E g : IsSum(g, f, T)}
           Sum(T) == CHOOSE g : IsSum(g, f, T)
<1>1. ASSUME NEW T \in F, \A U \in F : U \subseteq T => U = T PROVE FALSE
  <2> DEFINE Rest(s) == s \ {Any(s)}
             h == [s \in SUBSET T |-> IF s = {} THEN 0 ELSE f[Any(s)] + Sum(Rest(s))[Rest(s)]]
  <2>1. ASSUME NEW s \in SUBSET T, s # {} PROVE /\ Any(s) \in s
                                                /\ IsFiniteSet(Rest(s))
                                                /\ IsSum(Sum(Rest(s)), f, Rest(s))
    <3>1. Any(s) \in s
      BY <2>1 DEF Any
    <3>2. Rest(s) \in SUBSET S /\ Rest(s) \subseteq T /\ Rest(s) # T
      BY <3>1
    <3>3. IsFiniteSet(Rest(s))
      BY <3>2, FS_Subset
    <3>4. \E g : IsSum(g, f, Rest(s))
      BY <1>1, <3>2, Zenon
    <3> QED
      BY <3>1, <3>3, <3>4, Zenon
  <2>2. ASSUME NEW s \in SUBSET T PROVE h[s] = SumStep(h, f, s)
    <3>1. CASE s = {}
      BY <3>1 DEF SumStep
    <3>2. CASE s # {} /\ Rest(s) = {}
      <4>1. Sum(Rest(s))[{}] = 0
        BY <2>1, <3>2, Unfold DEF SumStep
      <4>2. h[{}] = 0
        OBVIOUS
      <4>3. h[s] = f[Any(s)] + Sum(Rest(s))[Rest(s)]
        BY <3>2
      <4> HIDE DEF h, Sum, Rest
      <4> QED
        BY <3>2, <4>1, <4>2, <4>3 DEF SumStep, Rest
    <3>3. CASE s # {} /\ Rest(s) # {}
      <4> DEFINE u == Rest(s)
      <4>0. u \in SUBSET T
        OBVIOUS
      <4>1. IsSum(Sum(u), f, u) /\ IsSum(Sum(Rest(u)), f, Rest(u)) /\ IsFiniteSet(Rest(u))
        BY <2>1, <3>3, <4>0
      <4>2. h[s] = f[Any(s)] + Sum(u)[u] /\ h[u] = f[Any(u)] + Sum(Rest(u))[Rest(u)]
        BY <3>3, <4>0
      <4>3. Rest(u) \in SUBSET u /\ Rest(u) \in SUBSET Rest(u) /\ u \in SUBSET u
        OBVIOUS
      <4>4. u \ {Any(u)} = Rest(u) /\ u # {}
        BY <3>3
      <4> HIDE DEF h, Sum, Rest, u
      <4>5. Sum(u)[u] = f[Any(u)] + Sum(u)[Rest(u)]
        <5>1. Sum(u)[u] = SumStep(Sum(u), f, u)
          BY <4>1, <4>3, Unfold
        <5> QED
          BY <4>4, <5>1 DEF SumStep
      <4>6. IsSum([t \in SUBSET Rest(u) |-> Sum(u)[t]], f, Rest(u))
        BY <4>1, <4>3, Restricted
      <4>7. [t \in SUBSET Rest(u) |-> Sum(u)[t]] = Sum(Rest(u))
        BY <4>1, <4>6, Unique
      <4>8. Sum(u)[Rest(u)] = Sum(Rest(u))[Rest(u)]
        BY <4>3, <4>7
      <4>9. h[s] = f[Any(s)] + h[u]
        BY <4>2, <4>5, <4>8
      <4> QED
        BY <3>3, <4>9 DEF u, Rest, SumStep
    <3> HIDE DEF h, Sum, Rest
    <3> QED
      BY <3>1, <3>2, <3>3
  <2>3. h = [s \in SUBSET T |-> h[s]]
    OBVIOUS
  <2> HIDE DEF h
  <2>4. IsSum(h, f, T)
    BY <2>2, <2>3, Zenon DEF IsSum
  <2> QED
    BY <2>4, Zenon
<1>2. F \subseteq SUBSET S
  OBVIOUS
<1>3. F = {} => \E g : IsSum(g, f, S)
  OBVIOUS
<1> HIDE DEF F
<1> QED
  BY <1>1, <1>2, <1>3, Smallest

(* A sum of integers is an integer.                                        *)
LEMMA SumType ==
    ASSUME NEW S, IsFiniteSet(S), NEW f, \A x \in S : f[x] \in Int,
           NEW g, IsSum(g, f, S), NEW s \in SUBSET S
    PROVE  g[s] \in Int
<1> DEFINE F == {T \in SUBSET S : g[T] \notin Int}
<1>1. ASSUME NEW T \in F, \A U \in F : U \subseteq T => U = T PROVE FALSE
  <2>0. /\ T \in SUBSET S /\ g[T] \notin Int
        /\ \A U \in SUBSET S : U \notin F => g[U] \in Int
    OBVIOUS
  <2> HIDE DEF F
  <2>1. g[T] = IF T = {} THEN 0 ELSE f[Any(T)] + g[T \ {Any(T)}]
    <3>1. g[T] = SumStep(g, f, T)
      BY <2>0, Unfold
    <3> QED
      BY <3>1 DEF SumStep
  <2>2. T # {}
    BY <2>0, <2>1
  <2>3. Any(T) \in T
    BY <2>2 DEF Any
  <2>4. T \ {Any(T)} \in SUBSET S /\ T \ {Any(T)} \notin F
    BY <1>1, <2>0, <2>3, Zenon
  <2>5. g[T \ {Any(T)}] \in Int /\ f[Any(T)] \in Int
    BY <2>0, <2>3, <2>4
  <2> QED
    BY <2>0, <2>1, <2>2, <2>5
<1>2. F \subseteq SUBSET S /\ (g[s] \in Int \/ s \in F)
  OBVIOUS
<1> HIDE DEF F
<1> QED
  BY <1>1, <1>2, Smallest

(* Any element may be the one that is added last.                          *)
LEMMA AnyOrder ==
    ASSUME NEW S, IsFiniteSet(S), NEW f, \A x \in S : f[x] \in Int,
           NEW g, IsSum(g, f, S), NEW s \in SUBSET S, NEW x \in s
    PROVE  g[s] = f[x] + g[s \ {x}]
<1> DEFINE F == {T \in SUBSET S : \E y \in T : g[T] # f[y] + g[T \ {y}]}
<1>1. ASSUME NEW T \in F, \A U \in F : U \subseteq T => U = T PROVE FALSE
  <2>0. /\ T \in SUBSET S
        /\ \A U \in SUBSET S : U \notin F => \A y \in U : g[U] = f[y] + g[U \ {y}]
        /\ \E y \in T : g[T] # f[y] + g[T \ {y}]
    OBVIOUS
  <2> HIDE DEF F
  <2> DEFINE a == Any(T)
  <2>1. PICK y \in T : g[T] # f[y] + g[T \ {y}]
    BY <2>0
  <2>2. a \in T
    BY <2>1 DEF Any
  <2>3. g[T] = f[a] + g[T \ {a}]
    <3>1. g[T] = SumStep(g, f, T)
      BY <2>0, Unfold
    <3> QED
      BY <2>1, <3>1 DEF SumStep
  <2>4. a # y
    BY <2>1, <2>3
  <2>5. T \ {a} \in SUBSET S /\ T \ {y} \in SUBSET S /\ (T \ {y}) \ {a} \in SUBSET S
    BY <2>0
  <2>6. T \ {a} \notin F /\ T \ {y} \notin F
    BY <1>1, <2>0, <2>1, <2>2, Zenon
  <2>7. y \in T \ {a} /\ a \in T \ {y} /\ (T \ {a}) \ {y} = (T \ {y}) \ {a}
    BY <2>2, <2>4
  <2>8. g[T \ {a}] = f[y] + g[(T \ {y}) \ {a}] /\ g[T \ {y}] = f[a] + g[(T \ {y}) \ {a}]
    BY <2>0, <2>5, <2>6, <2>7
  <2>9. f[a] \in Int /\ f[y] \in Int /\ g[(T \ {y}) \ {a}] \in Int
    BY <2>0, <2>1, <2>2, <2>5, SumType
  <2> HIDE DEF a
  <2> QED
    BY <2>1, <2>3, <2>8, <2>9
<1>2. F \subseteq SUBSET S /\ (g[s] = f[x] + g[s \ {x}] \/ s \in F)
  OBVIOUS
<1> HIDE DEF F
<1> QED
  BY <1>1, <1>2, Smallest

(* SumFunctionOnSet is the value of the function that adds up f.           *)
THEOREM SumOnSet ==
    ASSUME NEW S, IsFiniteSet(S), NEW f
    PROVE  \E g : IsSum(g, f, S) /\ SumFunctionOnSet(f, S) = g[S]
<1> DEFINE P(g) == g = [s \in SUBSET S |->
                          IF s = {} THEN 0
                          ELSE f[CHOOSE x \in s : TRUE] + g[s \ {CHOOSE x \in s : TRUE}]]
<1>1. SumFunctionOnSet(f, S) = (CHOOSE g : P(g))[S]
  BY DEF SumFunctionOnSet, FoldFunctionOnSet, MapThenFoldSet
<1>2. \A g : P(g) <=> IsSum(g, f, S)
  BY DEF IsSum, SumStep, Any
<1> HIDE DEF P
<1>3. \E g : IsSum(g, f, S)
  BY Exists
<1>4. P(CHOOSE g : P(g))
  BY <1>2, <1>3, Zenon
<1> QED
  BY <1>1, <1>2, <1>4, Zenon

(* The sum over no element is 0.                                           *)
THEOREM SumEmpty ==
    ASSUME NEW f
    PROVE  SumFunctionOnSet(f, {}) = 0
<1>1. IsFiniteSet({})
  BY FS_EmptySet
<1>2. PICK g : IsSum(g, f, {}) /\ SumFunctionOnSet(f, {}) = g[{}]
  BY <1>1, SumOnSet
<1>3. g[{}] = SumStep(g, f, {})
  BY <1>2, Unfold
<1> QED
  BY <1>2, <1>3 DEF SumStep

(* A sum of integers is an integer.                                        *)
THEOREM SumInt ==
    ASSUME NEW S, IsFiniteSet(S), NEW f, \A x \in S : f[x] \in Int
    PROVE  SumFunctionOnSet(f, S) \in Int
<1>1. PICK g : IsSum(g, f, S) /\ SumFunctionOnSet(f, S) = g[S]
  BY SumOnSet
<1> QED
  BY <1>1, SumType

(* A sum is the value at any element and the sum over the others.          *)
THEOREM SumRemove ==
    ASSUME NEW S, IsFiniteSet(S), NEW f, \A x \in S : f[x] \in Int, NEW x \in S
    PROVE  SumFunctionOnSet(f, S) = f[x] + SumFunctionOnSet(f, S \ {x})
<1> DEFINE T == S \ {x}
<1>1. T \in SUBSET S /\ IsFiniteSet(T)
  BY FS_RemoveElement
<1> HIDE DEF T
<1>2. PICK g : IsSum(g, f, S) /\ SumFunctionOnSet(f, S) = g[S]
  BY SumOnSet
<1>3. PICK h : IsSum(h, f, T) /\ SumFunctionOnSet(f, T) = h[T]
  BY <1>1, SumOnSet
<1>4. IsSum([s \in SUBSET T |-> g[s]], f, T)
  BY <1>1, <1>2, Restricted
<1>5. [s \in SUBSET T |-> g[s]] = h
  BY <1>1, <1>3, <1>4, Unique
<1>6. h[T] = g[T]
  BY <1>5
<1>7. g[S] = f[x] + g[S \ {x}]
  BY <1>2, AnyOrder
<1> QED
  BY <1>2, <1>3, <1>6, <1>7 DEF T

(* What holds between multiples of two numbers for every element holds     *)
(* between the same multiples of their sums.                               *)
EachLinear(S, a, f, b, h, c) == \A x \in S : a * f[x] <= b * h[x] + c
InTotal(S, a, f, b, h, c) ==
    a * SumFunctionOnSet(f, S) <= b * SumFunctionOnSet(h, S) + c * Cardinality(S)

(* A linear bound for every element is one for the sums.                   *)
THEOREM SumLinear ==
    ASSUME NEW S, IsFiniteSet(S),
           NEW f, \A x \in S : f[x] \in Int, NEW h, \A x \in S : h[x] \in Int,
           NEW a \in Int, NEW b \in Int, NEW c \in Int,
           EachLinear(S, a, f, b, h, c)
    PROVE  InTotal(S, a, f, b, h, c)
<1> DEFINE Claim(T) == a * SumFunctionOnSet(f, T) <= b * SumFunctionOnSet(h, T) + c * Cardinality(T)
           F == {T \in SUBSET S : ~Claim(T)}
<1>1. ASSUME NEW T \in F, \A U \in F : U \subseteq T => U = T PROVE FALSE
  <2>1. T \in SUBSET S /\ ~Claim(T) /\ \A U \in SUBSET S : U \notin F => Claim(U)
    OBVIOUS
  <2> HIDE DEF F
  <2>2. Claim({})
    BY SumEmpty, FS_EmptySet
  <2>3. PICK x \in T : TRUE
    BY <2>1, <2>2
  <2> DEFINE U == T \ {x}
  <2>4. IsFiniteSet(T) /\ \A y \in T : y \in S
    BY <2>1, FS_Subset
  <2>5. U \in SUBSET S /\ U \notin F
    BY <1>1, <2>1, <2>3
  <2>6. IsFiniteSet(U) /\ \A y \in U : y \in S
    BY <2>4, FS_RemoveElement
  <2>7. Cardinality(T) = Cardinality(U) + 1 /\ Cardinality(U) \in Int
    BY <2>3, <2>4, <2>6, FS_RemoveElement, FS_CardinalityType
  <2>8. /\ SumFunctionOnSet(f, T) = f[x] + SumFunctionOnSet(f, U)
        /\ SumFunctionOnSet(h, T) = h[x] + SumFunctionOnSet(h, U)
    BY <2>3, <2>4, SumRemove
  <2>9. SumFunctionOnSet(f, U) \in Int /\ SumFunctionOnSet(h, U) \in Int
    BY <2>6, SumInt
  <2>10. a * SumFunctionOnSet(f, U) <= b * SumFunctionOnSet(h, U) + c * Cardinality(U)
    BY <2>1, <2>5
  <2>11. f[x] \in Int /\ h[x] \in Int /\ a * f[x] <= b * h[x] + c
    BY <2>3, <2>4 DEF EachLinear
  <2> HIDE DEF U
  <2>12. \A p, q, r, u, v \in Int :
            a * q <= b * v + c * r /\ a * p <= b * u + c => a * (p + q) <= b * (u + v) + c * (r + 1)
    OBVIOUS
  <2>13. Claim(T)
    BY <2>7, <2>8, <2>9, <2>10, <2>11, <2>12
  <2> HIDE DEF Claim
  <2> QED
    BY <2>1, <2>13
<1>2. F \subseteq SUBSET S /\ (Claim(S) \/ S \in F)
  OBVIOUS
<1> HIDE DEF F
<1>3. F = {}
  BY <1>1, <1>2, Smallest
<1>4. Claim(S)
  BY <1>2, <1>3
<1> QED
  BY <1>4 DEF InTotal

(* A sum is at most as many times a bound as there are elements.           *)
THEOREM SumAtMost ==
    ASSUME NEW S, IsFiniteSet(S), NEW f, NEW bound \in Int,
           \A x \in S : f[x] \in Int /\ f[x] <= bound
    PROVE  SumFunctionOnSet(f, S) <= bound * Cardinality(S)
<1>1. SumFunctionOnSet(f, S) \in Int /\ Cardinality(S) \in Nat /\ 0 \in Int /\ 1 \in Int
  BY SumInt, FS_CardinalityType
<1>2. EachLinear(S, 1, f, 0, f, bound)
  BY DEF EachLinear
<1>3. InTotal(S, 1, f, 0, f, bound)
  BY <1>1, <1>2, SumLinear, Zenon
<1> QED
  BY <1>1, <1>3 DEF InTotal

(* A sum is at least as many times a bound as there are elements.          *)
THEOREM SumAtLeast ==
    ASSUME NEW S, IsFiniteSet(S), NEW f, NEW bound \in Int,
           \A x \in S : f[x] \in Int /\ bound <= f[x]
    PROVE  bound * Cardinality(S) <= SumFunctionOnSet(f, S)
<1> DEFINE minus == -1
           low   == -bound
           n     == Cardinality(S)
           total == SumFunctionOnSet(f, S)
<1>1. minus \in Int /\ low \in Int /\ total \in Int /\ n \in Nat /\ 0 \in Int
  BY SumInt, FS_CardinalityType
<1>2. EachLinear(S, minus, f, 0, f, low)
  BY DEF EachLinear
<1> HIDE DEF minus, low
<1>3. InTotal(S, minus, f, 0, f, low)
  BY <1>1, <1>2, SumLinear, Zenon
<1> HIDE DEF n, total
<1>4. minus * total <= 0 * total + low * n
  BY <1>3 DEF InTotal, n, total
<1>5. bound * n <= total
  BY <1>1, <1>4 DEF minus, low
<1> QED
  BY <1>5 DEF n, total
=============================================================================
