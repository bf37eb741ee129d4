----------------------------- MODULE SumsProofs -----------------------------
(***************************************************************************)
(* Sums of integers over finite sets, as SumFunctionOnSet of the community *)
(* modules computes them: the order in which its fold takes the elements   *)
(* is the one CHOOSE happens to give, and the lemmas below say that it     *)
(* does not matter.                                                        *)
(*                                                                         *)
(* Induction is stated about a set of numbers, or of sets, that is closed  *)
(* under one step, and rests on WFMin: the least number outside of the set *)
(* would contradict the step.                                              *)
(***************************************************************************)
EXTENDS Functions, Integers, FiniteSets, FiniteSetTheorems,
        WellFoundedInduction, TLAPS

\* A set of numbers that has 0 and the successor of each of its members has all.
LEMMA NumbersInduction ==
    ASSUME NEW G,
           0 \in G,
           \A n \in Nat : n \in G => n + 1 \in G
    PROVE  Nat \subseteq G
<1> DEFINE B == {n \in Nat : n \notin G}
<1> SUFFICES ASSUME B # {} PROVE FALSE
    OBVIOUS
<1>1. PICK n \in B : \A m \in B : <<m, n>> \notin OpToRel(<, Nat)
    BY WFMin, NatLessThanWellFounded
<1>2. \A m \in B : ~(m < n)
    BY <1>1 DEF OpToRel
<1> QED
  <2>1. n \in Nat \ {0}
      OBVIOUS
  <2>2. n - 1 \in Nat /\ n - 1 < n
      BY <2>1
  <2>3. n - 1 \in G
      BY <1>2, <2>2
  <2> QED
      BY <2>1, <2>2, <2>3

\* A set of subsets of a finite set that has the empty one, and each that is in it
\* without any one of its elements, has all.
LEMMA SizesInduction ==
    ASSUME NEW S, IsFiniteSet(S),
           NEW G,
           {} \in G,
           \A T \in SUBSET S :
               T # {} /\ (\A x \in T : T \ {x} \in G) => T \in G
    PROVE  SUBSET S \subseteq G
<1> DEFINE N == {n \in Nat : \A T \in SUBSET S : Cardinality(T) = n => T \in G}
<1>1. \A T \in SUBSET S : IsFiniteSet(T) /\ Cardinality(T) \in Nat
    BY FS_Subset, FS_CardinalityType
<1>2. 0 \in N
    BY <1>1, FS_EmptySet
<1>3. ASSUME NEW n \in Nat, n \in N
      PROVE  n + 1 \in N
  <2> SUFFICES ASSUME NEW T \in SUBSET S, Cardinality(T) = n + 1
               PROVE  T \in G
      OBVIOUS
  <2>1. T # {}
      BY <1>1, FS_EmptySet
  <2>2. \A x \in T : Cardinality(T \ {x}) = n
      BY <1>1, FS_RemoveElement
  <2>3. \A x \in T : T \ {x} \in G
      BY <1>3, <2>2
  <2> QED
      BY <2>1, <2>3
<1>4. Nat \subseteq N
  <2> HIDE DEF N
  <2> QED BY <1>2, <1>3, NumbersInduction
<1> QED
    BY <1>1, <1>4

\* The same for subsets that grow by one element.
LEMMA SubsetsInduction ==
    ASSUME NEW S, IsFiniteSet(S),
           NEW G,
           {} \in G,
           \A T \in SUBSET S, x \in S : x \notin T /\ T \in G => T \cup {x} \in G
    PROVE  SUBSET S \subseteq G
<1>1. ASSUME NEW T \in SUBSET S, T # {}, \A x \in T : T \ {x} \in G
      PROVE  T \in G
  <2>1. PICK x \in T : TRUE
      BY <1>1
  <2>2. T \ {x} \in G
      BY <1>1
  <2>3. T = (T \ {x}) \cup {x}
      OBVIOUS
  <2>4. x \in S /\ x \notin T \ {x} /\ T \ {x} \in SUBSET S
      OBVIOUS
  <2> QED
      BY <2>2, <2>3, <2>4
<1> QED
    BY <1>1, SizesInduction

-----------------------------------------------------------------------------
(***************************************************************************)
(* The fold is the solution of its own equation                            *)
(***************************************************************************)
Chosen(s) == CHOOSE x \in s : TRUE

SumStep(f, s, g) == IF s = {} THEN 0 ELSE f[Chosen(s)] + g[s \ {Chosen(s)}]

Sums(f, S, g) == g = [s \in SUBSET S |-> SumStep(f, s, g)]

LEMMA ChosenIn == ASSUME NEW s, s # {} PROVE Chosen(s) \in s
BY DEF Chosen

LEMMA SumIsChosen ==
    ASSUME NEW f, NEW S
    PROVE  SumFunctionOnSet(f, S) = (CHOOSE g : Sums(f, S, g))[S]
BY DEF SumFunctionOnSet, FoldFunctionOnSet, MapThenFoldSet, Sums, SumStep, Chosen

\* The equation has a solution: one for the sets of at most n elements extends
\* to those of n + 1.
LEMMA SumsExist ==
    ASSUME NEW f, NEW S, IsFiniteSet(S)
    PROVE  \E g : Sums(f, S, g)
<1> DEFINE Upto(n) == {s \in SUBSET S : Cardinality(s) <= n}
           Solves(g, n) == g = [s \in Upto(n) |-> SumStep(f, s, g)]
           N == {n \in Nat : \E g : Solves(g, n)}
<1>1. \A s \in SUBSET S : /\ IsFiniteSet(s)
                          /\ Cardinality(s) \in Nat
                          /\ Cardinality(s) <= Cardinality(S)
    BY FS_Subset, FS_CardinalityType
<1>2. \A s \in SUBSET S : s # {} => /\ s \ {Chosen(s)} \in SUBSET S
                                    /\ Cardinality(s \ {Chosen(s)}) = Cardinality(s) - 1
    BY <1>1, FS_RemoveElement, ChosenIn
<1>3. 0 \in N
  <2> DEFINE g == [s \in Upto(0) |-> 0]
  <2>1. \A s \in Upto(0) : s = {}
      BY <1>1, FS_EmptySet
  <2>2. g = [s \in Upto(0) |-> SumStep(f, s, g)]
      BY <2>1 DEF SumStep
  <2> QED
      BY <2>2
<1>4. ASSUME NEW n \in Nat, n \in N
      PROVE  n + 1 \in N
  <2>1. PICK g : Solves(g, n)
      BY <1>4
  <2> DEFINE h == [s \in Upto(n + 1) |-> SumStep(f, s, g)]
  <2> HIDE DEF Upto
  <2>2. \A s \in Upto(n + 1) : s # {} => s \ {Chosen(s)} \in Upto(n)
      BY <1>1, <1>2 DEF Upto
  <2>3. \A s \in Upto(n) : s \in Upto(n + 1)
      BY <1>1 DEF Upto
  <2>4. \A s \in Upto(n) : h[s] = g[s]
    <3>1. \A s \in Upto(n + 1) : h[s] = SumStep(f, s, g)
        OBVIOUS
    <3>2. \A s \in Upto(n) : g[s] = SumStep(f, s, g)
        BY <2>1
    <3> QED
        BY <2>3, <3>1, <3>2
  <2>5. \A s \in Upto(n + 1) : SumStep(f, s, g) = SumStep(f, s, h)
      BY <2>2, <2>4 DEF SumStep
  <2>6. Solves(h, n + 1)
      BY <2>5
  <2>7. \E k : Solves(k, n + 1)
      BY <2>6
  <2> QED
      BY <2>7
<1>5. Nat \subseteq N
  <2> HIDE DEF N
  <2> QED BY <1>3, <1>4, NumbersInduction
<1>6. Cardinality(S) \in Nat
    BY FS_CardinalityType
<1>7. PICK g : Solves(g, Cardinality(S))
    BY <1>5, <1>6
<1>8. Upto(Cardinality(S)) = SUBSET S
    BY <1>1
<1> QED
    BY <1>7, <1>8 DEF Sums

\* Two solutions agree where both are defined.
LEMMA SumsAgree ==
    ASSUME NEW f, NEW S, NEW T \in SUBSET S, IsFiniteSet(S),
           NEW g, Sums(f, S, g),
           NEW h, Sums(f, T, h)
    PROVE  g[T] = h[T]
<1> DEFINE N == {n \in Nat : \A s \in SUBSET T : Cardinality(s) = n => g[s] = h[s]}
<1>1. IsFiniteSet(T)
    BY FS_Subset
<1>2. \A s \in SUBSET T : IsFiniteSet(s) /\ Cardinality(s) \in Nat
    BY <1>1, FS_Subset, FS_CardinalityType
<1>3. \A s \in SUBSET T : g[s] = SumStep(f, s, g) /\ h[s] = SumStep(f, s, h)
    BY DEF Sums
<1>4. 0 \in N
    BY <1>2, <1>3, FS_EmptySet DEF SumStep
<1>5. ASSUME NEW n \in Nat, n \in N
      PROVE  n + 1 \in N
  <2> SUFFICES ASSUME NEW s \in SUBSET T, Cardinality(s) = n + 1
               PROVE  g[s] = h[s]
      OBVIOUS
  <2>1. s # {}
      BY FS_EmptySet
  <2>2. Cardinality(s \ {Chosen(s)}) = n
      BY <1>2, <2>1, FS_RemoveElement, ChosenIn
  <2>3. g[s \ {Chosen(s)}] = h[s \ {Chosen(s)}]
      BY <1>5, <2>2
  <2> QED
      BY <1>3, <2>1, <2>3 DEF SumStep
<1>6. Nat \subseteq N
  <2> HIDE DEF N
  <2> QED BY <1>4, <1>5, NumbersInduction
<1> QED
    BY <1>2, <1>6

LEMMA SumIsSolution ==
    ASSUME NEW f, NEW S, NEW T \in SUBSET S, IsFiniteSet(S),
           NEW g, Sums(f, S, g)
    PROVE  SumFunctionOnSet(f, T) = g[T]
<1>1. IsFiniteSet(T)
    BY FS_Subset
<1>2. Sums(f, T, CHOOSE h : Sums(f, T, h))
    BY <1>1, SumsExist
<1> QED
    BY <1>2, SumsAgree, SumIsChosen
-----------------------------------------------------------------------------
(***************************************************************************)
(* Sums of integers                                                        *)
(***************************************************************************)
LEMMA SumOfNone == ASSUME NEW f PROVE SumFunctionOnSet(f, {}) = 0
<1>1. PICK g : Sums(f, {}, g)
    BY SumsExist, FS_EmptySet
<1>2. g[{}] = 0
    BY <1>1 DEF Sums, SumStep
<1> QED
    BY <1>1, <1>2, SumIsSolution, FS_EmptySet

\* The fold takes the element that CHOOSE gives.
LEMMA SumTakesChosen ==
    ASSUME NEW f, NEW S, IsFiniteSet(S), S # {}
    PROVE  SumFunctionOnSet(f, S) =
               f[Chosen(S)] + SumFunctionOnSet(f, S \ {Chosen(S)})
<1>1. PICK g : Sums(f, S, g)
    BY SumsExist
<1>2. g[S] = f[Chosen(S)] + g[S \ {Chosen(S)}]
    BY <1>1 DEF Sums, SumStep
<1>3. SumFunctionOnSet(f, S) = g[S]
    BY <1>1, SumIsSolution
<1>4. SumFunctionOnSet(f, S \ {Chosen(S)}) = g[S \ {Chosen(S)}]
    BY <1>1, SumIsSolution
<1> QED
    BY <1>2, <1>3, <1>4

LEMMA SumIsInt ==
    ASSUME NEW f, NEW S, IsFiniteSet(S), \A x \in S : f[x] \in Int
    PROVE  SumFunctionOnSet(f, S) \in Int
<1> DEFINE G == {T \in SUBSET S : SumFunctionOnSet(f, T) \in Int}
<1>1. {} \in G
    BY SumOfNone
<1>2. ASSUME NEW T \in SUBSET S, T # {}, \A x \in T : T \ {x} \in G
      PROVE  T \in G
  <2>1. IsFiniteSet(T)
      BY FS_Subset
  <2>2. Chosen(T) \in T
      BY <1>2, ChosenIn
  <2>3. SumFunctionOnSet(f, T) =
            f[Chosen(T)] + SumFunctionOnSet(f, T \ {Chosen(T)})
      BY <1>2, <2>1, SumTakesChosen
  <2>4. SumFunctionOnSet(f, T \ {Chosen(T)}) \in Int
      BY <1>2, <2>2
  <2>5. f[Chosen(T)] \in Int
      BY <2>2
  <2> QED
      BY <2>3, <2>4, <2>5
<1>3. SUBSET S \subseteq G
  <2> HIDE DEF G
  <2> QED BY <1>1, <1>2, SizesInduction
<1> QED
    BY <1>3

\* Any element may be taken first.
THEOREM SumTakesAny ==
    ASSUME NEW f, NEW S, IsFiniteSet(S), \A x \in S : f[x] \in Int,
           NEW a \in S
    PROVE  SumFunctionOnSet(f, S) = f[a] + SumFunctionOnSet(f, S \ {a})
<1> DEFINE Takes(T) == \A x \in T :
               SumFunctionOnSet(f, T) = f[x] + SumFunctionOnSet(f, T \ {x})
           G == {T \in SUBSET S : Takes(T)}
<1>1. {} \in G
    OBVIOUS
<1>2. ASSUME NEW T \in SUBSET S, T # {}, \A x \in T : T \ {x} \in G
      PROVE  T \in G
  <2> SUFFICES ASSUME NEW x \in T
               PROVE  SumFunctionOnSet(f, T) = f[x] + SumFunctionOnSet(f, T \ {x})
      OBVIOUS
  <2> DEFINE y == Chosen(T)
             R == T \ {x, y}
  <2>1. IsFiniteSet(T) /\ IsFiniteSet(R)
      BY FS_Subset
  <2>2. y \in T
      BY <1>2, ChosenIn
  <2>3. SumFunctionOnSet(f, T) = f[y] + SumFunctionOnSet(f, T \ {y})
      BY <1>2, <2>1, SumTakesChosen
  <2>4. CASE x = y
      BY <2>3, <2>4
  <2>5. CASE x # y
    <3> HIDE DEF y
    <3>1. SumFunctionOnSet(f, T \ {y}) = f[x] + SumFunctionOnSet(f, R)
      <4>1. (T \ {y}) \ {x} = R
          OBVIOUS
      <4>2. T \ {y} \in G /\ x \in T \ {y}
          BY <1>2, <2>2, <2>5
      <4> QED
          BY <4>1, <4>2
    <3>2. SumFunctionOnSet(f, T \ {x}) = f[y] + SumFunctionOnSet(f, R)
      <4>1. (T \ {x}) \ {y} = R
          OBVIOUS
      <4>2. T \ {x} \in G /\ y \in T \ {x}
          BY <1>2, <2>2, <2>5
      <4> QED
          BY <4>1, <4>2
    <3>3. f[x] \in Int /\ f[y] \in Int
        BY <2>2
    <3>4. SumFunctionOnSet(f, R) \in Int
        BY <2>1, SumIsInt
    <3> HIDE DEF R
    <3> QED
        BY <2>3, <3>1, <3>2, <3>3, <3>4
  <2> QED
      BY <2>4, <2>5
<1>3. SUBSET S \subseteq G
  <2> HIDE DEF G
  <2> QED BY <1>1, <1>2, SizesInduction
<1> QED
    BY <1>3

LEMMA SumAdds ==
    ASSUME NEW f, NEW S, IsFiniteSet(S), NEW a, a \notin S,
           \A x \in S \cup {a} : f[x] \in Int
    PROVE  SumFunctionOnSet(f, S \cup {a}) = SumFunctionOnSet(f, S) + f[a]
<1>1. IsFiniteSet(S \cup {a})
    BY FS_AddElement
<1>2. (S \cup {a}) \ {a} = S
    OBVIOUS
<1>3. SumFunctionOnSet(f, S \cup {a}) = f[a] + SumFunctionOnSet(f, S)
    BY <1>1, <1>2, SumTakesAny
<1>4. SumFunctionOnSet(f, S) \in Int /\ f[a] \in Int
    BY SumIsInt
<1> QED
    BY <1>3, <1>4

\* A sum of sums, element by element.
LEMMA SumOfSums ==
    ASSUME NEW f, NEW g, NEW h, NEW S, IsFiniteSet(S),
           \A x \in S : f[x] \in Int /\ g[x] \in Int /\ h[x] = f[x] + g[x]
    PROVE  SumFunctionOnSet(h, S) = SumFunctionOnSet(f, S) + SumFunctionOnSet(g, S)
<1> DEFINE G == {T \in SUBSET S : SumFunctionOnSet(h, T) =
                     SumFunctionOnSet(f, T) + SumFunctionOnSet(g, T)}
<1>1. {} \in G
    BY SumOfNone
<1>2. ASSUME NEW T \in SUBSET S, NEW a \in S, a \notin T, T \in G
      PROVE  T \cup {a} \in G
  <2>1. IsFiniteSet(T)
      BY FS_Subset
  <2>2. \A x \in T \cup {a} : f[x] \in Int /\ g[x] \in Int /\ h[x] \in Int
      OBVIOUS
  <2>3. /\ SumFunctionOnSet(f, T \cup {a}) = SumFunctionOnSet(f, T) + f[a]
        /\ SumFunctionOnSet(g, T \cup {a}) = SumFunctionOnSet(g, T) + g[a]
        /\ SumFunctionOnSet(h, T \cup {a}) = SumFunctionOnSet(h, T) + h[a]
      BY <1>2, <2>1, <2>2, SumAdds
  <2>4. /\ SumFunctionOnSet(f, T) \in Int
        /\ SumFunctionOnSet(g, T) \in Int
      BY <2>1, <2>2, SumIsInt
  <2>5. SumFunctionOnSet(h, T) = SumFunctionOnSet(f, T) + SumFunctionOnSet(g, T)
      BY <1>2
  <2> QED
      BY <2>3, <2>4, <2>5
<1>3. SUBSET S \subseteq G
  <2> HIDE DEF G
  <2> QED BY <1>1, <1>2, SubsetsInduction
<1> QED
    BY <1>3

LEMMA SumOfZeros ==
    ASSUME NEW f, NEW S, IsFiniteSet(S), \A x \in S : f[x] = 0
    PROVE  SumFunctionOnSet(f, S) = 0
<1>1. SumFunctionOnSet(f, S) = SumFunctionOnSet(f, S) + SumFunctionOnSet(f, S)
    BY SumOfSums
<1>2. SumFunctionOnSet(f, S) \in Int
    BY SumIsInt
<1>3. \A n \in Int : n = n + n => n = 0
    OBVIOUS
<1> QED
    BY <1>1, <1>2, <1>3

\* Only the values on the set matter.
LEMMA SumsEqual ==
    ASSUME NEW f, NEW g, NEW S, IsFiniteSet(S),
           \A x \in S : f[x] \in Int /\ g[x] = f[x]
    PROVE  SumFunctionOnSet(g, S) = SumFunctionOnSet(f, S)
<1> DEFINE z == [x \in S |-> 0]
<1>1. SumFunctionOnSet(g, S) = SumFunctionOnSet(f, S) + SumFunctionOnSet(z, S)
    BY SumOfSums
<1>2. SumFunctionOnSet(z, S) = 0
    BY SumOfZeros
<1>3. SumFunctionOnSet(f, S) \in Int
    BY SumIsInt
<1> QED
    BY <1>1, <1>2, <1>3

LEMMA SumOfConstant ==
    ASSUME NEW f, NEW S, IsFiniteSet(S), NEW c \in Int, \A x \in S : f[x] = c
    PROVE  SumFunctionOnSet(f, S) = Cardinality(S) * c
<1> DEFINE G == {T \in SUBSET S : SumFunctionOnSet(f, T) = Cardinality(T) * c}
<1>1. {} \in G
    BY SumOfNone, FS_EmptySet
<1>2. ASSUME NEW T \in SUBSET S, NEW a \in S, a \notin T, T \in G
      PROVE  T \cup {a} \in G
  <2>1. IsFiniteSet(T) /\ Cardinality(T) \in Nat
      BY FS_Subset, FS_CardinalityType
  <2>2. Cardinality(T \cup {a}) = Cardinality(T) + 1
      BY <1>2, <2>1, FS_AddElement
  <2>3. SumFunctionOnSet(f, T \cup {a}) = SumFunctionOnSet(f, T) + c
      BY <1>2, <2>1, SumAdds
  <2>4. \A n \in Nat : (n + 1) * c = n * c + c
      OBVIOUS
  <2>5. SumFunctionOnSet(f, T) = Cardinality(T) * c
      BY <1>2
  <2> QED
      BY <2>1, <2>2, <2>3, <2>4, <2>5
<1>3. SUBSET S \subseteq G
  <2> HIDE DEF G
  <2> QED BY <1>1, <1>2, SubsetsInduction
<1> QED
    BY <1>3

LEMMA SumOfNaturals ==
    ASSUME NEW f, NEW S, IsFiniteSet(S), \A x \in S : f[x] \in Nat
    PROVE  SumFunctionOnSet(f, S) \in Nat
<1> DEFINE G == {T \in SUBSET S : SumFunctionOnSet(f, T) \in Nat}
<1>1. {} \in G
    BY SumOfNone
<1>2. ASSUME NEW T \in SUBSET S, NEW a \in S, a \notin T, T \in G
      PROVE  T \cup {a} \in G
  <2>1. SumFunctionOnSet(f, T \cup {a}) = SumFunctionOnSet(f, T) + f[a]
      BY <1>2, SumAdds, FS_Subset
  <2> QED
      BY <1>2, <2>1
<1>3. SUBSET S \subseteq G
  <2> HIDE DEF G
  <2> QED BY <1>1, <1>2, SubsetsInduction
<1> QED
    BY <1>3

\* Elements that add nothing may be left out.
LEMMA SumOfSupport ==
    ASSUME NEW f, NEW S, IsFiniteSet(S), NEW R \in SUBSET S,
           \A x \in S : f[x] \in Int,
           \A x \in S \ R : f[x] = 0
    PROVE  SumFunctionOnSet(f, S) = SumFunctionOnSet(f, R)
<1> DEFINE G == {T \in SUBSET S : SumFunctionOnSet(f, T) =
                                  SumFunctionOnSet(f, T \cap R)}
<1>1. {} \in G
    OBVIOUS
<1>2. ASSUME NEW T \in SUBSET S, NEW a \in S, a \notin T, T \in G
      PROVE  T \cup {a} \in G
  <2>1. IsFiniteSet(T) /\ IsFiniteSet(T \cap R)
      BY FS_Subset
  <2>2. SumFunctionOnSet(f, T \cup {a}) = SumFunctionOnSet(f, T) + f[a]
      BY <1>2, <2>1, SumAdds
  <2>3. /\ SumFunctionOnSet(f, T) \in Int
        /\ SumFunctionOnSet(f, T) = SumFunctionOnSet(f, T \cap R)
      BY <1>2, <2>1, SumIsInt
  <2>4. CASE a \in R
    <3>1. (T \cup {a}) \cap R = (T \cap R) \cup {a}
        BY <2>4
    <3>2. SumFunctionOnSet(f, (T \cap R) \cup {a}) =
              SumFunctionOnSet(f, T \cap R) + f[a]
        BY <1>2, <2>1, SumAdds
    <3> QED
        BY <2>2, <2>3, <3>1, <3>2
  <2>5. CASE a \notin R
    <3>1. (T \cup {a}) \cap R = T \cap R
        BY <2>5
    <3>2. f[a] = 0
        BY <2>5
    <3>3. SumFunctionOnSet(f, T \cup {a}) = SumFunctionOnSet(f, T)
        BY <2>2, <2>3, <3>2
    <3>4. SumFunctionOnSet(f, T \cup {a}) = SumFunctionOnSet(f, (T \cup {a}) \cap R)
        BY <2>3, <3>1, <3>3
    <3> QED
        BY <3>4
  <2> QED
      BY <2>4, <2>5
<1>3. SUBSET S \subseteq G
  <2> HIDE DEF G
  <2> QED BY <1>1, <1>2, SubsetsInduction
<1>4. S \cap R = R
    OBVIOUS
<1> QED
    BY <1>3, <1>4

\* The sum of a list to which a number is appended.
LEMMA SumAppends ==
    ASSUME NEW n \in Nat,
           NEW f, DOMAIN f = 1 .. n, \A i \in 1 .. n : f[i] \in Int,
           NEW g, DOMAIN g = 1 .. n + 1, \A i \in 1 .. n : g[i] = f[i],
           g[n + 1] \in Int
    PROVE  SumFunction(g) = SumFunction(f) + g[n + 1]
<1>1. IsFiniteSet(1 .. n)
    BY FS_Interval
<1>2. 1 .. n + 1 = (1 .. n) \cup {n + 1} /\ n + 1 \notin 1 .. n
    OBVIOUS
<1>3. SumFunctionOnSet(g, (1 .. n) \cup {n + 1}) =
          SumFunctionOnSet(g, 1 .. n) + g[n + 1]
  <2>1. \A i \in (1 .. n) \cup {n + 1} : g[i] \in Int
      OBVIOUS
  <2> QED
      BY <1>1, <1>2, <2>1, SumAdds
<1>4. SumFunctionOnSet(g, 1 .. n) = SumFunctionOnSet(f, 1 .. n)
    BY <1>1, SumsEqual
<1>5. SumFunction(g) = SumFunctionOnSet(g, (1 .. n) \cup {n + 1})
    BY <1>2 DEF SumFunction
<1>6. SumFunction(f) = SumFunctionOnSet(f, 1 .. n)
    BY DEF SumFunction
<1> QED
    BY <1>3, <1>4, <1>5, <1>6
=============================================================================
