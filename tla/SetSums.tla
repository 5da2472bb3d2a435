------------------------------ MODULE SetSums ------------------------------
(***************************************************************************)
(* Sums over finite sets, as MapThenSumSet of the community modules        *)
(* defines them: what the proofs about money, quantities and limits need.  *)
(* The library's induction theorems take an operator, which the provers do *)
(* not instantiate; here induction is the choice of a smallest             *)
(* counterexample (SmallestSubset), and what is summed is a function.      *)
(***************************************************************************)
EXTENDS FiniteSetsExt, FiniteSetTheorems, WellFoundedInduction, TLAPS

SumOver(w, S) == MapThenSumSet(LAMBDA x : w[x], S)

\* Among subsets of a finite set there is a smallest one.
LEMMA SmallestSubset ==
  ASSUME NEW S, IsFiniteSet(S), NEW C \in SUBSET SUBSET S, C # {}
  PROVE  \E T \in C : \A U \in C : U \subseteq T => U = T
<1>1. IsWellFoundedOn(StrictSubsetOrdering(S), SUBSET S)
  BY FS_StrictSubsetOrderingWellFounded, FS_FiniteSubsetsOfFinite
<1>2. \E T \in C : \A U \in C : ~ (<<U, T>> \in StrictSubsetOrdering(S))
  BY <1>1, WFMin
<1>3. QED
  BY <1>2 DEF StrictSubsetOrdering

-----------------------------------------------------------------------------
(* The recursive function behind a sum.                                    *)

Chosen(T) == CHOOSE x \in T : TRUE

\* g[T] is the sum of w over T, for every subset T of S.
Sums(g, w, S) ==
  g = [T \in SUBSET S |-> IF T = {} THEN 0 ELSE w[Chosen(T)] + g[T \ {Chosen(T)}]]

\* A set that is not empty has the element that CHOOSE takes.
LEMMA ChosenIn == ASSUME NEW T, T # {} PROVE Chosen(T) \in T
  BY DEF Chosen

\* What the function says of the empty set and of any other.
LEMMA SumsEquation ==
  ASSUME NEW S, NEW w, NEW g, Sums(g, w, S), NEW T \in SUBSET S
  PROVE  g[T] = IF T = {} THEN 0 ELSE w[Chosen(T)] + g[T \ {Chosen(T)}]
  BY DEF Sums

\* Two such functions agree where both are defined.
LEMMA SumsAgree ==
  ASSUME NEW S, IsFiniteSet(S), NEW R \in SUBSET S, NEW w,
         NEW g, Sums(g, w, S), NEW h, Sums(h, w, R)
  PROVE  \A T \in SUBSET R : g[T] = h[T]
<1> DEFINE C == {T \in SUBSET R : g[T] # h[T]}
<1>1. SUFFICES ASSUME C # {} PROVE FALSE
  OBVIOUS
<1>2. PICK T \in C : \A U \in C : U \subseteq T => U = T
  <2>1. C \in SUBSET SUBSET S
    OBVIOUS
  <2> HIDE DEF C
  <2>2. QED
    BY <1>1, <2>1, SmallestSubset
<1>3. T \in SUBSET S /\ T \in SUBSET R /\ g[T] # h[T]
  OBVIOUS
<1>4. /\ g[T] = IF T = {} THEN 0 ELSE w[Chosen(T)] + g[T \ {Chosen(T)}]
      /\ h[T] = IF T = {} THEN 0 ELSE w[Chosen(T)] + h[T \ {Chosen(T)}]
  BY <1>3 DEF Sums
<1>5. T # {}
  BY <1>3, <1>4
<1>6. Chosen(T) \in T
  BY <1>5, ChosenIn
<1>7. g[T \ {Chosen(T)}] = h[T \ {Chosen(T)}]
  BY <1>2, <1>6
<1>8. QED
  BY <1>3, <1>4, <1>5, <1>7

\* The function exists: it is put together from those of smaller sets.
LEMMA SumsExist ==
  ASSUME NEW S, IsFiniteSet(S), NEW w
  PROVE  \E g : Sums(g, w, S)
<1> DEFINE C == {T \in SUBSET S : ~ \E g : Sums(g, w, T)}
<1>1. SUFFICES ASSUME C # {} PROVE FALSE
  OBVIOUS
<1>2. PICK T \in C : \A U \in C : U \subseteq T => U = T
  <2>1. C \in SUBSET SUBSET S
    OBVIOUS
  <2> HIDE DEF C
  <2>2. QED
    BY <1>1, <2>1, SmallestSubset
<1> DEFINE of[U \in SUBSET T] == CHOOSE g : Sums(g, w, U)
           sub(U) == U \ {Chosen(U)}
           g == [U \in SUBSET T |-> IF U = {} THEN 0 ELSE w[Chosen(U)] + of[sub(U)][sub(U)]]
<1>3. \A U \in SUBSET T : U # T => Sums(of[U], w, U)
  <2>1. \A U \in SUBSET T : U # T => \E h : Sums(h, w, U)
    BY <1>2
  <2>2. \A U \in SUBSET T : of[U] = CHOOSE h : Sums(h, w, U)
    OBVIOUS
  <2> HIDE DEF of
  <2>3. QED
    BY <2>1, <2>2
<1> HIDE DEF of
<1>4. \A U \in SUBSET T : U # T => g[U] = of[U][U]
  <2>1. SUFFICES ASSUME NEW U \in SUBSET T, U # T PROVE g[U] = of[U][U]
    OBVIOUS
  <2>2. Sums(of[U], w, U)
    BY <1>3, <2>1
  <2>3. CASE U = {}
    BY <2>2, <2>3, SumsEquation
  <2>4. CASE U # {}
    <3>1. Chosen(U) \in U
      BY <2>4, ChosenIn
    <3>2. of[U][U] = w[Chosen(U)] + of[U][sub(U)]
      BY <2>2, <2>4, SumsEquation
    <3>3. sub(U) \in SUBSET T /\ sub(U) # T /\ sub(U) \in SUBSET U
      BY <3>1
    <3>4. Sums(of[sub(U)], w, sub(U))
      BY <1>3, <3>3
    <3>5. IsFiniteSet(U)
      BY <1>2, FS_Subset
    <3>6. of[U][sub(U)] = of[sub(U)][sub(U)]
      BY <2>2, <3>3, <3>4, <3>5, SumsAgree
    <3>7. QED
      BY <2>4, <3>2, <3>6
  <2>5. QED
    BY <2>3, <2>4
<1>5. Sums(g, w, T)
  <2>1. \A U \in SUBSET T : U # {} => Chosen(U) \in U
    BY ChosenIn
  <2>2. \A U \in SUBSET T : U # {} => sub(U) \in SUBSET T /\ sub(U) # T
    BY <2>1
  <2>3. \A U \in SUBSET T : U # {} => g[sub(U)] = of[sub(U)][sub(U)]
    BY <1>4, <2>2
  <2>4. g = [U \in SUBSET T |-> IF U = {} THEN 0 ELSE w[Chosen(U)] + of[sub(U)][sub(U)]]
    OBVIOUS
  <2> HIDE DEF g
  <2>5. QED
    BY <2>3, <2>4 DEF Sums
<1>6. QED
  BY <1>2, <1>5

-----------------------------------------------------------------------------
(* Sums.                                                                   *)

\* A sum is the value of such a function.
LEMMA SumIs ==
  ASSUME NEW S, IsFiniteSet(S), NEW w, NEW g, Sums(g, w, S), NEW T \in SUBSET S
  PROVE  SumOver(w, T) = g[T]
<1>1. IsFiniteSet(T)
  BY FS_Subset
<1>2. Sums(CHOOSE h : Sums(h, w, T), w, T)
  BY <1>1, SumsExist
<1>3. SumOver(w, T) = (CHOOSE h : Sums(h, w, T))[T]
  BY DEF SumOver, MapThenSumSet, MapThenFoldSet, Sums, Chosen
<1>4. QED
  BY <1>2, <1>3, SumsAgree

\* The sum over nothing.
LEMMA SumEmpty == ASSUME NEW w PROVE SumOver(w, {}) = 0
<1>1. IsFiniteSet({})
  BY FS_EmptySet
<1>2. PICK g : Sums(g, w, {})
  BY <1>1, SumsExist
<1>3. QED
  BY <1>1, <1>2, SumIs, SumsEquation

\* One element first.
LEMMA SumChosen ==
  ASSUME NEW S, IsFiniteSet(S), S # {}, NEW w
  PROVE  SumOver(w, S) = w[Chosen(S)] + SumOver(w, S \ {Chosen(S)})
<1>1. PICK g : Sums(g, w, S)
  BY SumsExist
<1>2. SumOver(w, S) = g[S] /\ SumOver(w, S \ {Chosen(S)}) = g[S \ {Chosen(S)}]
  BY <1>1, SumIs
<1>3. QED
  BY <1>1, <1>2, SumsEquation

\* Integers add up to an integer.
LEMMA SumInt ==
  ASSUME NEW S, IsFiniteSet(S), NEW w, \A x \in S : w[x] \in Int
  PROVE  SumOver(w, S) \in Int
<1> DEFINE C == {T \in SUBSET S : SumOver(w, T) \notin Int}
<1>1. SUFFICES ASSUME C # {} PROVE FALSE
  OBVIOUS
<1>2. PICK T \in C : \A U \in C : U \subseteq T => U = T
  <2>1. C \in SUBSET SUBSET S
    OBVIOUS
  <2> HIDE DEF C
  <2>2. QED
    BY <1>1, <2>1, SmallestSubset
<1>3. /\ T \in SUBSET S /\ SumOver(w, T) \notin Int
      /\ \A U \in SUBSET T : U # T => SumOver(w, U) \in Int
  BY <1>2
<1> HIDE DEF C
<1>4. T # {}
  <2>1. SumOver(w, {}) \in Int
    BY SumEmpty
  <2>2. QED
    BY <1>3, <2>1, Zenon
<1>5. Chosen(T) \in T
  BY <1>4, ChosenIn
<1>6. SumOver(w, T \ {Chosen(T)}) \in Int
  BY <1>3, <1>5
<1>7. SumOver(w, T) = w[Chosen(T)] + SumOver(w, T \ {Chosen(T)})
  BY <1>3, <1>4, FS_Subset, SumChosen
<1>8. QED
  BY <1>3, <1>5, <1>6, <1>7

\* The order does not matter: any element may come first.
LEMMA SumRemove ==
  ASSUME NEW S, IsFiniteSet(S), NEW w, \A x \in S : w[x] \in Int, NEW x \in S
  PROVE  SumOver(w, S) = w[x] + SumOver(w, S \ {x})
<1> DEFINE C == {T \in SUBSET S : \E z \in T : SumOver(w, T) # w[z] + SumOver(w, T \ {z})}
<1>1. SUFFICES ASSUME C # {} PROVE FALSE
  OBVIOUS
<1>2. PICK T \in C : \A U \in C : U \subseteq T => U = T
  <2>1. C \in SUBSET SUBSET S
    OBVIOUS
  <2> HIDE DEF C
  <2>2. QED
    BY <1>1, <2>1, SmallestSubset
<1>3. PICK z \in T : SumOver(w, T) # w[z] + SumOver(w, T \ {z})
  BY <1>2
<1> DEFINE c == Chosen(T)
<1>4. /\ T \in SUBSET S
      /\ \A U \in SUBSET T : U # T => \A y \in U : SumOver(w, U) = w[y] + SumOver(w, U \ {y})
  BY <1>2
<1> HIDE DEF C
<1>5. c \in T
  BY <1>3, ChosenIn
<1>6. SumOver(w, T) = w[c] + SumOver(w, T \ {c})
  BY <1>3, <1>4, FS_Subset, SumChosen
<1>7. z # c
  BY <1>3, <1>6
<1> HIDE DEF c
<1> DEFINE rest == (T \ {c}) \ {z}
<1>8. SumOver(w, T \ {c}) = w[z] + SumOver(w, rest)
  BY <1>3, <1>4, <1>5, <1>7
<1>9. SumOver(w, T \ {z}) = w[c] + SumOver(w, rest)
  <2>1. (T \ {z}) \ {c} = rest
    OBVIOUS
  <2>2. QED
    BY <1>3, <1>4, <1>5, <1>7, <2>1
<1>10. SumOver(w, rest) \in Int /\ w[c] \in Int /\ w[z] \in Int
  <2>1. rest \subseteq S
    BY <1>4
  <2>2. IsFiniteSet(rest)
    BY <2>1, FS_Subset
  <2> HIDE DEF rest
  <2>3. QED
    BY <1>3, <1>4, <1>5, <2>1, <2>2, SumInt
<1> HIDE DEF rest
<1>11. QED
  BY <1>3, <1>6, <1>8, <1>9, <1>10

\* Sums of functions that agree are equal.
LEMMA SumSame ==
  ASSUME NEW S, IsFiniteSet(S), NEW v, NEW w, \A x \in S : v[x] = w[x]
  PROVE  SumOver(v, S) = SumOver(w, S)
<1>1. PICK g : Sums(g, v, S)
  BY SumsExist
<1>2. \A T \in SUBSET S : T # {} => v[Chosen(T)] = w[Chosen(T)]
  BY ChosenIn
<1>3. Sums(g, w, S)
  BY <1>1, <1>2 DEF Sums
<1>4. QED
  BY <1>1, <1>3, SumIs

\* An element more.
LEMMA SumAdd ==
  ASSUME NEW S, IsFiniteSet(S), NEW w, \A y \in S : w[y] \in Int, NEW x, x \notin S, w[x] \in Int
  PROVE  SumOver(w, S \cup {x}) = w[x] + SumOver(w, S)
<1> DEFINE R == S \cup {x}
<1>1. IsFiniteSet(R) /\ R \ {x} = S /\ x \in R /\ \A y \in R : w[y] \in Int
  BY FS_AddElement
<1>2. SumOver(w, R) = w[x] + SumOver(w, R \ {x})
  <2> HIDE DEF R
  <2>1. QED
    BY <1>1, SumRemove
<1>3. QED
  BY <1>1, <1>2

\* One summand changes.
LEMMA SumChange ==
  ASSUME NEW S, IsFiniteSet(S), NEW v, NEW w, NEW x \in S,
         \A y \in S : v[y] \in Int /\ w[y] \in Int,
         \A y \in S : y # x => v[y] = w[y]
  PROVE  SumOver(w, S) = SumOver(v, S) + w[x] - v[x]
<1>1. IsFiniteSet(S \ {x})
  BY FS_Subset
<1>2. SumOver(v, S \ {x}) = SumOver(w, S \ {x})
  BY <1>1, SumSame
<1>3. SumOver(v, S) = v[x] + SumOver(v, S \ {x})
  BY SumRemove
<1>4. SumOver(w, S) = w[x] + SumOver(w, S \ {x})
  BY SumRemove
<1>5. SumOver(v, S \ {x}) \in Int
  BY <1>1, SumInt
<1>6. QED
  BY <1>2, <1>3, <1>4, <1>5

\* A summand that exceeds another by at most k each: the sums differ by at
\* most k for each.
LEMMA SumSlack ==
  ASSUME NEW S, IsFiniteSet(S), NEW v, NEW w, NEW k \in Int,
         \A x \in S : v[x] \in Int /\ w[x] \in Int /\ v[x] <= w[x] + k
  PROVE  SumOver(v, S) <= SumOver(w, S) + k * Cardinality(S)
<1> DEFINE Holds(T) == SumOver(v, T) <= SumOver(w, T) + k * Cardinality(T)
           C == {T \in SUBSET S : ~ Holds(T)}
<1>1. SUFFICES ASSUME C # {} PROVE FALSE
  OBVIOUS
<1>2. PICK T \in C : \A U \in C : U \subseteq T => U = T
  <2>1. C \in SUBSET SUBSET S
    OBVIOUS
  <2> HIDE DEF C
  <2>2. QED
    BY <1>1, <2>1, SmallestSubset
<1>3. T \in SUBSET S /\ ~ Holds(T) /\ \A U \in SUBSET T : U # T => Holds(U)
  BY <1>2
<1> HIDE DEF C
<1>4. T # {}
  <2>1. Holds({})
    BY SumEmpty, FS_EmptySet
  <2> HIDE DEF Holds
  <2>2. QED
    BY <1>3, <2>1, Zenon
<1>5. PICK x \in T : TRUE
  BY <1>4
<1>6. Holds(T \ {x})
  BY <1>3
<1>7. IsFiniteSet(T) /\ IsFiniteSet(T \ {x})
  BY <1>3, FS_Subset
<1>8. /\ SumOver(v, T) = v[x] + SumOver(v, T \ {x})
      /\ SumOver(w, T) = w[x] + SumOver(w, T \ {x})
      /\ SumOver(v, T \ {x}) \in Int /\ SumOver(w, T \ {x}) \in Int
  BY <1>3, <1>7, SumRemove, SumInt
<1>9. Cardinality(T) = Cardinality(T \ {x}) + 1 /\ Cardinality(T \ {x}) \in Nat
  <2>1. Cardinality(T \ {x}) = Cardinality(T) - 1 /\ Cardinality(T) \in Nat
    BY <1>5, <1>7, FS_RemoveElement, FS_CardinalityType
  <2>2. Cardinality(T \ {x}) \in Nat
    BY <1>7, FS_CardinalityType
  <2>3. QED
    BY <2>1, <2>2
<1>10. \A c \in Nat : k * (c + 1) = k * c + k
  OBVIOUS
<1>11. QED
  BY <1>3, <1>6, <1>8, <1>9, <1>10

\* Larger summands have a larger sum.
LEMMA SumMonotone ==
  ASSUME NEW S, IsFiniteSet(S), NEW v, NEW w,
         \A x \in S : v[x] \in Int /\ w[x] \in Int /\ v[x] <= w[x]
  PROVE  SumOver(v, S) <= SumOver(w, S)
<1> DEFINE k == 0
<1>1. k \in Int /\ \A x \in S : v[x] \in Int /\ w[x] \in Int /\ v[x] <= w[x] + k
  OBVIOUS
<1> HIDE DEF k
<1>2. SumOver(v, S) <= SumOver(w, S) + k * Cardinality(S)
  BY <1>1, SumSlack
<1>3. k * Cardinality(S) = 0 /\ SumOver(w, S) \in Int /\ SumOver(v, S) \in Int
  BY FS_CardinalityType, SumInt DEF k
<1>4. QED
  BY <1>2, <1>3

\* Zeros add up to zero.
LEMMA SumZero ==
  ASSUME NEW S, IsFiniteSet(S), NEW w, \A x \in S : w[x] = 0
  PROVE  SumOver(w, S) = 0
<1> DEFINE C == {T \in SUBSET S : SumOver(w, T) # 0}
<1>1. SUFFICES ASSUME C # {} PROVE FALSE
  OBVIOUS
<1>2. PICK T \in C : \A U \in C : U \subseteq T => U = T
  <2>1. C \in SUBSET SUBSET S
    OBVIOUS
  <2> HIDE DEF C
  <2>2. QED
    BY <1>1, <2>1, SmallestSubset
<1>3. /\ T \in SUBSET S /\ SumOver(w, T) # 0
      /\ \A U \in SUBSET T : U # T => SumOver(w, U) = 0
  BY <1>2
<1> HIDE DEF C
<1>4. T # {}
  BY <1>3, SumEmpty, Zenon
<1>5. Chosen(T) \in T /\ w[Chosen(T)] = 0
  BY <1>3, <1>4, ChosenIn
<1>6. SumOver(w, T) = w[Chosen(T)] + SumOver(w, T \ {Chosen(T)})
  BY <1>3, <1>4, FS_Subset, SumChosen
<1>7. SumOver(w, T \ {Chosen(T)}) = 0
  BY <1>3, <1>5
<1>8. QED
  BY <1>3, <1>5, <1>6, <1>7

\* Naturals add up to a natural.
LEMMA SumNat ==
  ASSUME NEW S, IsFiniteSet(S), NEW w, \A x \in S : w[x] \in Nat
  PROVE  SumOver(w, S) \in Nat
<1> DEFINE zero == [x \in S |-> 0]
<1>1. /\ \A x \in S : zero[x] = 0
      /\ \A x \in S : zero[x] \in Int /\ w[x] \in Int /\ zero[x] <= w[x]
  OBVIOUS
<1> HIDE DEF zero
<1>2. SumOver(zero, S) <= SumOver(w, S) /\ SumOver(w, S) \in Int /\ SumOver(zero, S) = 0
  BY <1>1, SumMonotone, SumInt, SumZero
<1>3. QED
  BY <1>2

\* A part of naturals adds up to no more than all of them.
LEMMA SumSubset ==
  ASSUME NEW S, IsFiniteSet(S), NEW w, \A x \in S : w[x] \in Nat, NEW T \in SUBSET S
  PROVE  SumOver(w, T) <= SumOver(w, S)
<1> DEFINE Holds(R) == SumOver(w, R \cap T) <= SumOver(w, R)
           C == {R \in SUBSET S : ~ Holds(R)}
<1>1. C = {}
  <2>1. SUFFICES ASSUME C # {} PROVE FALSE
    OBVIOUS
  <2>2. PICK R \in C : \A U \in C : U \subseteq R => U = R
    <3>1. C \in SUBSET SUBSET S
      OBVIOUS
    <3> HIDE DEF C
    <3>2. QED
      BY <2>1, <3>1, SmallestSubset
  <2>3. R \in SUBSET S /\ ~ Holds(R) /\ \A U \in SUBSET R : U # R => Holds(U)
    BY <2>2
  <2> HIDE DEF C
  <2>4. R # {}
    <3>1. Holds({})
      <4>1. {} \cap T = {}
        OBVIOUS
      <4>2. QED
        BY <4>1, SumEmpty
    <3> HIDE DEF Holds
    <3>2. QED
      BY <2>3, <3>1, Zenon
  <2>5. PICK x \in R : TRUE
    BY <2>4
  <2>6. Holds(R \ {x})
    BY <2>3
  <2>7. /\ IsFiniteSet(R) /\ IsFiniteSet(R \ {x}) /\ IsFiniteSet(R \cap T) /\ IsFiniteSet((R \ {x}) \cap T)
    BY <2>3, FS_Subset
  <2>8. SumOver(w, R) = w[x] + SumOver(w, R \ {x})
    BY <2>3, <2>7, SumRemove
  <2>9. SumOver(w, R \ {x}) \in Int /\ SumOver(w, (R \ {x}) \cap T) \in Int /\ w[x] \in Nat
    BY <2>3, <2>7, SumInt
  <2>10. CASE x \in T
    <3>1. x \in R \cap T /\ (R \cap T) \ {x} = (R \ {x}) \cap T
      BY <2>10
    <3>2. \A y \in R \cap T : w[y] \in Int
      BY <2>3
    <3>3. SumOver(w, R \cap T) = w[x] + SumOver(w, (R \cap T) \ {x})
      BY <2>7, <3>1, <3>2, SumRemove
    <3>4. SumOver(w, R \cap T) = w[x] + SumOver(w, (R \ {x}) \cap T)
      BY <3>1, <3>3
    <3>5. QED
      BY <2>3, <2>6, <2>8, <2>9, <3>4
  <2>11. CASE x \notin T
    <3>1. R \cap T = (R \ {x}) \cap T
      BY <2>11
    <3>2. SumOver(w, R \cap T) = SumOver(w, (R \ {x}) \cap T)
      BY <3>1
    <3>3. QED
      BY <2>3, <2>6, <2>8, <2>9, <3>2
  <2>12. QED
    BY <2>10, <2>11
<1>2. Holds(S) /\ S \cap T = T
  BY <1>1
<1>3. QED
  BY <1>2

\* What is zero does not count.
LEMMA SumWithin ==
  ASSUME NEW S, IsFiniteSet(S), NEW w, \A x \in S : w[x] \in Int,
         NEW T \in SUBSET S, \A x \in S \ T : w[x] = 0
  PROVE  SumOver(w, S) = SumOver(w, T)
<1> DEFINE Holds(R) == SumOver(w, R) = SumOver(w, R \cap T)
           C == {R \in SUBSET S : ~ Holds(R)}
<1>1. C = {}
  <2>1. SUFFICES ASSUME C # {} PROVE FALSE
    OBVIOUS
  <2>2. PICK R \in C : \A U \in C : U \subseteq R => U = R
    <3>1. C \in SUBSET SUBSET S
      OBVIOUS
    <3> HIDE DEF C
    <3>2. QED
      BY <2>1, <3>1, SmallestSubset
  <2>3. R \in SUBSET S /\ ~ Holds(R) /\ \A U \in SUBSET R : U # R => Holds(U)
    BY <2>2
  <2> HIDE DEF C
  <2>4. R # {}
    <3>1. Holds({})
      <4>1. {} \cap T = {}
        OBVIOUS
      <4>2. QED
        BY <4>1
    <3> HIDE DEF Holds
    <3>2. QED
      BY <2>3, <3>1, Zenon
  <2>5. PICK x \in R : TRUE
    BY <2>4
  <2>6. Holds(R \ {x})
    BY <2>3
  <2>7. /\ IsFiniteSet(R) /\ IsFiniteSet(R \ {x}) /\ IsFiniteSet(R \cap T) /\ IsFiniteSet((R \ {x}) \cap T)
        /\ \A y \in R : w[y] \in Int
    BY <2>3, FS_Subset
  <2>8. SumOver(w, R) = w[x] + SumOver(w, R \ {x})
    BY <2>7, SumRemove
  <2>9. CASE x \in T
    <3>1. SumOver(w, R \cap T) = w[x] + SumOver(w, (R \cap T) \ {x})
      BY <2>7, <2>9, SumRemove
    <3>2. (R \cap T) \ {x} = (R \ {x}) \cap T
      OBVIOUS
    <3>3. QED
      BY <2>3, <2>6, <2>8, <3>1, <3>2
  <2>10. CASE x \notin T
    <3>1. R \cap T = (R \ {x}) \cap T
      BY <2>10
    <3>2. w[x] = 0 /\ SumOver(w, R \ {x}) \in Int
      BY <2>3, <2>7, <2>10, SumInt
    <3>3. QED
      BY <2>3, <2>6, <2>8, <3>1, <3>2
  <2>11. QED
    BY <2>9, <2>10
<1>2. Holds(S)
  BY <1>1
<1>3. S \cap T = T
  OBVIOUS
<1>4. QED
  BY <1>2, <1>3

\* The sum of two functions.
LEMMA SumPlus ==
  ASSUME NEW S, IsFiniteSet(S), NEW u, NEW v, NEW w,
         \A x \in S : u[x] \in Int /\ v[x] \in Int /\ w[x] = u[x] + v[x]
  PROVE  SumOver(w, S) = SumOver(u, S) + SumOver(v, S)
<1> DEFINE Holds(T) == SumOver(w, T) = SumOver(u, T) + SumOver(v, T)
           C == {T \in SUBSET S : ~ Holds(T)}
<1>1. SUFFICES ASSUME C # {} PROVE FALSE
  OBVIOUS
<1>2. PICK T \in C : \A U \in C : U \subseteq T => U = T
  <2>1. C \in SUBSET SUBSET S
    OBVIOUS
  <2> HIDE DEF C
  <2>2. QED
    BY <1>1, <2>1, SmallestSubset
<1>3. T \in SUBSET S /\ ~ Holds(T) /\ \A U \in SUBSET T : U # T => Holds(U)
  BY <1>2
<1> HIDE DEF C
<1>4. T # {}
  <2>1. Holds({})
    BY SumEmpty
  <2> HIDE DEF Holds
  <2>2. QED
    BY <1>3, <2>1, Zenon
<1>5. PICK x \in T : TRUE
  BY <1>4
<1>6. Holds(T \ {x})
  BY <1>3
<1>7. /\ IsFiniteSet(T) /\ IsFiniteSet(T \ {x})
      /\ \A y \in T : u[y] \in Int /\ v[y] \in Int /\ w[y] \in Int
  BY <1>3, FS_Subset
<1>8. /\ SumOver(u, T) = u[x] + SumOver(u, T \ {x})
      /\ SumOver(v, T) = v[x] + SumOver(v, T \ {x})
      /\ SumOver(w, T) = w[x] + SumOver(w, T \ {x})
  BY <1>7, SumRemove
<1>9. SumOver(u, T \ {x}) \in Int /\ SumOver(v, T \ {x}) \in Int /\ w[x] = u[x] + v[x]
  BY <1>3, <1>7, SumInt
<1>10. QED
  BY <1>3, <1>6, <1>7, <1>8, <1>9

\* What each member of P has of S, f telling whose an element is.
Shares(w, S, f, P) == [p \in P |-> SumOver(w, {x \in S : f[x] = p})]

\* The sum over S is the sum of the shares.
LEMMA SumOfShares ==
  ASSUME NEW S, IsFiniteSet(S), NEW P, IsFiniteSet(P), NEW w, \A x \in S : w[x] \in Int,
         NEW f, \A x \in S : f[x] \in P
  PROVE  SumOver(w, S) = SumOver(Shares(w, S, f, P), P)
<1> DEFINE Holds(R) == SumOver(w, R) = SumOver(Shares(w, R, f, P), P)
           C == {R \in SUBSET S : ~ Holds(R)}
<1>1. C = {}
  <2>1. SUFFICES ASSUME C # {} PROVE FALSE
    OBVIOUS
  <2>2. PICK R \in C : \A U \in C : U \subseteq R => U = R
    <3>1. C \in SUBSET SUBSET S
      OBVIOUS
    <3> HIDE DEF C
    <3>2. QED
      BY <2>1, <3>1, SmallestSubset
  <2>3. R \in SUBSET S /\ ~ Holds(R) /\ \A U \in SUBSET R : U # R => Holds(U)
    BY <2>2
  <2> HIDE DEF C
  <2>4. R # {}
    <3>1. \A p \in P : {x \in {} : f[x] = p} = {}
      OBVIOUS
    <3>2. \A p \in P : Shares(w, {}, f, P)[p] = 0
      BY <3>1, SumEmpty DEF Shares
    <3>3. SumOver(Shares(w, {}, f, P), P) = 0
      BY <3>2, SumZero
    <3>4. Holds({})
      BY <3>3, SumEmpty
    <3> HIDE DEF Holds
    <3>5. QED
      BY <2>3, <3>4, Zenon
  <2>5. PICK x \in R : TRUE
    BY <2>4
  <2> DEFINE less == Shares(w, R \ {x}, f, P)
             all == Shares(w, R, f, P)
             Part(U, p) == {y \in U : f[y] = p}
  <2>6. SumOver(w, R \ {x}) = SumOver(less, P)
    BY <2>3
  <2>7. /\ IsFiniteSet(R) /\ IsFiniteSet(R \ {x}) /\ \A y \in R : w[y] \in Int
        /\ f[x] \in P /\ w[x] \in Int
    BY <2>3, FS_Subset
  <2>8. \A p \in P : IsFiniteSet(Part(R, p)) /\ IsFiniteSet(Part(R \ {x}, p))
    BY <2>7, FS_Subset
  <2>9. \A p \in P : less[p] = SumOver(w, Part(R \ {x}, p)) /\ all[p] = SumOver(w, Part(R, p))
    BY DEF Shares
  <2>10. \A p \in P : less[p] \in Int /\ all[p] \in Int
    <3>1. \A p \in P : SumOver(w, Part(R \ {x}, p)) \in Int
      BY <2>7, <2>8, SumInt
    <3>2. \A p \in P : SumOver(w, Part(R, p)) \in Int
      BY <2>7, <2>8, SumInt
    <3>3. QED
      BY <2>9, <3>1, <3>2
  <2>11. \A p \in P : p # f[x] => less[p] = all[p]
    <3>1. \A p \in P : p # f[x] => Part(R \ {x}, p) = Part(R, p)
      OBVIOUS
    <3>2. QED
      BY <2>9, <3>1
  <2>12. all[f[x]] = w[x] + less[f[x]]
    <3>1. x \in Part(R, f[x]) /\ Part(R, f[x]) \ {x} = Part(R \ {x}, f[x])
      OBVIOUS
    <3>2. SumOver(w, Part(R, f[x])) = w[x] + SumOver(w, Part(R, f[x]) \ {x})
      BY <2>7, <2>8, <3>1, SumRemove
    <3>3. QED
      BY <2>7, <2>9, <3>1, <3>2
  <2> HIDE DEF less, all, Part
  <2>13. SumOver(all, P) = SumOver(less, P) + all[f[x]] - less[f[x]]
    <3>1. PICK c \in P : c = f[x]
      BY <2>7
    <3>2. SumOver(all, P) = SumOver(less, P) + all[c] - less[c]
      BY <2>10, <2>11, <3>1, SumChange
    <3>3. QED
      BY <3>1, <3>2
  <2>14. SumOver(w, R) = w[x] + SumOver(w, R \ {x})
    BY <2>7, SumRemove
  <2>15. SumOver(less, P) \in Int /\ less[f[x]] \in Int
    BY <2>7, <2>10, SumInt
  <2>16. SumOver(w, R) = SumOver(all, P)
    BY <2>6, <2>7, <2>12, <2>13, <2>14, <2>15
  <2>17. QED
    BY <2>3, <2>16 DEF all
<1>2. QED
  BY <1>1

\* One element more, where there was nothing.
LEMMA SumOneMore ==
  ASSUME NEW S, IsFiniteSet(S), NEW v, NEW w, NEW x \in S,
         \A y \in S : v[y] \in Int, w[x] \in Int, v[x] \in {0},
         \A y \in S : y # x => v[y] = w[y]
  PROVE  SumOver(w, S) = SumOver(v, S) + w[x] /\ SumOver(v, S) \in Int
<1>1. \A y \in S : v[y] \in Int /\ w[y] \in Int
  <2>1. ASSUME NEW y \in S PROVE v[y] \in Int /\ w[y] \in Int
    <3>1. CASE y = x
      BY <3>1
    <3>2. CASE y # x
      BY <3>2
    <3>3. QED
      BY <3>1, <3>2
  <2>2. QED
    BY <2>1
<1>2. SumOver(w, S) = SumOver(v, S) + w[x] - v[x]
  BY <1>1, SumChange
<1>3. SumOver(v, S) \in Int
  BY SumInt
<1>4. QED
  BY <1>2, <1>3
=============================================================================
