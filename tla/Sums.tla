-------------------------------- MODULE Sums --------------------------------
(***************************************************************************)
(* What a sum over a finite set is: the lemmas about SumFunctionOnSet that *)
(* the proofs about money need.  The fold is a function defined            *)
(* recursively over the subsets of a set, and what it returns is proved by *)
(* taking a smallest subset for which it would be wrong.                   *)
(***************************************************************************)
EXTENDS Integers, FiniteSets, Functions, FiniteSetTheorems, WellFoundedInduction, TLAPS

\* Of a nonempty collection of subsets of a finite set one is the smallest of
\* those below it.
LEMMA SmallestSubset ==
  ASSUME NEW S, IsFiniteSet(S), NEW Bad, Bad \subseteq SUBSET S, Bad # {}
  PROVE  \E T \in Bad : \A U \in SUBSET T : U # T => U \notin Bad
<1>1. FiniteSubsetsOf(S) = SUBSET S
  BY FS_FiniteSubsetsOfFinite
<1>2. PICK T \in Bad : \A U \in Bad : ~(<<U, T>> \in StrictSubsetOrdering(S))
  <2> DEFINE R == StrictSubsetOrdering(S)
             F == FiniteSubsetsOf(S)
  <2>1. IsWellFoundedOn(R, F)
    BY FS_StrictSubsetOrderingWellFounded
  <2>2. Bad \subseteq F
    BY <1>1
  <2> HIDE DEF R, F
  <2>3. \E T \in Bad : \A U \in Bad : ~(<<U, T>> \in R)
    BY <2>1, <2>2, WFMin
  <2> QED
    BY <2>3 DEF R
<1>3. ASSUME NEW U \in SUBSET T, U # T, U \in Bad PROVE FALSE
  <2>1. <<U, T>> \in StrictSubsetOrdering(S)
    BY <1>3 DEF StrictSubsetOrdering
  <2> QED
    BY <1>2, <1>3, <2>1
<1> QED
  BY <1>3

----------------------------------------------------------------------------
(* The recursive definition *)

Pick(s) == CHOOSE x \in s : TRUE
\* The body of the fold.
Sums(f, g, S) == [s \in SUBSET S |-> IF s = {} THEN 0 ELSE f[Pick(s)] + g[s \ {Pick(s)}]]
IsSums(f, g, S) == g = Sums(f, g, S)

LEMMA PickIn == \A s : s # {} => Pick(s) \in s
BY DEF Pick

\* Two functions that satisfy the definition agree where both are defined.
LEMMA SumsAgree ==
  ASSUME NEW f, NEW g, NEW h, NEW A, NEW B, NEW C, IsSums(f, g, A), IsSums(f, h, B),
         C \subseteq A, C \subseteq B, IsFiniteSet(C)
  PROVE  g[C] = h[C]
<1> DEFINE Bad == {T \in SUBSET C : g[T] # h[T]}
<1> SUFFICES ASSUME Bad # {} PROVE FALSE
  OBVIOUS
<1>1. PICK T \in Bad : \A U \in SUBSET T : U # T => U \notin Bad
  <2>1. Bad \subseteq SUBSET C
    OBVIOUS
  <2> HIDE DEF Bad
  <2> QED
    BY <2>1, SmallestSubset
<1>2. g[T] = IF T = {} THEN 0 ELSE f[Pick(T)] + g[T \ {Pick(T)}]
  BY DEF IsSums, Sums
<1>3. h[T] = IF T = {} THEN 0 ELSE f[Pick(T)] + h[T \ {Pick(T)}]
  BY DEF IsSums, Sums
<1>4. CASE T = {}
  BY <1>2, <1>3, <1>4
<1>5. CASE T # {}
  <2>1. T \ {Pick(T)} \in SUBSET T /\ T \ {Pick(T)} # T
    BY <1>5, PickIn
  <2>2. g[T \ {Pick(T)}] = h[T \ {Pick(T)}]
    BY <1>1, <2>1
  <2> QED
    BY <1>2, <1>3, <1>5, <2>2
<1> QED
  BY <1>4, <1>5

\* For a finite set there is such a function.
LEMMA SumsExist ==
  ASSUME NEW f, NEW S, IsFiniteSet(S)
  PROVE  \E g : IsSums(f, g, S)
<1> DEFINE Bad == {T \in SUBSET S : ~\E g : IsSums(f, g, T)}
<1> SUFFICES ASSUME Bad # {} PROVE FALSE
  OBVIOUS
<1>1. PICK T \in Bad : \A U \in SUBSET T : U # T => U \notin Bad
  <2>1. Bad \subseteq SUBSET S
    OBVIOUS
  <2> HIDE DEF Bad
  <2> QED
    BY <2>1, SmallestSubset
<1> DEFINE H(s) == CHOOSE g : IsSums(f, g, s)
           at(s) == H(s)[s]
           all == IF T = {} THEN 0 ELSE f[Pick(T)] + at(T \ {Pick(T)})
           G == [s \in SUBSET T |-> IF s = T THEN all ELSE at(s)]
<1>2. ASSUME NEW s \in SUBSET T, s # T PROVE IsSums(f, H(s), s)
  <2>1. \E g : IsSums(f, g, s)
    BY <1>1, <1>2
  <2> QED
    BY <2>1
<1>3. ASSUME NEW s \in SUBSET T, s # T, s # {}
      PROVE  at(s) = f[Pick(s)] + at(s \ {Pick(s)})
  <2> DEFINE u == s \ {Pick(s)}
  <2>1. u \in SUBSET T /\ u # T /\ u \subseteq s
    BY <1>3
  <2>2. IsSums(f, H(s), s) /\ IsSums(f, H(u), u)
    BY <1>2, <1>3, <2>1
  <2>3. IsFiniteSet(u)
    BY <2>1, FS_Subset
  <2> HIDE DEF H, u
  <2>4. H(s)[u] = H(u)[u]
    BY <2>1, <2>2, <2>3, SumsAgree
  <2>5. H(s)[s] = f[Pick(s)] + H(s)[u]
    BY <1>3, <2>2 DEF IsSums, Sums, u
  <2> QED
    BY <2>4, <2>5 DEF u
<1>4. T # {} => {} \in SUBSET T /\ at({}) = 0
  <2> HAVE T # {}
  <2>1. IsSums(f, H({}), {})
    BY <1>2
  <2> HIDE DEF H
  <2> QED
    BY <2>1 DEF IsSums, Sums
<1> HIDE DEF H, at, all
<1>5. ASSUME NEW s \in SUBSET T
      PROVE  G[s] = IF s = {} THEN 0 ELSE f[Pick(s)] + G[s \ {Pick(s)}]
  <2>1. s # {} => s \ {Pick(s)} \in SUBSET T /\ s \ {Pick(s)} # T
    BY PickIn
  <2>2. s # {} => G[s \ {Pick(s)}] = at(s \ {Pick(s)})
    BY <2>1
  <2>3. CASE s = T
    BY <2>2, <2>3 DEF all
  <2>4. CASE s # T
    BY <1>3, <1>4, <2>2, <2>4
  <2> QED
    BY <2>3, <2>4
<1>6. IsSums(f, G, T)
  BY <1>5 DEF IsSums, Sums
<1> QED
  BY <1>1, <1>6

\* The fold satisfies its definition, at every subset.
LEMMA SumDefined ==
  ASSUME NEW f, NEW S, IsFiniteSet(S)
  PROVE  \E g : IsSums(f, g, S) /\ \A T \in SUBSET S : SumFunctionOnSet(f, T) = g[T]
<1>1. ASSUME NEW T \in SUBSET S
      PROVE  \E h : IsSums(f, h, T) /\ SumFunctionOnSet(f, T) = h[T]
  <2> DEFINE h == CHOOSE h : IsSums(f, h, T)
  <2>1. IsFiniteSet(T)
    BY FS_Subset
  <2>2. IsSums(f, h, T)
    BY <2>1, SumsExist
  <2>3. SumFunctionOnSet(f, T) = h[T]
    BY DEF SumFunctionOnSet, FoldFunctionOnSet, MapThenFoldSet, IsSums, Sums, Pick
  <2> QED
    BY <2>2, <2>3
<1>2. PICK g : IsSums(f, g, S)
  BY SumsExist
<1>3. ASSUME NEW T \in SUBSET S PROVE SumFunctionOnSet(f, T) = g[T]
  <2>1. PICK h : IsSums(f, h, T) /\ SumFunctionOnSet(f, T) = h[T]
    BY <1>1
  <2>2. IsFiniteSet(T)
    BY FS_Subset
  <2>3. g[T] = h[T]
    BY <1>2, <2>1, <2>2, SumsAgree
  <2> QED
    BY <2>1, <2>3
<1> QED
  BY <1>2, <1>3

----------------------------------------------------------------------------
(* What a sum is *)

LEMMA SumEmpty == \A f : SumFunctionOnSet(f, {}) = 0
<1> TAKE f
<1>1. IsFiniteSet({})
  BY FS_EmptySet
<1>2. PICK g : IsSums(f, g, {}) /\ \A T \in SUBSET {} : SumFunctionOnSet(f, T) = g[T]
  BY <1>1, SumDefined
<1>3. g[{}] = 0
  BY <1>2 DEF IsSums, Sums
<1> QED
  BY <1>2, <1>3

LEMMA SumPicked ==
  ASSUME NEW f, NEW S, IsFiniteSet(S), S # {}
  PROVE  SumFunctionOnSet(f, S) = f[Pick(S)] + SumFunctionOnSet(f, S \ {Pick(S)})
<1>1. PICK g : IsSums(f, g, S) /\ \A T \in SUBSET S : SumFunctionOnSet(f, T) = g[T]
  BY SumDefined
<1>2. S \in SUBSET S /\ S \ {Pick(S)} \in SUBSET S
  OBVIOUS
<1>3. g[S] = f[Pick(S)] + g[S \ {Pick(S)}]
  BY <1>1, <1>2 DEF IsSums, Sums
<1> QED
  BY <1>1, <1>2, <1>3

LEMMA SumType ==
  ASSUME NEW f, NEW S, IsFiniteSet(S), \A x \in S : f[x] \in Int
  PROVE  SumFunctionOnSet(f, S) \in Int
<1> DEFINE Bad == {T \in SUBSET S : SumFunctionOnSet(f, T) \notin Int}
<1> SUFFICES ASSUME Bad # {} PROVE FALSE
  OBVIOUS
<1>1. PICK T \in Bad : \A U \in SUBSET T : U # T => U \notin Bad
  <2>1. Bad \subseteq SUBSET S
    OBVIOUS
  <2> HIDE DEF Bad
  <2> QED
    BY <2>1, SmallestSubset
<1>2. T # {}
  BY SumEmpty
<1>3. Pick(T) \in T /\ T \ {Pick(T)} # T
  BY <1>2, PickIn
<1>4. SumFunctionOnSet(f, T \ {Pick(T)}) \in Int
  BY <1>1, <1>3
<1>5. IsFiniteSet(T)
  BY FS_Subset
<1>6. SumFunctionOnSet(f, T) = f[Pick(T)] + SumFunctionOnSet(f, T \ {Pick(T)})
  BY <1>2, <1>5, SumPicked
<1> QED
  BY <1>3, <1>4, <1>6

\* Any element may be taken out first.
LEMMA SumRemove ==
  ASSUME NEW f, NEW S, IsFiniteSet(S), \A x \in S : f[x] \in Int, NEW y \in S
  PROVE  SumFunctionOnSet(f, S) = f[y] + SumFunctionOnSet(f, S \ {y})
<1> DEFINE Bad == {T \in SUBSET S : \E x \in T :
                      SumFunctionOnSet(f, T) # f[x] + SumFunctionOnSet(f, T \ {x})}
<1> SUFFICES ASSUME Bad # {} PROVE FALSE
  <2>1. S \notin Bad
    OBVIOUS
  <2> QED
    BY <2>1
<1>1. PICK T \in Bad : \A U \in SUBSET T : U # T => U \notin Bad
  <2>1. Bad \subseteq SUBSET S
    OBVIOUS
  <2> HIDE DEF Bad
  <2> QED
    BY <2>1, SmallestSubset
<1>2. PICK x \in T : SumFunctionOnSet(f, T) # f[x] + SumFunctionOnSet(f, T \ {x})
  OBVIOUS
<1> DEFINE p == Pick(T)
<1>3. p \in T
  BY PickIn
<1> HIDE DEF p
<1>4. IsFiniteSet(T) /\ IsFiniteSet(T \ {x}) /\ IsFiniteSet(T \ {p}) /\ IsFiniteSet((T \ {p}) \ {x})
  BY FS_Subset
<1>5. SumFunctionOnSet(f, T) = f[p] + SumFunctionOnSet(f, T \ {p})
  BY <1>4, SumPicked DEF p
<1>6. x # p
  BY <1>2, <1>5
<1>7. SumFunctionOnSet(f, T \ {p}) = f[x] + SumFunctionOnSet(f, (T \ {p}) \ {x})
  <2>1. T \ {p} \in SUBSET T /\ T \ {p} # T /\ x \in T \ {p} /\ T \ {p} \in SUBSET S
    BY <1>3, <1>6
  <2> QED
    BY <1>1, <2>1
<1>8. SumFunctionOnSet(f, T \ {x}) = f[p] + SumFunctionOnSet(f, (T \ {x}) \ {p})
  <2>1. T \ {x} \in SUBSET T /\ T \ {x} # T /\ p \in T \ {x} /\ T \ {x} \in SUBSET S
    BY <1>3, <1>6
  <2> QED
    BY <1>1, <2>1
<1>9. (T \ {p}) \ {x} = (T \ {x}) \ {p}
  OBVIOUS
<1>10. SumFunctionOnSet(f, (T \ {p}) \ {x}) \in Int
  BY <1>4, SumType
<1>11. f[x] \in Int /\ f[p] \in Int
  BY <1>3
<1>12. f[p] + (f[x] + SumFunctionOnSet(f, (T \ {p}) \ {x}))
          = f[x] + (f[p] + SumFunctionOnSet(f, (T \ {p}) \ {x}))
  BY <1>10, <1>11
<1>13. SumFunctionOnSet(f, T) = f[x] + (f[p] + SumFunctionOnSet(f, (T \ {p}) \ {x}))
  BY <1>5, <1>7, <1>12, Zenon
<1>14. SumFunctionOnSet(f, T \ {x}) = f[p] + SumFunctionOnSet(f, (T \ {p}) \ {x})
  BY <1>8, <1>9, Zenon
<1>15. SumFunctionOnSet(f, T) = f[x] + SumFunctionOnSet(f, T \ {x})
  BY <1>13, <1>14, Zenon
<1> QED
  BY <1>2, <1>15

LEMMA SumAdd ==
  ASSUME NEW f, NEW S, IsFiniteSet(S), NEW y, y \notin S, f[y] \in Int, \A x \in S : f[x] \in Int
  PROVE  SumFunctionOnSet(f, S \cup {y}) = f[y] + SumFunctionOnSet(f, S)
<1>1. IsFiniteSet(S \cup {y}) /\ (S \cup {y}) \ {y} = S
  BY FS_AddElement
<1> QED
  BY <1>1, SumRemove

\* A sum depends on the values over the set alone.
LEMMA SumSame ==
  ASSUME NEW f, NEW g, NEW S, IsFiniteSet(S), \A x \in S : f[x] = g[x]
  PROVE  SumFunctionOnSet(f, S) = SumFunctionOnSet(g, S)
<1> DEFINE Bad == {T \in SUBSET S : SumFunctionOnSet(f, T) # SumFunctionOnSet(g, T)}
<1> SUFFICES ASSUME Bad # {} PROVE FALSE
  OBVIOUS
<1>1. PICK T \in Bad : \A U \in SUBSET T : U # T => U \notin Bad
  <2>1. Bad \subseteq SUBSET S
    OBVIOUS
  <2> HIDE DEF Bad
  <2> QED
    BY <2>1, SmallestSubset
<1>2. T # {}
  BY SumEmpty
<1>3. Pick(T) \in T /\ T \ {Pick(T)} # T
  BY <1>2, PickIn
<1>4. IsFiniteSet(T)
  BY FS_Subset
<1>5. SumFunctionOnSet(f, T \ {Pick(T)}) = SumFunctionOnSet(g, T \ {Pick(T)})
  BY <1>1, <1>3
<1> QED
  BY <1>2, <1>3, <1>4, <1>5, SumPicked

\* Sums of what is nowhere larger, nowhere negative, nowhere but zero.
LEMMA SumNotLarger ==
  ASSUME NEW f, NEW g, NEW S, IsFiniteSet(S),
         \A x \in S : f[x] \in Int /\ g[x] \in Int /\ f[x] <= g[x]
  PROVE  SumFunctionOnSet(f, S) <= SumFunctionOnSet(g, S)
<1> DEFINE Bad == {T \in SUBSET S : ~(SumFunctionOnSet(f, T) <= SumFunctionOnSet(g, T))}
<1> SUFFICES ASSUME Bad # {} PROVE FALSE
  OBVIOUS
<1>1. PICK T \in Bad : \A U \in SUBSET T : U # T => U \notin Bad
  <2>1. Bad \subseteq SUBSET S
    OBVIOUS
  <2> HIDE DEF Bad
  <2> QED
    BY <2>1, SmallestSubset
<1>2. T # {}
  BY SumEmpty
<1> DEFINE p == Pick(T)
<1>3. p \in T /\ T \ {p} # T
  BY <1>2, PickIn
<1>4. IsFiniteSet(T) /\ IsFiniteSet(T \ {p})
  BY FS_Subset
<1>5. SumFunctionOnSet(f, T \ {p}) <= SumFunctionOnSet(g, T \ {p})
  BY <1>1, <1>3
<1>6. /\ SumFunctionOnSet(f, T) = f[p] + SumFunctionOnSet(f, T \ {p})
      /\ SumFunctionOnSet(g, T) = g[p] + SumFunctionOnSet(g, T \ {p})
  BY <1>2, <1>4, SumPicked
<1>7. SumFunctionOnSet(f, T \ {p}) \in Int /\ SumFunctionOnSet(g, T \ {p}) \in Int
  BY <1>4, SumType
<1> HIDE DEF p
<1>8. f[p] \in Int /\ g[p] \in Int /\ f[p] <= g[p]
  BY <1>3
<1>9. SumFunctionOnSet(f, T) <= SumFunctionOnSet(g, T)
  BY <1>5, <1>6, <1>7, <1>8
<1> QED
  BY <1>9

LEMMA SumNatural ==
  ASSUME NEW f, NEW S, IsFiniteSet(S), \A x \in S : f[x] \in Nat
  PROVE  SumFunctionOnSet(f, S) \in Nat
<1> DEFINE Bad == {T \in SUBSET S : SumFunctionOnSet(f, T) \notin Nat}
<1> SUFFICES ASSUME Bad # {} PROVE FALSE
  OBVIOUS
<1>1. PICK T \in Bad : \A U \in SUBSET T : U # T => U \notin Bad
  <2>1. Bad \subseteq SUBSET S
    OBVIOUS
  <2> HIDE DEF Bad
  <2> QED
    BY <2>1, SmallestSubset
<1>2. T # {}
  BY SumEmpty
<1>3. Pick(T) \in T /\ T \ {Pick(T)} # T
  BY <1>2, PickIn
<1>4. SumFunctionOnSet(f, T \ {Pick(T)}) \in Nat
  BY <1>1, <1>3
<1>5. IsFiniteSet(T)
  BY FS_Subset
<1>6. SumFunctionOnSet(f, T) = f[Pick(T)] + SumFunctionOnSet(f, T \ {Pick(T)})
  BY <1>2, <1>5, SumPicked
<1> QED
  BY <1>3, <1>4, <1>6

LEMMA SumZero ==
  ASSUME NEW f, NEW S, IsFiniteSet(S), \A x \in S : f[x] = 0
  PROVE  SumFunctionOnSet(f, S) = 0
<1> DEFINE Bad == {T \in SUBSET S : SumFunctionOnSet(f, T) # 0}
<1> SUFFICES ASSUME Bad # {} PROVE FALSE
  OBVIOUS
<1>1. PICK T \in Bad : \A U \in SUBSET T : U # T => U \notin Bad
  <2>1. Bad \subseteq SUBSET S
    OBVIOUS
  <2> HIDE DEF Bad
  <2> QED
    BY <2>1, SmallestSubset
<1>2. T # {}
  BY SumEmpty
<1>3. Pick(T) \in T /\ T \ {Pick(T)} # T
  BY <1>2, PickIn
<1>4. IsFiniteSet(T)
  BY FS_Subset
<1>5. SumFunctionOnSet(f, T) = f[Pick(T)] + SumFunctionOnSet(f, T \ {Pick(T)})
  BY <1>2, <1>4, SumPicked
<1> QED
  BY <1>1, <1>3, <1>5

\* Two parts.
LEMMA SumUnion ==
  ASSUME NEW f, NEW S, NEW T, IsFiniteSet(S), IsFiniteSet(T), S \cap T = {},
         \A x \in S \cup T : f[x] \in Int
  PROVE  SumFunctionOnSet(f, S \cup T) = SumFunctionOnSet(f, S) + SumFunctionOnSet(f, T)
<1> DEFINE Bad == {U \in SUBSET T :
              SumFunctionOnSet(f, S \cup U) # SumFunctionOnSet(f, S) + SumFunctionOnSet(f, U)}
<1> SUFFICES ASSUME Bad # {} PROVE FALSE
  OBVIOUS
<1>1. PICK U \in Bad : \A V \in SUBSET U : V # U => V \notin Bad
  <2>1. Bad \subseteq SUBSET T
    OBVIOUS
  <2> HIDE DEF Bad
  <2> QED
    BY <2>1, SmallestSubset
<1>2. SumFunctionOnSet(f, S) \in Int
  BY SumType
<1>3. U # {}
  <2>1. S \cup {} = S
    OBVIOUS
  <2> QED
    BY <1>2, <2>1, SumEmpty
<1>4. PICK y \in U : TRUE
  BY <1>3
<1> DEFINE V == U \ {y}
<1>5. V \in SUBSET U /\ V # U /\ V \in SUBSET T /\ (S \cup U) \ {y} = S \cup V
  OBVIOUS
<1>6. IsFiniteSet(U) /\ IsFiniteSet(V) /\ IsFiniteSet(S \cup U)
  BY FS_Subset, FS_Union
<1>7. SumFunctionOnSet(f, S \cup V) = SumFunctionOnSet(f, S) + SumFunctionOnSet(f, V)
  BY <1>1, <1>5
<1>8. SumFunctionOnSet(f, U) = f[y] + SumFunctionOnSet(f, V)
  BY <1>6, SumRemove
<1>9. SumFunctionOnSet(f, S \cup U) = f[y] + SumFunctionOnSet(f, S \cup V)
  BY <1>5, <1>6, SumRemove
<1>10. SumFunctionOnSet(f, V) \in Int /\ f[y] \in Int
  BY <1>6, SumType
<1> QED
  BY <1>2, <1>7, <1>8, <1>9, <1>10

\* Of naturals, a part sums to no more than the whole.
LEMMA SumOfPart ==
  ASSUME NEW f, NEW S, NEW T \in SUBSET S, IsFiniteSet(S), \A x \in S : f[x] \in Nat
  PROVE  SumFunctionOnSet(f, T) <= SumFunctionOnSet(f, S)
<1>1. IsFiniteSet(T) /\ IsFiniteSet(S \ T) /\ T \cup (S \ T) = S /\ T \cap (S \ T) = {}
  BY FS_Subset
<1>2. SumFunctionOnSet(f, S) = SumFunctionOnSet(f, T) + SumFunctionOnSet(f, S \ T)
  <2>1. \A x \in T \cup (S \ T) : f[x] \in Int
    OBVIOUS
  <2> QED
    BY <1>1, <2>1, SumUnion
<1>3. SumFunctionOnSet(f, T) \in Nat /\ SumFunctionOnSet(f, S \ T) \in Nat
  BY <1>1, SumNatural
<1> QED
  BY <1>2, <1>3

\* One value changes.
LEMMA SumUpdate ==
  ASSUME NEW f, NEW g, NEW S, IsFiniteSet(S), NEW y \in S,
         \A x \in S : f[x] \in Int /\ g[x] \in Int, \A x \in S \ {y} : g[x] = f[x]
  PROVE  SumFunctionOnSet(g, S) = SumFunctionOnSet(f, S) - f[y] + g[y]
<1>1. IsFiniteSet(S \ {y})
  BY FS_Subset
<1>2. SumFunctionOnSet(g, S \ {y}) = SumFunctionOnSet(f, S \ {y})
  BY <1>1, SumSame
<1>3. /\ SumFunctionOnSet(f, S) = f[y] + SumFunctionOnSet(f, S \ {y})
      /\ SumFunctionOnSet(g, S) = g[y] + SumFunctionOnSet(g, S \ {y})
  BY SumRemove
<1>4. SumFunctionOnSet(f, S \ {y}) \in Int
  BY <1>1, SumType
<1> QED
  BY <1>2, <1>3, <1>4

LEMMA SumOfOne == ASSUME NEW f, NEW x, f[x] \in Int PROVE SumFunctionOnSet(f, {x}) = f[x]
<1>1. IsFiniteSet({x}) /\ x \in {x} /\ {x} \ {x} = {} /\ \A y \in {x} : f[y] \in Int
  BY FS_Singleton
<1>2. SumFunctionOnSet(f, {x}) = f[x] + SumFunctionOnSet(f, {x} \ {x})
  BY <1>1, SumRemove
<1> QED
  BY <1>1, <1>2, SumEmpty

LEMMA SumOfTwo ==
  ASSUME NEW f, NEW x, NEW y, x # y, f[x] \in Int, f[y] \in Int
  PROVE  SumFunctionOnSet(f, {x, y}) = f[x] + f[y]
<1>1. IsFiniteSet({x, y})
  <2>1. IsFiniteSet({x}) /\ {x, y} = {x} \cup {y}
    BY FS_Singleton
  <2> QED
    BY <2>1, FS_AddElement
<1>2. x \in {x, y} /\ {x, y} \ {x} = {y} /\ \A z \in {x, y} : f[z] \in Int
  OBVIOUS
<1>3. SumFunctionOnSet(f, {x, y}) = f[x] + SumFunctionOnSet(f, {x, y} \ {x})
  BY <1>1, <1>2, SumRemove
<1> QED
  BY <1>2, <1>3, SumOfOne

\* The values outside T do not count when they are 0.
LEMMA SumOnly ==
  ASSUME NEW f, NEW S, NEW T \in SUBSET S, IsFiniteSet(S), \A x \in T : f[x] \in Int,
         \A x \in S \ T : f[x] = 0
  PROVE  SumFunctionOnSet(f, S) = SumFunctionOnSet(f, T)
<1>1. IsFiniteSet(T) /\ IsFiniteSet(S \ T) /\ T \cup (S \ T) = S /\ T \cap (S \ T) = {}
  BY FS_Subset
<1>2. \A x \in T \cup (S \ T) : f[x] \in Int
  OBVIOUS
<1>3. SumFunctionOnSet(f, S) = SumFunctionOnSet(f, T) + SumFunctionOnSet(f, S \ T)
  BY <1>1, <1>2, SumUnion
<1>4. SumFunctionOnSet(f, S \ T) = 0 /\ SumFunctionOnSet(f, T) \in Int
  BY <1>1, SumZero, SumType
<1> QED
  BY <1>3, <1>4

\* h is f plus g.
Adds(f, g, h, S) == \A x \in S : f[x] \in Int /\ g[x] \in Int /\ h[x] = f[x] + g[x]

LEMMA SumPlus ==
  ASSUME NEW f, NEW g, NEW h, NEW S, IsFiniteSet(S), Adds(f, g, h, S)
  PROVE  SumFunctionOnSet(h, S) = SumFunctionOnSet(f, S) + SumFunctionOnSet(g, S)
<1> USE DEF Adds
<1> DEFINE Bad == {T \in SUBSET S : SumFunctionOnSet(h, T)
                                      # SumFunctionOnSet(f, T) + SumFunctionOnSet(g, T)}
<1> SUFFICES ASSUME Bad # {} PROVE FALSE
  OBVIOUS
<1>1. PICK T \in Bad : \A U \in SUBSET T : U # T => U \notin Bad
  <2>1. Bad \subseteq SUBSET S
    OBVIOUS
  <2> HIDE DEF Bad
  <2> QED
    BY <2>1, SmallestSubset
<1>2. T # {}
  <2>1. /\ SumFunctionOnSet(f, {}) = 0 /\ SumFunctionOnSet(g, {}) = 0
        /\ SumFunctionOnSet(h, {}) = 0
    BY SumEmpty
  <2>2. SumFunctionOnSet(h, {}) = SumFunctionOnSet(f, {}) + SumFunctionOnSet(g, {})
    BY <2>1
  <2> QED
    BY <1>1, <2>2
<1>3. PICK y \in T : TRUE
  BY <1>2
<1> DEFINE U == T \ {y}
<1>4. U \in SUBSET T /\ U # T /\ U \in SUBSET S /\ y \in S
  OBVIOUS
<1>5. IsFiniteSet(T) /\ IsFiniteSet(U)
  BY <1>4, FS_Subset
<1>6. SumFunctionOnSet(h, U) = SumFunctionOnSet(f, U) + SumFunctionOnSet(g, U)
  BY <1>1, <1>4
<1>7. /\ \A x \in T : f[x] \in Int /\ g[x] \in Int /\ h[x] \in Int
      /\ h[y] = f[y] + g[y]
  BY <1>4
<1>8. /\ SumFunctionOnSet(f, T) = f[y] + SumFunctionOnSet(f, U)
      /\ SumFunctionOnSet(g, T) = g[y] + SumFunctionOnSet(g, U)
      /\ SumFunctionOnSet(h, T) = h[y] + SumFunctionOnSet(h, U)
  BY <1>5, <1>7, SumRemove
<1>9. SumFunctionOnSet(f, U) \in Int /\ SumFunctionOnSet(g, U) \in Int
  BY <1>5, <1>7, SumType
<1>10. SumFunctionOnSet(h, T) = SumFunctionOnSet(f, T) + SumFunctionOnSet(g, T)
  BY <1>4, <1>6, <1>7, <1>8, <1>9
<1> QED
  BY <1>1, <1>10

LEMMA SumConstant ==
  ASSUME NEW f, NEW S, IsFiniteSet(S), NEW k \in Int, \A x \in S : f[x] = k
  PROVE  SumFunctionOnSet(f, S) = k * Cardinality(S)
<1> DEFINE Bad == {T \in SUBSET S : SumFunctionOnSet(f, T) # k * Cardinality(T)}
<1> SUFFICES ASSUME Bad # {} PROVE FALSE
  OBVIOUS
<1>1. PICK T \in Bad : \A U \in SUBSET T : U # T => U \notin Bad
  <2>1. Bad \subseteq SUBSET S
    OBVIOUS
  <2> HIDE DEF Bad
  <2> QED
    BY <2>1, SmallestSubset
<1>2. T # {}
  <2>1. Cardinality({}) = 0 /\ k * 0 = 0
    BY FS_EmptySet
  <2> QED
    BY <1>1, <2>1, SumEmpty
<1>3. PICK y \in T : TRUE
  BY <1>2
<1> DEFINE U == T \ {y}
<1>4. U \in SUBSET T /\ U # T /\ U \in SUBSET S /\ y \in S
  OBVIOUS
<1>5. IsFiniteSet(T) /\ IsFiniteSet(U) /\ Cardinality(U) \in Nat
      /\ Cardinality(T) = Cardinality(U) + 1
  <2>1. IsFiniteSet(T) /\ IsFiniteSet(U)
    BY <1>4, FS_Subset
  <2>2. Cardinality(U) = Cardinality(T) - 1 /\ Cardinality(T) \in Nat /\ Cardinality(U) \in Nat
    BY <2>1, FS_RemoveElement, FS_CardinalityType
  <2> QED
    BY <2>1, <2>2
<1>6. SumFunctionOnSet(f, U) = k * Cardinality(U)
  BY <1>1, <1>4
<1>7. SumFunctionOnSet(f, T) = k + SumFunctionOnSet(f, U)
  BY <1>4, <1>5, SumRemove
<1>8. \A c \in Nat : k + k * c = k * (c + 1)
  OBVIOUS
<1>9. SumFunctionOnSet(f, T) = k * Cardinality(T)
  BY <1>5, <1>6, <1>7, <1>8
<1> QED
  BY <1>1, <1>9

\* G has the columns of F as rows; R has the sums of the rows of F.
Transposed(F, G, S, T) == \A x \in S, y \in T : F[x][y] \in Int /\ G[y][x] = F[x][y]
RowSums(F, R, S, T) == \A x \in S : R[x] = SumFunctionOnSet(F[x], T)

\* The sum of a table by rows is its sum by columns.
LEMMA SumSwap ==
  ASSUME NEW F, NEW G, NEW R, NEW C, NEW S, NEW T, IsFiniteSet(S), IsFiniteSet(T),
         Transposed(F, G, S, T), RowSums(F, R, S, T), RowSums(G, C, T, S)
  PROVE  SumFunctionOnSet(R, S) = SumFunctionOnSet(C, T)
<1> USE DEF Transposed, RowSums
<1> DEFINE Column(U) == [y \in T |-> SumFunctionOnSet(G[y], U)]
           Bad == {U \in SUBSET S :
                     SumFunctionOnSet(R, U) # SumFunctionOnSet(Column(U), T)}
<1>0. ASSUME Bad # {} PROVE FALSE
  <2>1. PICK U \in Bad : \A V \in SUBSET U : V # U => V \notin Bad
    <3>1. Bad \subseteq SUBSET S
      OBVIOUS
    <3> HIDE DEF Bad
    <3> QED
      BY <1>0, <3>1, SmallestSubset
  <2>2. U # {}
    <3>1. \A y \in T : Column({})[y] = 0
      BY SumEmpty
    <3>2. SumFunctionOnSet(Column({}), T) = 0 /\ SumFunctionOnSet(R, {}) = 0
      <4> HIDE DEF Column
      <4> QED
        BY <3>1, SumEmpty, SumZero
    <3> QED
      BY <2>1, <3>2
  <2>3. PICK s \in U : TRUE
    BY <2>2
  <2> DEFINE V == U \ {s}
  <2>4. V \in SUBSET U /\ V # U /\ V \in SUBSET S /\ U \in SUBSET S /\ s \in S
    OBVIOUS
  <2>5. IsFiniteSet(U) /\ IsFiniteSet(V)
    BY <2>4, FS_Subset
  <2>6. SumFunctionOnSet(R, V) = SumFunctionOnSet(Column(V), T)
    BY <2>1, <2>4
  <2>7. \A x \in U : R[x] \in Int
    <3>1. \A x \in U : R[x] = SumFunctionOnSet(F[x], T) /\ \A y \in T : F[x][y] \in Int
      BY <2>4
    <3> QED
      BY <3>1, SumType
  <2>8. SumFunctionOnSet(R, U) = SumFunctionOnSet(F[s], T) + SumFunctionOnSet(R, V)
    <3>1. R[s] = SumFunctionOnSet(F[s], T)
      BY <2>4
    <3> QED
      BY <2>5, <2>7, <3>1, SumRemove
  <2>9. \A y \in T : /\ F[s][y] \in Int /\ Column(V)[y] \in Int
                     /\ Column(U)[y] = F[s][y] + Column(V)[y]
    <3> SUFFICES ASSUME NEW y \in T
                 PROVE  /\ F[s][y] \in Int /\ Column(V)[y] \in Int
                        /\ Column(U)[y] = F[s][y] + Column(V)[y]
      OBVIOUS
    <3>1. (\A x \in U : G[y][x] \in Int) /\ G[y][s] = F[s][y] /\ F[s][y] \in Int
      BY <2>4
    <3>2. Column(U)[y] = SumFunctionOnSet(G[y], U) /\ Column(V)[y] = SumFunctionOnSet(G[y], V)
      OBVIOUS
    <3>3. SumFunctionOnSet(G[y], U) = G[y][s] + SumFunctionOnSet(G[y], V)
      BY <2>5, <3>1, SumRemove
    <3>4. SumFunctionOnSet(G[y], V) \in Int
      BY <2>5, <3>1, SumType
    <3> QED
      BY <3>1, <3>2, <3>3, <3>4
  <2> HIDE DEF Column, V
  <2>10. SumFunctionOnSet(Column(U), T)
           = SumFunctionOnSet(F[s], T) + SumFunctionOnSet(Column(V), T)
    <3>1. Adds(F[s], Column(V), Column(U), T)
      BY <2>9 DEF Adds
    <3> QED
      BY <3>1, SumPlus
  <2> QED
    BY <2>1, <2>6, <2>8, <2>10
<1>1. SumFunctionOnSet(R, S) = SumFunctionOnSet(Column(S), T)
  BY <1>0
<1>2. \A y \in T : C[y] = Column(S)[y]
  OBVIOUS
<1> HIDE DEF Column
<1>3. SumFunctionOnSet(C, T) = SumFunctionOnSet(Column(S), T)
  BY <1>2, SumSame
<1> QED
  BY <1>1, <1>3

----------------------------------------------------------------------------
(* Finite sets of integers *)

\* A finite set has a greatest element under any measure.
LEMMA GreatestExists ==
  ASSUME NEW S, IsFiniteSet(S), S # {}, NEW f, \A x \in S : f[x] \in Int
  PROVE  \E m \in S : \A x \in S : f[x] <= f[m]
<1> DEFINE Bad == {T \in SUBSET S : T # {} /\ ~\E m \in T : \A x \in T : f[x] <= f[m]}
<1> SUFFICES ASSUME Bad # {} PROVE FALSE
  OBVIOUS
<1>1. PICK T \in Bad : \A U \in SUBSET T : U # T => U \notin Bad
  <2>1. Bad \subseteq SUBSET S
    OBVIOUS
  <2> HIDE DEF Bad
  <2> QED
    BY <2>1, SmallestSubset
<1>2. PICK y \in T : TRUE
  BY <1>1
<1> DEFINE U == T \ {y}
<1>3. U \in SUBSET T /\ U # T /\ U \in SUBSET S /\ y \in S /\ f[y] \in Int
  OBVIOUS
<1>4. CASE U = {}
  <2>1. T = {y}
    BY <1>2, <1>4
  <2>2. \A x \in T : f[x] <= f[y]
    BY <1>3, <2>1
  <2> QED
    BY <1>1, <1>2, <2>2
<1>5. CASE U # {}
  <2>1. PICK m \in U : \A x \in U : f[x] <= f[m]
    BY <1>1, <1>3, <1>5
  <2>2. f[m] \in Int /\ \A x \in T : x = y \/ x \in U
    BY <1>3
  <2>3. CASE f[y] <= f[m]
    BY <1>1, <1>3, <2>1, <2>2, <2>3
  <2>4. CASE ~(f[y] <= f[m])
    <3>1. \A x \in T : f[x] <= f[y]
      <4> SUFFICES ASSUME NEW x \in T PROVE f[x] <= f[y]
        OBVIOUS
      <4>1. f[x] \in Int
        OBVIOUS
      <4> QED
        BY <1>3, <2>1, <2>2, <2>4, <4>1
    <3> QED
      BY <1>1, <1>2, <3>1
  <2> QED
    BY <2>3, <2>4
<1> QED
  BY <1>4, <1>5
=============================================================================
