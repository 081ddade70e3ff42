---------------------------- MODULE Table_proofs ----------------------------
(***************************************************************************)
(* A table, for any seats, stacks, blinds, antes, rake and number of       *)
(* hands: the settlement of a hand pays out what was put in, the chips of  *)
(* the table are accounted for over its hands, the wishes of the players   *)
(* decide who is dealt in and who is gone, and a hand can always go on.    *)
(***************************************************************************)
EXTENDS Table, Payouts, Sums, TLAPS

----------------------------------------------------------------------------
(* What players put in: contributions that are naturals, one for each of a finite set *)

PutIn(c, S) == IsFiniteSet(S) /\ c \in [S -> Nat]

SeatSet(S) == IsFiniteSet(S) /\ S \subseteq 0..8
BasisPoints == 10000
RakeRules == [bps : 0..BasisPoints, cap : Nat]

LEMMA LevelsFinite ==
  ASSUME NEW S, NEW c, PutIn(c, S)
  PROVE  IsFiniteSet(Levels(c)) /\ Levels(c) \subseteq Nat \ {0}
<1> DEFINE T == {c[p] : p \in S}
<1>1. IsFiniteSet(T)
  <2>1. c \in Surjection(S, T)
    BY DEF PutIn, Surjection
  <2> HIDE DEF T
  <2> QED
    BY <2>1, FS_Surjection DEF PutIn
<1>2. Levels(c) \subseteq T /\ Levels(c) \subseteq Nat \ {0}
  BY DEF Levels, PutIn
<1> QED
  BY <1>1, <1>2, FS_Subset

LEMMA MaxIn ==
  ASSUME NEW S, IsFiniteSet(S), S # {}, S \subseteq Int
  PROVE  Max(S) \in S /\ \A x \in S : x <= Max(S)
<1> DEFINE f == [x \in S |-> x]
<1>1. \A x \in S : f[x] \in Int /\ f[x] = x
  OBVIOUS
<1> HIDE DEF f
<1>2. PICK m \in S : \A x \in S : f[x] <= f[m]
  BY <1>1, GreatestExists
<1>3. \E m1 \in S : \A x \in S : m1 >= x
  BY <1>1, <1>2
<1>4. Max(S) \in S /\ \A x \in S : Max(S) >= x
  BY <1>3 DEF Max
<1> QED
  BY <1>4

LEMMA MinOfTwo ==
  ASSUME NEW a \in Int, NEW b \in Int
  PROVE  Min({a, b}) = IF a <= b THEN a ELSE b
<1> DEFINE m == IF a <= b THEN a ELSE b
<1>1. m \in {a, b} /\ \A y \in {a, b} : m <= y
  OBVIOUS
<1>2. \A x \in {a, b} : (\A y \in {a, b} : x =< y) => x = m
  OBVIOUS
<1> HIDE DEF m
<1> QED
  BY <1>1, <1>2 DEF Min, m

LEMMA MaxWithZero ==
  ASSUME NEW a \in Int
  PROVE  Max({0, a}) = IF a <= 0 THEN 0 ELSE a
<1> DEFINE m == IF a <= 0 THEN 0 ELSE a
<1>1. m \in {0, a} /\ \A y \in {0, a} : m >= y
  OBVIOUS
<1>2. \A x \in {0, a} : (\A y \in {0, a} : x >= y) => x = m
  OBVIOUS
<1> HIDE DEF m
<1> QED
  BY <1>1, <1>2 DEF Max, m

LEMMA LevelBelowIs ==
  ASSUME NEW S, NEW c, PutIn(c, S), NEW l \in Levels(c)
  PROVE  /\ LevelBelow(c, l) \in Levels(c) \cup {0}
         /\ LevelBelow(c, l) < l /\ LevelBelow(c, l) \in Nat
         /\ \A m \in Levels(c) : m < l => m <= LevelBelow(c, l)
         /\ Step(c, l) \in Nat
<1> DEFINE below == {m \in Levels(c) : m < l} \cup {0}
<1>1. Levels(c) \subseteq Nat \ {0} /\ IsFiniteSet(below)
  <2>1. IsFiniteSet(Levels(c)) /\ Levels(c) \subseteq Nat \ {0}
    BY LevelsFinite
  <2>2. IsFiniteSet({m \in Levels(c) : m < l})
    BY <2>1, FS_Subset
  <2> QED
    BY <2>1, <2>2, FS_AddElement
<1>2. below # {} /\ below \subseteq Int /\ (\A x \in below : x < l /\ x \in Nat)
  BY <1>1
<1>3. Max(below) \in below /\ \A x \in below : x <= Max(below)
  <2> HIDE DEF below
  <2> QED
    BY <1>1, <1>2, MaxIn
<1>4. LevelBelow(c, l) = Max(below)
  BY DEF LevelBelow
<1>5. /\ Max(below) \in Levels(c) \cup {0} /\ Max(below) < l /\ Max(below) \in Nat
      /\ \A m \in Levels(c) : m < l => m <= Max(below)
  BY <1>2, <1>3
<1> QED
  BY <1>1, <1>4, <1>5 DEF Step

Steps(c) == [l \in Levels(c) |-> Step(c, l)]
UpTo(c, m) == {l \in Levels(c) : l <= m}

\* The steps up to a level add up to the level.
LEMMA StepsAddUp ==
  ASSUME NEW S, NEW c, PutIn(c, S), NEW m \in Levels(c) \cup {0}
  PROVE  SumFunctionOnSet(Steps(c), UpTo(c, m)) = m
<1>0. IsFiniteSet(Levels(c)) /\ Levels(c) \subseteq Nat \ {0}
  BY LevelsFinite
<1>1. UpTo(c, 0) = {}
  BY <1>0 DEF UpTo
<1>2. SumFunctionOnSet(Steps(c), UpTo(c, 0)) = 0
  BY <1>1, SumEmpty
<1> DEFINE Bad == {l \in Levels(c) : SumFunctionOnSet(Steps(c), UpTo(c, l)) # l}
<1> SUFFICES ASSUME Bad # {} PROVE FALSE
  BY <1>2
<1>3. PICK l \in Bad : \A k \in Bad : l <= k
  <2> DEFINE f == [k \in Bad |-> -k]
  <2>1. IsFiniteSet(Bad) /\ \A k \in Bad : f[k] \in Int /\ f[k] = -k /\ k \in Int
    BY <1>0, FS_Subset
  <2> HIDE DEF f, Bad
  <2>2. PICK l \in Bad : \A k \in Bad : f[k] <= f[l]
    BY <2>1, GreatestExists
  <2>3. \A k \in Bad : l <= k
    BY <2>1, <2>2
  <2> QED
    BY <2>3
<1> DEFINE b == LevelBelow(c, l)
<1>4. /\ l \in Levels(c) /\ b \in Levels(c) \cup {0} /\ b < l /\ b \in Nat
      /\ \A m1 \in Levels(c) : m1 < l => m1 <= b
      /\ l \in Nat
  BY <1>0, LevelBelowIs
<1> HIDE DEF b
<1>5. SumFunctionOnSet(Steps(c), UpTo(c, b)) = b
  BY <1>0, <1>2, <1>3, <1>4
<1>6. UpTo(c, l) = UpTo(c, b) \cup {l} /\ l \notin UpTo(c, b)
  BY <1>0, <1>4 DEF UpTo
<1>7. /\ IsFiniteSet(UpTo(c, b)) /\ \A x \in UpTo(c, b) : Steps(c)[x] \in Int
      /\ Steps(c)[l] = l - b
  <2>1. UpTo(c, b) \subseteq Levels(c)
    BY DEF UpTo
  <2>2. \A x \in Levels(c) : Steps(c)[x] = Step(c, x) /\ Step(c, x) \in Nat
    BY LevelBelowIs DEF Steps
  <2> QED
    BY <1>0, <1>4, <2>1, <2>2, FS_Subset DEF Step, b
<1>8. SumFunctionOnSet(Steps(c), UpTo(c, l)) = (l - b) + b
  <2>1. l - b \in Int
    BY <1>4
  <2> QED
    BY <1>5, <1>6, <1>7, <2>1, SumAdd
<1> QED
  BY <1>4, <1>8

\* What the participants of each level pay together.
Slices(c) == [l \in Levels(c) |-> Step(c, l) * Cardinality(Participants(c, l))]
Capped(c, x) == [p \in DOMAIN c |-> IF c[p] <= x THEN c[p] ELSE x]

\* Contributions by player and level: each player pays the steps up to what it put in.
LEMMA SlicesAddUp ==
  ASSUME NEW S, NEW c, PutIn(c, S), NEW x \in Levels(c) \cup {0}
  PROVE  SumFunctionOnSet(Capped(c, x), S) = SumFunctionOnSet(Slices(c), UpTo(c, x))
<1> DEFINE L == UpTo(c, x)
           F == [p \in S |-> [l \in L |-> IF l <= c[p] THEN Step(c, l) ELSE 0]]
           Row == [p \in S |-> SumFunctionOnSet(F[p], L)]
           Column == [l \in L |-> SumFunctionOnSet([p \in S |-> F[p][l]], S)]
<1>0. /\ IsFiniteSet(Levels(c)) /\ Levels(c) \subseteq Nat \ {0}
      /\ IsFiniteSet(S) /\ DOMAIN c = S /\ \A p \in S : c[p] \in Nat
  BY LevelsFinite DEF PutIn
<1>8. L \subseteq Levels(c) /\ IsFiniteSet(L) /\ x \in Nat
  BY <1>0, FS_Subset DEF UpTo
<1>1. \A l \in L : Step(c, l) \in Nat
  BY <1>8, LevelBelowIs
<1>2. \A p \in S, l \in L : /\ F[p][l] = (IF l <= c[p] THEN Step(c, l) ELSE 0)
                            /\ F[p][l] \in Int
  BY <1>1
<1> HIDE DEF F
<1>3. ASSUME NEW p \in S PROVE Row[p] = Capped(c, x)[p]
  <2> DEFINE y == Capped(c, x)[p]
  <2>0. y = (IF c[p] <= x THEN c[p] ELSE x) /\ c[p] \in Levels(c) \cup {0} /\ c[p] \in Nat
    BY <1>0 DEF Levels, Capped
  <2>5. y \in Levels(c) \cup {0}
    BY <2>0
  <2>1. UpTo(c, y) \in SUBSET L /\ IsFiniteSet(UpTo(c, y))
    <3>1. UpTo(c, y) \subseteq L
      BY <1>0, <1>8, <2>0 DEF UpTo
    <3> QED
      BY <1>8, <3>1, FS_Subset
  <2>2. /\ \A l \in UpTo(c, y) : F[p][l] = Steps(c)[l] /\ F[p][l] \in Int
        /\ \A l \in L \ UpTo(c, y) : F[p][l] = 0
    <3>1. ASSUME NEW l \in UpTo(c, y) PROVE F[p][l] = Steps(c)[l] /\ F[p][l] \in Int
      <4>1. l \in L /\ l \in Levels(c) /\ l <= c[p]
        BY <1>0, <1>8, <2>0, <2>1 DEF UpTo
      <4> QED
        BY <1>2, <4>1 DEF Steps
    <3>2. ASSUME NEW l \in L \ UpTo(c, y) PROVE F[p][l] = 0
      <4>1. l \in Levels(c) /\ l <= x /\ ~(l <= c[p])
        BY <1>0, <1>8, <2>0 DEF UpTo
      <4> QED
        BY <1>2, <4>1
    <3> QED
      BY <3>1, <3>2
  <2> HIDE DEF y, L
  <2>3. SumFunctionOnSet(F[p], L) = SumFunctionOnSet(F[p], UpTo(c, y))
    BY <1>8, <2>1, <2>2, SumOnly
  <2>4. SumFunctionOnSet(F[p], UpTo(c, y)) = SumFunctionOnSet(Steps(c), UpTo(c, y))
    BY <2>1, <2>2, SumSame
  <2>6. SumFunctionOnSet(F[p], L) = y
    BY <2>3, <2>4, <2>5, StepsAddUp
  <2> QED
    BY <2>6 DEF y
<1>4. ASSUME NEW l \in L PROVE Column[l] = Slices(c)[l]
  <2> DEFINE T == Participants(c, l)
             g == [p \in S |-> F[p][l]]
  <2>1. T \in SUBSET S /\ IsFiniteSet(T) /\ T = {p \in S : c[p] >= l}
    BY <1>0, FS_Subset DEF Participants
  <2>2. /\ \A p \in T : g[p] = Step(c, l) /\ Step(c, l) \in Int
        /\ \A p \in S \ T : g[p] = 0
    BY <1>0, <1>8, <1>1, <1>2, <2>1
  <2>3. Column[l] = SumFunctionOnSet(g, S) /\ Slices(c)[l] = Step(c, l) * Cardinality(T)
    BY <1>8 DEF Slices
  <2> HIDE DEF g, T, Column, L
  <2>4. SumFunctionOnSet(g, S) = SumFunctionOnSet(g, T)
    BY <1>0, <2>1, <2>2, SumOnly
  <2>5. SumFunctionOnSet(g, T) = Step(c, l) * Cardinality(T)
    BY <1>1, <2>1, <2>2, SumConstant
  <2> QED
    BY <2>3, <2>4, <2>5
<1> HIDE DEF L
<1>5. SumFunctionOnSet(Row, S) = SumFunctionOnSet(Column, L)
  <2> DEFINE G == [l \in L |-> [p \in S |-> F[p][l]]]
  <2>1. Transposed(F, G, S, L)
    BY <1>2 DEF Transposed
  <2>2. RowSums(F, Row, S, L) /\ RowSums(G, Column, L, S)
    BY DEF RowSums
  <2> HIDE DEF G, Row, Column
  <2> QED
    BY <1>0, <1>8, <2>1, <2>2, SumSwap
<1> HIDE DEF Row, Column
<1>6. SumFunctionOnSet(Capped(c, x), S) = SumFunctionOnSet(Row, S)
  BY <1>0, <1>3, SumSame
<1>7. SumFunctionOnSet(Column, L) = SumFunctionOnSet(Slices(c), L)
  BY <1>8, <1>4, SumSame
<1> QED
  BY <1>5, <1>6, <1>7 DEF L

LEMMA AllSlicesAddUp ==
  ASSUME NEW S, NEW c, PutIn(c, S)
  PROVE  SumFunctionOnSet(c, S) = SumFunctionOnSet(Slices(c), Levels(c))
<1> DEFINE x == Max(Levels(c) \cup {0})
<1>0. /\ IsFiniteSet(Levels(c)) /\ Levels(c) \subseteq Nat \ {0}
      /\ IsFiniteSet(S) /\ DOMAIN c = S /\ \A p \in S : c[p] \in Nat
  BY LevelsFinite DEF PutIn
<1>1. x \in Levels(c) \cup {0} /\ \A l \in Levels(c) : l <= x
  <2>1. IsFiniteSet(Levels(c) \cup {0}) /\ Levels(c) \cup {0} \subseteq Int
    BY <1>0, FS_AddElement
  <2> QED
    BY <2>1, MaxIn
<1> HIDE DEF x
<1>2. UpTo(c, x) = Levels(c)
  BY <1>1 DEF UpTo
<1>3. \A p \in S : Capped(c, x)[p] = c[p]
  <2> SUFFICES ASSUME NEW p \in S PROVE Capped(c, x)[p] = c[p]
    OBVIOUS
  <2>1. c[p] <= x
    BY <1>0, <1>1 DEF Levels
  <2> QED
    BY <1>0, <2>1 DEF Capped
<1>4. SumFunctionOnSet(Capped(c, x), S) = SumFunctionOnSet(c, S)
  BY <1>0, <1>3, SumSame
<1> QED
  BY <1>1, <1>2, <1>4, SlicesAddUp

\* Each player gets back the steps it paid alone.
LEMMA RefundsAddUp ==
  ASSUME NEW S, NEW c, PutIn(c, S)
  PROVE  /\ Refunds(c) \in [S -> Nat]
         /\ SumFunctionOnSet(Refunds(c), S)
              = SumFunctionOnSet(Steps(c), Levels(c) \ PotLevels(c))
<1> DEFINE Alone(p) == {m \in Levels(c) : Participants(c, m) = {p}}
           F == [p \in S |-> [l \in Levels(c) |-> IF l \in Alone(p) THEN Step(c, l) ELSE 0]]
           Row == [p \in S |-> SumFunctionOnSet(F[p], Levels(c))]
           Column == [l \in Levels(c) |-> SumFunctionOnSet([p \in S |-> F[p][l]], S)]
<1>0. /\ IsFiniteSet(Levels(c)) /\ Levels(c) \subseteq Nat \ {0}
      /\ IsFiniteSet(S) /\ DOMAIN c = S /\ \A p \in S : c[p] \in Nat
  BY LevelsFinite DEF PutIn
<1>1. \A l \in Levels(c) : Step(c, l) \in Nat /\ Steps(c)[l] = Step(c, l)
  BY LevelBelowIs DEF Steps
<1>2. \A p \in S, l \in Levels(c) : /\ F[p][l] = (IF l \in Alone(p) THEN Step(c, l) ELSE 0)
                                    /\ F[p][l] \in Int
  BY <1>1
<1> HIDE DEF F
<1>3. ASSUME NEW p \in S PROVE Row[p] = Refunds(c)[p] /\ Refunds(c)[p] \in Nat
  <2> DEFINE r == [l \in Alone(p) |-> Step(c, l)]
  <2>1. Alone(p) \in SUBSET Levels(c) /\ IsFiniteSet(Alone(p))
    BY <1>0, FS_Subset
  <2>2. Refunds(c)[p] = SumFunctionOnSet(r, Alone(p))
    BY <1>0 DEF Refunds, SumFunction
  <2>3. /\ \A l \in Alone(p) : r[l] = Step(c, l) /\ F[p][l] = Step(c, l) /\ r[l] \in Nat
                               /\ F[p][l] \in Int
        /\ \A l \in Levels(c) \ Alone(p) : F[p][l] = 0
    BY <1>1, <1>2
  <2> HIDE DEF Alone, r
  <2>4. SumFunctionOnSet(F[p], Levels(c)) = SumFunctionOnSet(F[p], Alone(p))
    BY <1>0, <2>1, <2>3, SumOnly
  <2>5. SumFunctionOnSet(F[p], Alone(p)) = SumFunctionOnSet(r, Alone(p))
    BY <2>1, <2>3, SumSame
  <2>6. SumFunctionOnSet(r, Alone(p)) \in Nat
    BY <2>1, <2>3, SumNatural
  <2> QED
    BY <2>2, <2>4, <2>5, <2>6
<1>4. ASSUME NEW l \in Levels(c)
      PROVE  Column[l] = IF l \in PotLevels(c) THEN 0 ELSE Steps(c)[l]
  <2> DEFINE T == Participants(c, l)
             g == [p \in S |-> F[p][l]]
  <2>1. T \in SUBSET S /\ IsFiniteSet(T) /\ T # {} /\ Cardinality(T) \in Nat
    <3>1. T \in SUBSET S /\ IsFiniteSet(T)
      BY <1>0, FS_Subset DEF Participants
    <3>2. T # {}
      BY <1>0 DEF Participants, Levels
    <3> QED
      BY <3>1, <3>2, FS_CardinalityType
  <2>2. l \in PotLevels(c) <=> Cardinality(T) > 1
    BY DEF PotLevels
  <2>3. \A p \in S : g[p] = IF T = {p} THEN Step(c, l) ELSE 0
    BY <1>2
  <2>4. Column[l] = SumFunctionOnSet(g, S)
    OBVIOUS
  <2> HIDE DEF T, g, Column
  <2>5. CASE l \in PotLevels(c)
    <3>1. \A p \in S : T # {p}
      BY <2>2, <2>5, FS_Singleton
    <3>2. SumFunctionOnSet(g, S) = 0
      BY <1>0, <2>3, <3>1, SumZero
    <3> QED
      BY <2>4, <2>5, <3>2
  <2>6. CASE l \notin PotLevels(c)
    <3>1. Cardinality(T) = 1
      <4>1. Cardinality(T) # 0
        BY <2>1, FS_EmptySet
      <4> QED
        BY <2>1, <2>2, <2>6, <4>1
    <3>2. PICK q : T = {q}
      BY <2>1, <3>1, FS_Singleton
    <3>3. {q} \in SUBSET S /\ IsFiniteSet({q}) /\ q \in S /\ q \notin {}
      BY <2>1, <3>2
    <3>4. g[q] = Step(c, l) /\ g[q] \in Int /\ \A p \in S \ {q} : g[p] = 0
      BY <1>1, <2>3, <3>2, <3>3
    <3>5. SumFunctionOnSet(g, S) = SumFunctionOnSet(g, {q})
      BY <1>0, <3>3, <3>4, SumOnly
    <3>6. SumFunctionOnSet(g, {q}) = g[q] * Cardinality({q}) /\ Cardinality({q}) = 1
      BY <3>3, <3>4, SumConstant, FS_Singleton
    <3> QED
      BY <1>1, <2>4, <2>6, <3>4, <3>5, <3>6
  <2> QED
    BY <2>5, <2>6
<1>5. SumFunctionOnSet(Row, S) = SumFunctionOnSet(Column, Levels(c))
  <2> DEFINE G == [l \in Levels(c) |-> [p \in S |-> F[p][l]]]
  <2>1. Transposed(F, G, S, Levels(c))
    BY <1>2 DEF Transposed
  <2>2. RowSums(F, Row, S, Levels(c)) /\ RowSums(G, Column, Levels(c), S)
    BY DEF RowSums
  <2> HIDE DEF G, Row, Column
  <2> QED
    BY <1>0, <2>1, <2>2, SumSwap
<1> HIDE DEF Row, Column
<1> DEFINE Rest == Levels(c) \ PotLevels(c)
<1>6. Rest \in SUBSET Levels(c) /\ IsFiniteSet(Rest)
  BY <1>0, FS_Subset
<1>7. /\ \A l \in Rest : Column[l] = Steps(c)[l] /\ Column[l] \in Int
      /\ \A l \in Levels(c) \ Rest : Column[l] = 0
  BY <1>1, <1>4
<1>8. SumFunctionOnSet(Column, Levels(c)) = SumFunctionOnSet(Steps(c), Rest)
  <2> HIDE DEF Rest
  <2>1. SumFunctionOnSet(Column, Levels(c)) = SumFunctionOnSet(Column, Rest)
    BY <1>0, <1>6, <1>7, SumOnly
  <2>2. SumFunctionOnSet(Column, Rest) = SumFunctionOnSet(Steps(c), Rest)
    BY <1>6, <1>7, SumSame
  <2> QED
    BY <2>1, <2>2
<1>9. SumFunctionOnSet(Refunds(c), S) = SumFunctionOnSet(Row, S)
  BY <1>0, <1>3, SumSame
<1>10. Refunds(c) \in [S -> Nat]
  BY <1>0, <1>3 DEF Refunds
<1> QED
  BY <1>5, <1>8, <1>9, <1>10

\* A level that makes no pot has one participant.
LEMMA SliceIs ==
  ASSUME NEW S, NEW c, PutIn(c, S), NEW l \in Levels(c)
  PROVE  /\ Slices(c)[l] = Step(c, l) * Cardinality(Participants(c, l))
         /\ Slices(c)[l] \in Nat
         /\ l \notin PotLevels(c) => Slices(c)[l] = Steps(c)[l] /\ Cardinality(Participants(c, l)) = 1
<1>0. /\ Levels(c) \subseteq Nat \ {0} /\ IsFiniteSet(S) /\ DOMAIN c = S /\ \A p \in S : c[p] \in Nat
  BY LevelsFinite DEF PutIn
<1>1. Step(c, l) \in Nat /\ Steps(c)[l] = Step(c, l)
  BY LevelBelowIs DEF Steps
<1>2. IsFiniteSet(Participants(c, l)) /\ Participants(c, l) # {}
  <2>1. Participants(c, l) \in SUBSET S
    BY <1>0 DEF Participants
  <2>2. Participants(c, l) # {}
    BY <1>0 DEF Participants, Levels
  <2> QED
    BY <1>0, <2>1, <2>2, FS_Subset
<1>3. Cardinality(Participants(c, l)) \in Nat /\ Cardinality(Participants(c, l)) # 0
  BY <1>2, FS_CardinalityType, FS_EmptySet
<1>4. l \notin PotLevels(c) => Cardinality(Participants(c, l)) = 1
  BY <1>3 DEF PotLevels
<1>5. Slices(c)[l] = Step(c, l) * Cardinality(Participants(c, l))
  BY DEF Slices
<1>6. \A a, b \in Nat : a * b \in Nat /\ a * 1 = a
  OBVIOUS
<1> QED
  BY <1>1, <1>3, <1>4, <1>5, <1>6

\* What was put in is in the pots or goes back.
LEMMA PotsAddUp ==
  ASSUME NEW S, NEW c, NEW f, PutIn(c, S)
  PROVE  /\ IsFiniteSet(PotLevels(c)) /\ PotLevels(c) \subseteq Nat
         /\ Amounts(BuildPots(c, f)) \in [PotLevels(c) -> Nat]
         /\ Refunds(c) \in [S -> Nat]
         /\ SumFunction(c) = Gross(BuildPots(c, f)) + SumFunction(Refunds(c))
<1> DEFINE Rest == Levels(c) \ PotLevels(c)
           pots == BuildPots(c, f)
<1>0. /\ IsFiniteSet(Levels(c)) /\ Levels(c) \subseteq Nat \ {0} /\ PotLevels(c) \in SUBSET Levels(c)
      /\ IsFiniteSet(S) /\ DOMAIN c = S /\ \A p \in S : c[p] \in Nat
  BY LevelsFinite DEF PutIn, PotLevels
<1>1. /\ IsFiniteSet(PotLevels(c)) /\ IsFiniteSet(Rest) /\ Rest \in SUBSET Levels(c)
      /\ PotLevels(c) \cap Rest = {} /\ PotLevels(c) \cup Rest = Levels(c)
  BY <1>0, FS_Subset
<1>3. \A l \in Levels(c) : /\ Slices(c)[l] = Step(c, l) * Cardinality(Participants(c, l))
                           /\ Slices(c)[l] \in Nat
                           /\ l \in Rest => Slices(c)[l] = Steps(c)[l]
  BY SliceIs
<1>4. /\ DOMAIN Amounts(pots) = PotLevels(c)
      /\ \A l \in PotLevels(c) : Amounts(pots)[l] = Slices(c)[l]
  BY <1>0 DEF Amounts, BuildPots, Slices
<1>5. Amounts(pots) \in [PotLevels(c) -> Nat]
  <2>1. \A l \in PotLevels(c) : Amounts(pots)[l] \in Nat
    BY <1>0, <1>3, <1>4
  <2> QED
    BY <1>4, <2>1 DEF Amounts
<1> HIDE DEF Rest, pots
<1>6. SumFunctionOnSet(Slices(c), Levels(c))
        = SumFunctionOnSet(Slices(c), PotLevels(c)) + SumFunctionOnSet(Slices(c), Rest)
  BY <1>1, <1>3, SumUnion
<1>7. SumFunctionOnSet(Slices(c), PotLevels(c)) = Gross(pots)
  <2>1. SumFunctionOnSet(Slices(c), PotLevels(c)) = SumFunctionOnSet(Amounts(pots), PotLevels(c))
    BY <1>1, <1>4, SumSame
  <2> QED
    BY <1>4, <2>1 DEF Gross, SumFunction
<1>8. SumFunctionOnSet(Slices(c), Rest) = SumFunctionOnSet(Steps(c), Rest)
  BY <1>1, <1>3, SumSame
<1>9. SumFunction(c) = SumFunctionOnSet(Slices(c), Levels(c))
  BY <1>0, AllSlicesAddUp DEF SumFunction
<1>10. /\ Refunds(c) \in [S -> Nat]
       /\ SumFunction(Refunds(c)) = SumFunctionOnSet(Steps(c), Rest)
  <2>1. Refunds(c) \in [S -> Nat] /\ DOMAIN Refunds(c) = S
    BY RefundsAddUp
  <2> QED
    BY <2>1, RefundsAddUp DEF SumFunction, Rest
<1> QED
  BY <1>0, <1>1, <1>5, <1>6, <1>7, <1>8, <1>9, <1>10 DEF pots

----------------------------------------------------------------------------
(* Rake *)

\* Pots of players in S, known by their levels, each with somebody to win it.
PotsOf(pots, D, S) ==
    /\ IsFiniteSet(D) /\ D \subseteq Nat
    /\ pots \in [D -> [amount : Nat, eligible : (SUBSET S) \ {{}}]]

LEMMA PotsHaveAmounts ==
  ASSUME NEW D, NEW S, NEW pots, PotsOf(pots, D, S)
  PROVE  /\ IsFiniteSet(D) /\ D \subseteq Nat /\ DOMAIN pots = D /\ DOMAIN Amounts(pots) = D
         /\ \A l \in D : /\ pots[l] \in [amount : Nat, eligible : (SUBSET S) \ {{}}]
                         /\ Amounts(pots)[l] = pots[l].amount /\ Amounts(pots)[l] \in Nat
         /\ Gross(pots) = SumFunctionOnSet(Amounts(pots), D) /\ Gross(pots) \in Nat
<1>1. IsFiniteSet(D) /\ D \subseteq Nat /\ DOMAIN pots = D
  BY DEF PotsOf
<1>2. DOMAIN Amounts(pots) = D
  BY <1>1 DEF Amounts
<1>3. \A l \in D : /\ pots[l] \in [amount : Nat, eligible : (SUBSET S) \ {{}}]
                  /\ Amounts(pots)[l] = pots[l].amount /\ Amounts(pots)[l] \in Nat
  BY <1>1 DEF PotsOf, Amounts
<1>4. Gross(pots) = SumFunctionOnSet(Amounts(pots), D)
  BY <1>2 DEF Gross, SumFunction
<1>5. Gross(pots) \in Nat
  BY <1>1, <1>3, <1>4, SumNatural
<1> QED
  BY <1>1, <1>2, <1>3, <1>4, <1>5

\* A pot pays what the pots below it could not, as far as it goes.
LEMMA CutIs ==
  ASSUME NEW D, NEW S, NEW pots, PotsOf(pots, D, S), NEW target \in Nat, NEW l \in D
  PROVE  LET below == SumFunctionOnSet(Amounts(pots), {m \in D : m < l})
             left == IF target <= below THEN 0 ELSE target - below
         IN  /\ below \in Nat
             /\ Cuts(pots, target)[l] = IF left <= Amounts(pots)[l] THEN left ELSE Amounts(pots)[l]
<1> DEFINE U == {m \in D : m < l}
           below == SumFunctionOnSet(Amounts(pots), U)
           left == IF target <= below THEN 0 ELSE target - below
<1>0. /\ IsFiniteSet(D) /\ DOMAIN pots = D /\ Amounts(pots)[l] \in Nat
      /\ Amounts(pots)[l] = pots[l].amount /\ U \in SUBSET D
      /\ \A x \in D : Amounts(pots)[x] \in Nat
  BY PotsHaveAmounts
<1>1. below \in Nat
  <2>1. IsFiniteSet(U)
    BY <1>0, FS_Subset
  <2> HIDE DEF U
  <2> QED
    BY <1>0, <2>1, SumNatural
<1>2. Cuts(pots, target)[l] = Min({Max({0, target - below}), pots[l].amount})
  BY <1>0 DEF Cuts
<1> HIDE DEF below
<1>3. Max({0, target - below}) = left /\ left \in Nat
  <2>1. target - below \in Int
    BY <1>1
  <2>2. Max({0, target - below}) = IF target - below <= 0 THEN 0 ELSE target - below
    BY <2>1, MaxWithZero
  <2> QED
    BY <1>1, <2>2
<1>4. Min({left, pots[l].amount}) = IF left <= pots[l].amount THEN left ELSE pots[l].amount
  <2> HIDE DEF left
  <2> QED
    BY <1>0, <1>3, MinOfTwo
<1>5. Cuts(pots, target)[l] = IF left <= Amounts(pots)[l] THEN left ELSE Amounts(pots)[l]
  BY SMTT(60), <1>0, <1>2, <1>3, <1>4
<1> QED
  BY <1>1, <1>5 DEF below

\* The cuts are no more than the pots, and add up to what is to be taken.
LEMMA CutsAddUp ==
  ASSUME NEW D, NEW S, NEW pots, PotsOf(pots, D, S), NEW target \in Nat, target <= Gross(pots)
  PROVE  /\ Cuts(pots, target) \in [D -> Nat]
         /\ \A l \in D : Cuts(pots, target)[l] <= Amounts(pots)[l]
         /\ SumFunction(Cuts(pots, target)) = target
<1> DEFINE a == Amounts(pots)
           cut == Cuts(pots, target)
           Down == {U \in SUBSET D : \A x \in U, y \in D : y < x => y \in U}
           Bad == {U \in SUBSET D :
                     /\ U \in Down
                     /\ SumFunctionOnSet(cut, U) # IF target <= SumFunctionOnSet(a, U)
                                                   THEN target ELSE SumFunctionOnSet(a, U)}
<1>0. /\ IsFiniteSet(D) /\ D \subseteq Nat /\ DOMAIN pots = D /\ DOMAIN a = D
      /\ \A l \in D : a[l] \in Nat
  BY PotsHaveAmounts
<1>1. cut \in [D -> Nat] /\ \A l \in D : cut[l] <= a[l]
  <2>1. DOMAIN cut = D /\ cut = [l \in D |-> cut[l]]
    BY <1>0 DEF Cuts
  <2>2. \A l \in D : cut[l] \in Nat /\ cut[l] <= a[l]
    <3> HIDE DEF cut, a
    <3> SUFFICES ASSUME NEW l \in D PROVE cut[l] \in Nat /\ cut[l] <= a[l]
      OBVIOUS
    <3> DEFINE below == SumFunctionOnSet(a, {m \in D : m < l})
               left == IF target <= below THEN 0 ELSE target - below
    <3>1. below \in Nat /\ cut[l] = IF left <= a[l] THEN left ELSE a[l]
      BY CutIs DEF cut, a
    <3> HIDE DEF below
    <3> QED
      BY <1>0, <3>1
  <2> HIDE DEF cut
  <2> QED
    BY <2>1, <2>2
<1> HIDE DEF cut, a
<1>2. ASSUME Bad # {} PROVE FALSE
  <2>1. PICK U \in Bad : \A V \in SUBSET U : V # U => V \notin Bad
    <3>1. Bad \subseteq SUBSET D
      OBVIOUS
    <3> HIDE DEF Bad
    <3> QED
      BY <1>0, <1>2, <3>1, SmallestSubset
  <2>2. U \in SUBSET D /\ U \in Down /\ IsFiniteSet(U)
    BY <1>0, FS_Subset
  <2>3. U # {}
    <3> SUFFICES ASSUME U = {} PROVE FALSE
      OBVIOUS
    <3>1. SumFunctionOnSet(cut, U) = 0 /\ SumFunctionOnSet(a, U) = 0
      BY SumEmpty
    <3>2. SumFunctionOnSet(cut, U) # IF target <= SumFunctionOnSet(a, U)
                                     THEN target ELSE SumFunctionOnSet(a, U)
      BY <2>1
    <3> QED
      BY <3>1, <3>2
  <2>4. PICK l \in U : \A x \in U : x <= l
    <3>1. U \subseteq Int
      BY <1>0, <2>2
    <3> HIDE DEF Bad, Down
    <3> QED
      BY <2>2, <2>3, <3>1, MaxIn
  <2> DEFINE V == U \ {l}
  <2>5. /\ V \in SUBSET U /\ V # U /\ V \in SUBSET D /\ l \in D /\ IsFiniteSet(V)
        /\ V \in Down /\ V = {m \in D : m < l}
    <3>1. V \in SUBSET U /\ V # U /\ V \in SUBSET D /\ l \in D /\ IsFiniteSet(V)
      BY <2>2, FS_Subset
    <3>2. V = {m \in D : m < l}
      <4>1. \A x \in V : x \in D /\ x < l
        <5>1. \A x \in V : x \in Nat /\ l \in Nat /\ x <= l /\ x # l
          BY <1>0, <2>4, <3>1
        <5> QED
          BY <3>1, <5>1
      <4>2. \A y \in D : y < l => y \in V
        <5>1. \A y \in D : y < l => y \in U
          BY <2>2, <2>4
        <5>2. \A y \in D : y < l => y # l
          BY <1>0, <3>1
        <5> QED
          BY <5>1, <5>2
      <4> QED
        BY <4>1, <4>2
    <3>3. V \in Down
      BY <1>0, <3>1, <3>2
    <3> QED
      BY <3>1, <3>2, <3>3
  <2>6. SumFunctionOnSet(cut, V) = IF target <= SumFunctionOnSet(a, V)
                                   THEN target ELSE SumFunctionOnSet(a, V)
    BY <2>1, <2>5
  <2>7. /\ SumFunctionOnSet(cut, U) = cut[l] + SumFunctionOnSet(cut, V)
        /\ SumFunctionOnSet(a, U) = a[l] + SumFunctionOnSet(a, V)
    <3>1. \A x \in U : cut[x] \in Int /\ a[x] \in Int
      BY <1>0, <1>1, <2>2
    <3> QED
      BY <2>2, <2>4, <3>1, SumRemove
  <2> DEFINE below == SumFunctionOnSet(a, V)
             left == IF target <= below THEN 0 ELSE target - below
  <2>8. below \in Nat /\ cut[l] = IF left <= a[l] THEN left ELSE a[l]
    <3>1. LET b == SumFunctionOnSet(a, {m \in D : m < l})
              r == IF target <= b THEN 0 ELSE target - b
          IN  b \in Nat /\ cut[l] = IF r <= a[l] THEN r ELSE a[l]
      BY <2>5, CutIs DEF cut, a
    <3> QED
      BY <2>5, <3>1
  <2>9. a[l] \in Nat
    BY <1>0, <2>5
  <2> HIDE DEF below, V
  <2>10. SumFunctionOnSet(cut, U) = IF target <= SumFunctionOnSet(a, U)
                                    THEN target ELSE SumFunctionOnSet(a, U)
    BY <2>6, <2>7, <2>8, <2>9 DEF below
  <2> QED
    BY <2>1, <2>10
<1>3. D \in Down
  OBVIOUS
<1>4. SumFunctionOnSet(cut, D) = IF target <= SumFunctionOnSet(a, D)
                                 THEN target ELSE SumFunctionOnSet(a, D)
  BY <1>2, <1>3
<1>5. SumFunctionOnSet(a, D) = Gross(pots) /\ SumFunctionOnSet(cut, D) = SumFunction(cut)
  BY SMTT(60), <1>0, <1>1 DEF Gross, SumFunction, a
<1> QED
  BY <1>1, <1>4, <1>5 DEF cut, a

LEMMA RakeRulesHave ==
  ASSUME NEW rake \in RakeRules
  PROVE  rake.bps \in Nat /\ rake.bps <= 10000 /\ rake.cap \in Nat
<1>1. rake.bps \in 0..BasisPoints /\ rake.cap \in Nat
  BY DEF RakeRules
<1>2. BasisPoints \in Nat
  BY DEF BasisPoints
<1>3. rake.bps \in Nat /\ rake.bps <= BasisPoints
  BY <1>1, <1>2
<1> QED
  BY <1>1, <1>3 DEF BasisPoints

LEMMA TargetIs ==
  ASSUME NEW D, NEW S, NEW pots, PotsOf(pots, D, S),
         NEW rake \in RakeRules, NEW flopDealt \in BOOLEAN
  PROVE  LET target == RakeTarget(pots, rake, flopDealt)
         IN  /\ target \in Nat /\ target <= Gross(pots) /\ target <= rake.cap
             /\ target * 10000 <= Gross(pots) * rake.bps
             /\ ~flopDealt => target = 0
<1> DEFINE bps == rake.bps
           cap == rake.cap
           target == RakeTarget(pots, rake, flopDealt)
           g == Gross(pots)
<1>1. g \in Nat /\ bps \in Nat /\ bps <= 10000 /\ cap \in Nat
  <2>1. bps \in Nat /\ bps <= 10000 /\ cap \in Nat
    BY RakeRulesHave
  <2>2. g \in Nat
    BY PotsHaveAmounts
  <2> HIDE DEF g, bps, cap
  <2> QED
    BY <2>1, <2>2
<1> HIDE DEF g, bps, cap
<1> DEFINE x == g * bps
<1>2. x \in Nat /\ x <= g * 10000
  <2>1. x \in Nat
    BY <1>1
  <2>2. g * (10000 - bps) >= 0
    BY <1>1
  <2>3. g * (10000 - bps) = g * 10000 - x
    BY <1>1
  <2> QED
    BY <1>1, <2>1, <2>2, <2>3
<1> HIDE DEF x
<1>3. x \div 10000 \in Nat /\ x \div 10000 <= g /\ (x \div 10000) * 10000 <= x
  BY <1>1, <1>2
<1>4. Min({x \div 10000, cap}) = IF x \div 10000 <= cap THEN x \div 10000 ELSE cap
  BY <1>1, <1>3, MinOfTwo
<1>5. target = IF flopDealt THEN Min({x \div 10000, cap}) ELSE 0
  BY DEF RakeTarget, g, x, bps, cap
<1> HIDE DEF target
<1>6. target \in Nat /\ target <= g /\ target <= cap /\ target * 10000 <= x
  <2>1. CASE ~flopDealt
    BY <1>1, <1>2, <1>5, <2>1
  <2>2. CASE flopDealt
    BY <1>3, <1>4, <1>5, <2>2, <1>1, <1>2
  <2> QED
    BY <2>1, <2>2
<1>7. ~flopDealt => target = 0
  BY <1>5
<1> QED
  BY <1>6, <1>7 DEF g, x, bps, cap, target

\* Rake leaves pots that are worth what they were less the rake.
LEMMA RakeBalances ==
  ASSUME NEW D, NEW S, NEW pots, PotsOf(pots, D, S),
         NEW rake \in RakeRules, NEW flopDealt \in BOOLEAN
  PROVE  LET raked == ApplyRake(pots, rake, flopDealt)
         IN  /\ PotsOf(raked.pots, D, S)
             /\ \A l \in D : /\ raked.pots[l].eligible = pots[l].eligible
                             /\ raked.pots[l].amount <= pots[l].amount
             /\ raked.total = RakeTarget(pots, rake, flopDealt)
             /\ Gross(raked.pots) + raked.total = Gross(pots)
<1> DEFINE target == RakeTarget(pots, rake, flopDealt)
           cut == Cuts(pots, target)
           a == Amounts(pots)
           net == [l \in DOMAIN pots |-> [pots[l] EXCEPT !.amount = @ - cut[l]]]
           raked == ApplyRake(pots, rake, flopDealt)
<1>0. /\ IsFiniteSet(D) /\ D \subseteq Nat /\ DOMAIN pots = D
      /\ \A l \in D : /\ pots[l] \in [amount : Nat, eligible : (SUBSET S) \ {{}}]
                      /\ a[l] = pots[l].amount /\ a[l] \in Nat
      /\ Gross(pots) = SumFunctionOnSet(a, D)
  BY PotsHaveAmounts
<1>1. target \in Nat /\ target <= Gross(pots)
  BY TargetIs
<1>2. raked.pots = net /\ raked.total = SumFunction(cut)
  BY DEF ApplyRake
<1> HIDE DEF target
<1>3. /\ cut \in [D -> Nat] /\ \A l \in D : cut[l] <= a[l]
      /\ SumFunction(cut) = target
  BY <1>1, CutsAddUp
<1> HIDE DEF cut, raked
<1>4. DOMAIN net = D /\ \A l \in D : net[l] = [pots[l] EXCEPT !.amount = @ - cut[l]]
  BY <1>0
<1>5. \A l \in D : /\ net[l] \in [amount : Nat, eligible : (SUBSET S) \ {{}}]
                  /\ net[l].amount = a[l] - cut[l] /\ net[l].eligible = pots[l].eligible
                  /\ net[l].amount <= pots[l].amount
  <2> HIDE DEF a, net
  <2> SUFFICES ASSUME NEW l \in D
               PROVE  /\ net[l] \in [amount : Nat, eligible : (SUBSET S) \ {{}}]
                      /\ net[l].amount = a[l] - cut[l] /\ net[l].eligible = pots[l].eligible
                      /\ net[l].amount <= pots[l].amount
    OBVIOUS
  <2>1. a[l] - cut[l] \in Nat /\ a[l] - cut[l] <= a[l]
    BY <1>0, <1>3
  <2> QED
    BY <1>0, <1>4, <2>1
<1>6. PotsOf(net, D, S)
  <2>1. net = [l \in D |-> net[l]]
    BY <1>0
  <2> HIDE DEF net
  <2> QED
    BY <1>0, <1>5, <2>1 DEF PotsOf
<1> HIDE DEF net
<1>7. Gross(net) + target = Gross(pots)
  <2> HIDE DEF a
  <2>1. Gross(net) = SumFunctionOnSet(Amounts(net), D)
    BY <1>6, PotsHaveAmounts
  <2>2. target = SumFunctionOnSet(cut, D)
    BY <1>3 DEF SumFunction
  <2>3. \A l \in D : Amounts(net)[l] = net[l].amount
    BY <1>6, PotsHaveAmounts
  <2>4. Adds(Amounts(net), cut, a, D)
    <3> SUFFICES ASSUME NEW l \in D
                 PROVE  /\ Amounts(net)[l] \in Int /\ cut[l] \in Int
                        /\ a[l] = Amounts(net)[l] + cut[l]
      BY DEF Adds
    <3>1. a[l] \in Nat /\ cut[l] \in Nat
      BY <1>0, <1>3
    <3>2. Amounts(net)[l] = a[l] - cut[l]
      BY <1>5, <2>3
    <3> QED
      BY <3>1, <3>2
  <2>5. SumFunctionOnSet(a, D) = SumFunctionOnSet(Amounts(net), D) + SumFunctionOnSet(cut, D)
    BY <1>0, <2>4, SumPlus
  <2> QED
    BY <1>0, <2>1, <2>2, <2>5
<1> QED
  BY <1>2, <1>3, <1>5, <1>6, <1>7 DEF raked, target

----------------------------------------------------------------------------
(* Shares *)

AheadOf(k, U, p) == {w \in U : k[w] < k[p]}
OddChips(k, U, r) == [p \in U |-> IF Cardinality(AheadOf(k, U, p)) < r THEN 1 ELSE 0]

\* Of players in an order, the first r get a chip each.
LEMMA OddChipsAddUp ==
  ASSUME NEW W, IsFiniteSet(W), NEW k, NEW r \in Nat,
         \A p \in W : k[p] \in Int, \A p, q \in W : k[p] = k[q] => p = q
  PROVE  SumFunctionOnSet(OddChips(k, W, r), W) = IF r <= Cardinality(W) THEN r ELSE Cardinality(W)
<1> DEFINE Bad == {U \in SUBSET W : SumFunctionOnSet(OddChips(k, U, r), U)
                                      # IF r <= Cardinality(U) THEN r ELSE Cardinality(U)}
<1> SUFFICES ASSUME Bad # {} PROVE FALSE
  OBVIOUS
<1>1. PICK U \in Bad : \A V \in SUBSET U : V # U => V \notin Bad
  <2>1. Bad \subseteq SUBSET W
    OBVIOUS
  <2> HIDE DEF Bad
  <2> QED
    BY <2>1, SmallestSubset
<1>2. U \in SUBSET W /\ IsFiniteSet(U) /\ Cardinality(U) \in Nat
  BY FS_Subset, FS_CardinalityType
<1>3. U # {}
  <2> SUFFICES ASSUME U = {} PROVE FALSE
    OBVIOUS
  <2>1. SumFunctionOnSet(OddChips(k, U, r), U) = 0 /\ Cardinality(U) = 0
    BY SumEmpty, FS_EmptySet
  <2>2. SumFunctionOnSet(OddChips(k, U, r), U)
          # IF r <= Cardinality(U) THEN r ELSE Cardinality(U)
    BY <1>1
  <2> QED
    BY <2>1, <2>2
<1>4. PICK g \in U : \A x \in U : k[x] <= k[g]
  BY <1>2, <1>3, GreatestExists
<1> DEFINE V == U \ {g}
<1>5. /\ V \in SUBSET U /\ V # U /\ V \in SUBSET W /\ IsFiniteSet(V)
      /\ Cardinality(V) \in Nat /\ Cardinality(U) = Cardinality(V) + 1
  <2>1. V \in SUBSET U /\ V # U /\ V \in SUBSET W /\ IsFiniteSet(V)
    BY <1>2, FS_Subset
  <2>2. Cardinality(V) = Cardinality(U) - 1 /\ Cardinality(V) \in Nat
    BY <1>2, <2>1, FS_RemoveElement, FS_CardinalityType
  <2> QED
    BY <1>2, <2>1, <2>2
<1>6. SumFunctionOnSet(OddChips(k, V, r), V) = IF r <= Cardinality(V) THEN r ELSE Cardinality(V)
  BY <1>1, <1>5
<1>7. AheadOf(k, U, g) = V
  <2>1. \A x \in V : k[x] < k[g]
    <3> SUFFICES ASSUME NEW x \in V PROVE k[x] < k[g]
      OBVIOUS
    <3>1. k[x] \in Int /\ k[g] \in Int /\ k[x] <= k[g] /\ k[x] # k[g]
      BY <1>2, <1>4
    <3> QED
      BY <3>1
  <2>2. ~(k[g] < k[g])
    <3>1. k[g] \in Int
      BY <1>2
    <3> QED
      BY <3>1
  <2> QED
    BY <2>1, <2>2 DEF AheadOf
<1>8. \A p \in V : AheadOf(k, U, p) = AheadOf(k, V, p)
  <2> SUFFICES ASSUME NEW p \in V PROVE AheadOf(k, U, p) = AheadOf(k, V, p)
    OBVIOUS
  <2>1. k[p] \in Int /\ k[g] \in Int /\ k[p] <= k[g]
    BY <1>2, <1>4
  <2>2. ~(k[g] < k[p])
    BY <2>1
  <2> QED
    BY <2>2 DEF AheadOf
<1> HIDE DEF V
<1>9. /\ \A p \in U : OddChips(k, U, r)[p] \in Int
      /\ OddChips(k, U, r)[g] = IF Cardinality(V) < r THEN 1 ELSE 0
      /\ \A p \in V : OddChips(k, U, r)[p] = OddChips(k, V, r)[p]
  BY <1>5, <1>7, <1>8 DEF OddChips
<1>10. SumFunctionOnSet(OddChips(k, U, r), U)
         = OddChips(k, U, r)[g] + SumFunctionOnSet(OddChips(k, U, r), V)
  BY <1>2, <1>9, SumRemove DEF V
<1>11. SumFunctionOnSet(OddChips(k, U, r), V) = SumFunctionOnSet(OddChips(k, V, r), V)
  BY <1>5, <1>9, SumSame
<1>12. SumFunctionOnSet(OddChips(k, U, r), U) = IF r <= Cardinality(U) THEN r ELSE Cardinality(U)
  BY <1>5, <1>6, <1>9, <1>10, <1>11
<1> QED
  BY <1>1, <1>12

SharesOf(S, amount, W, dealer) == [p \in S |-> Share(p, amount, W, dealer)]

\* A pot on one board is paid out to its winners, whole.
LEMMA SharesAddUp ==
  ASSUME NEW S, IsFiniteSet(S), S \subseteq 0..8, NEW W \in SUBSET S, W # {},
         NEW amount \in Nat, NEW dealer \in Int
  PROVE  /\ \A p \in S : SharesOf(S, amount, W, dealer)[p] \in Nat
         /\ SumFunctionOnSet(SharesOf(S, amount, W, dealer), S) = amount
<1> DEFINE n == Cardinality(W)
           q == amount \div n
           r == amount % n
           k == [p \in W |-> Clockwise(dealer, p)]
           odd == OddChips(k, W, r)
           share == SharesOf(S, amount, W, dealer)
           even == [p \in W |-> q]
<1>1. IsFiniteSet(W) /\ n \in Nat /\ n > 0
  <2>1. IsFiniteSet(W)
    BY FS_Subset
  <2>2. n \in Nat /\ n # 0
    BY <2>1, FS_CardinalityType, FS_EmptySet
  <2> HIDE DEF n
  <2> QED
    BY <2>1, <2>2
<1> HIDE DEF n
<1>2. q \in Nat /\ r \in Nat /\ r < n /\ amount = q * n + r
  BY <1>1
<1> HIDE DEF q, r
<1>3. (\A p \in W : k[p] \in Int) /\ \A p, u \in W : k[p] = k[u] => p = u
  <2>1. \A p, u \in 0..8 : /\ Clockwise(dealer, p) \in Int
                           /\ Clockwise(dealer, p) = Clockwise(dealer, u) => p = u
    BY DEF Clockwise
  <2> QED
    BY <2>1
<1>4. SumFunctionOnSet(odd, W) = r
  <2> HIDE DEF k
  <2>1. SumFunctionOnSet(odd, W) = IF r <= Cardinality(W) THEN r ELSE Cardinality(W)
    BY <1>1, <1>2, <1>3, OddChipsAddUp
  <2> QED
    BY <1>1, <1>2, <2>1 DEF n
<1>5. \A p \in W : AheadOf(k, W, p) = {w \in W : Clockwise(dealer, w) < Clockwise(dealer, p)}
  BY DEF AheadOf
<1>6. \A p \in W : odd[p] = IF Cardinality(AheadOf(k, W, p)) < r THEN 1 ELSE 0
  BY DEF OddChips
<1>7. \A p \in S : Share(p, amount, W, dealer) = IF p \in W THEN q + odd[p] ELSE 0
  BY <1>5, <1>6 DEF Share, n, q, r
<1> HIDE DEF k, odd
<1>8. \A p \in W : odd[p] \in {0, 1}
  BY <1>6
<1>9. /\ \A p \in S : share[p] \in Nat
      /\ \A p \in S \ W : share[p] = 0
      /\ \A p \in W : share[p] \in Int
      /\ \A p \in W : share[p] = even[p] + odd[p] /\ even[p] = q /\ even[p] \in Int /\ odd[p] \in Int
  BY <1>2, <1>7, <1>8 DEF SharesOf
<1> HIDE DEF share, even
<1>11. SumFunctionOnSet(share, S) = SumFunctionOnSet(share, W)
  BY <1>9, SumOnly
<1>12. SumFunctionOnSet(share, W) = SumFunctionOnSet(even, W) + SumFunctionOnSet(odd, W)
  <2>1. Adds(even, odd, share, W)
    BY <1>9 DEF Adds
  <2> QED
    BY <1>1, <2>1, SumPlus
<1>13. SumFunctionOnSet(even, W) = q * n
  BY <1>1, <1>2, <1>9, SumConstant DEF n
<1>14. SumFunctionOnSet(share, S) = amount
  <2>1. q * n \in Nat
    BY <1>1, <1>2
  <2> QED
    BY <1>2, <1>4, <1>11, <1>12, <1>13, <2>1
<1> QED
  BY <1>9, <1>14 DEF share

\* Two boards share a pot between them.
LEMMA BoardsAddUp ==
  ASSUME NEW pot, pot.amount \in Nat, NEW n \in {1, 2}
  PROVE  /\ \A b \in 1..n : BoardAmount(pot, b, n) \in Nat
         /\ SumFunctionOnSet([b \in 1..n |-> BoardAmount(pot, b, n)], 1..n) = pot.amount
<1> DEFINE a == pot.amount
           f == [b \in 1..n |-> BoardAmount(pot, b, n)]
<1>1. \A b \in 1..n : f[b] \in Nat /\ f[b] = BoardAmount(pot, b, n)
  BY DEF BoardAmount
<1>2. CASE n = 1
  <2>1. 1..n = {1} /\ f[1] = a
    BY <1>2 DEF BoardAmount
  <2> HIDE DEF f, a
  <2>2. SumFunctionOnSet(f, {1}) = f[1]
    BY SMTT(60), <1>1, <2>1, SumOfOne
  <2> QED
    BY <1>1, <2>1, <2>2 DEF a, f
<1>3. CASE n = 2
  <2>1. 1..n = {1, 2} /\ f[1] + f[2] = a
    BY <1>3 DEF BoardAmount
  <2> HIDE DEF f, a
  <2>2. SumFunctionOnSet(f, {1, 2}) = f[1] + f[2]
    <3>1. f[1] \in Int /\ f[2] \in Int /\ 1 # 2
      BY <1>1, <2>1
    <3> QED
      BY <3>1, SumOfTwo
  <2> QED
    BY <1>1, <2>1, <2>2 DEF a, f
<1> QED
  BY <1>2, <1>3

\* Somebody wins a pot, and only players that can win it do.
LEMMA WinnersExist ==
  ASSUME NEW S, IsFiniteSet(S), NEW pot, pot.eligible \in (SUBSET S) \ {{}},
         NEW rank, \A p \in S : rank[p] \in Int
  PROVE  Winners(pot, rank) \in SUBSET S /\ Winners(pot, rank) # {}
<1>1. IsFiniteSet(pot.eligible) /\ pot.eligible # {} /\ pot.eligible \in SUBSET S
  BY FS_Subset
<1>2. PICK m \in pot.eligible : \A x \in pot.eligible : rank[x] <= rank[m]
  <2> DEFINE E == pot.eligible
  <2>1. IsFiniteSet(E) /\ E # {} /\ \A x \in E : rank[x] \in Int
    BY <1>1
  <2> HIDE DEF E
  <2>2. \E m \in E : \A x \in E : rank[x] <= rank[m]
    BY <2>1, GreatestExists
  <2> QED
    BY <2>2 DEF E
<1>3. \A x \in pot.eligible : rank[m] >= rank[x]
  BY <1>1, <1>2
<1> QED
  BY <1>1, <1>2, <1>3 DEF Winners

RanksOf(ranks, S) ==
    /\ Len(ranks) \in {1, 2} /\ DOMAIN ranks = 1..Len(ranks)
    /\ \A b \in 1..Len(ranks), p \in S : ranks[b][p] \in Int

Award(pot, ranks, dealer, p, b) ==
    Share(p, BoardAmount(pot, b, Len(ranks)), Winners(pot, ranks[b]), dealer)

WonFrom(S, pot, ranks, dealer) ==
    [p \in S |-> SumFunction([b \in DOMAIN ranks |-> Award(pot, ranks, dealer, p, b)])]

\* What a player takes from each pot.
Takes(S, pots, ranks, dealer, D, p) == [l \in D |-> WonFrom(S, pots[l], ranks, dealer)[p]]

\* A pot is paid out, whole, whoever wins it on each board.
LEMMA PotPaysOut ==
  ASSUME NEW S, SeatSet(S), NEW ranks, RanksOf(ranks, S),
         NEW pot \in [amount : Nat, eligible : (SUBSET S) \ {{}}], NEW dealer \in Int
  PROVE  /\ \A p \in S : WonFrom(S, pot, ranks, dealer)[p] \in Nat
         /\ SumFunctionOnSet(WonFrom(S, pot, ranks, dealer), S) = pot.amount
<1> DEFINE n == Len(ranks)
           B == 1..n
           Aw(p, b) == Award(pot, ranks, dealer, p, b)
           F == [p \in S |-> [b \in B |-> Aw(p, b)]]
           G == [b \in B |-> [p \in S |-> Aw(p, b)]]
           C == [b \in B |-> BoardAmount(pot, b, n)]
           won == WonFrom(S, pot, ranks, dealer)
<1>0. IsFiniteSet(S) /\ S \subseteq 0..8
  BY DEF SeatSet
<1>1. n \in {1, 2} /\ DOMAIN ranks = B /\ IsFiniteSet(B) /\ pot.amount \in Nat
  <2>1. n \in {1, 2} /\ DOMAIN ranks = B /\ pot.amount \in Nat
    BY DEF RanksOf
  <2>2. n \in Nat /\ 1 \in Nat
    BY <2>1
  <2>3. IsFiniteSet(B)
    BY <2>2, FS_Interval
  <2> QED
    BY <2>1, <2>3
<1>2. /\ \A b \in B : BoardAmount(pot, b, n) \in Nat
      /\ SumFunctionOnSet(C, B) = pot.amount
  BY <1>1, BoardsAddUp
<1>3. ASSUME NEW b \in B
      PROVE  /\ \A p \in S : Aw(p, b) \in Nat
             /\ SumFunctionOnSet(G[b], S) = C[b]
  <2> DEFINE W == Winners(pot, ranks[b])
             x == BoardAmount(pot, b, n)
  <2>1. W \in SUBSET S /\ W # {}
    <3>1. \A p \in S : ranks[b][p] \in Int
      BY DEF RanksOf
    <3>2. pot.eligible \in (SUBSET S) \ {{}}
      OBVIOUS
    <3> QED
      BY <1>0, <3>1, <3>2, WinnersExist
  <2>2. x \in Nat
    BY <1>2
  <2>3. G[b] = SharesOf(S, x, W, dealer) /\ C[b] = x
    BY DEF Award, SharesOf
  <2>4. \A p \in S : Aw(p, b) = SharesOf(S, x, W, dealer)[p]
    BY DEF Award, SharesOf
  <2> HIDE DEF W, x, Aw, G, C
  <2> QED
    <3>1. /\ \A p \in S : SharesOf(S, x, W, dealer)[p] \in Nat
          /\ SumFunctionOnSet(SharesOf(S, x, W, dealer), S) = x
      BY <1>0, <2>1, <2>2, SharesAddUp
    <3> QED
      BY <2>3, <2>4, <3>1
<1> HIDE DEF n, B, Aw
<1>4. Transposed(F, G, S, B)
  <2>1. \A p \in S, b \in B : F[p][b] = Aw(p, b) /\ G[b][p] = Aw(p, b)
    OBVIOUS
  <2> HIDE DEF F, G, C
  <2> QED
    BY <1>3, <2>1 DEF Transposed
<1>5. RowSums(F, won, S, B) /\ \A p \in S : won[p] = SumFunctionOnSet(F[p], B)
  <2>1. \A p \in S : won[p] = SumFunction([b \in B |-> Aw(p, b)]) /\ F[p] = [b \in B |-> Aw(p, b)]
    BY <1>1 DEF WonFrom, Aw
  <2>2. \A p \in S : DOMAIN F[p] = B
    OBVIOUS
  <2> HIDE DEF won, F, G, C
  <2> QED
    BY <2>1, <2>2 DEF RowSums, SumFunction
<1>6. RowSums(G, C, B, S)
  <2> HIDE DEF G, C
  <2> QED
    BY <1>3 DEF RowSums
<1>7. \A p \in S : won[p] \in Nat
  <2> HIDE DEF won
  <2> SUFFICES ASSUME NEW p \in S PROVE won[p] \in Nat
    OBVIOUS
  <2>1. \A b \in B : F[p][b] \in Nat
    BY <1>3
  <2> HIDE DEF F
  <2> QED
    BY <1>1, <1>5, <2>1, SumNatural
<1>8. SumFunctionOnSet(won, S) = SumFunctionOnSet(C, B)
  <2> HIDE DEF won, F, G, C
  <2> QED
    BY <1>0, <1>1, <1>4, <1>5, <1>6, SumSwap
<1> HIDE DEF C
<1>9. SumFunctionOnSet(won, S) = pot.amount
  BY <1>2, <1>8 DEF C
<1> QED
  BY <1>7, <1>9

LEMMA AwardIs ==
  ASSUME NEW S, NEW ranks, NEW D, NEW pots, PotsOf(pots, D, S), NEW dealer
  PROVE  /\ SettlePots(S, pots, ranks, dealer)
              = [p \in S |-> SumFunction(Takes(S, pots, ranks, dealer, D, p))]
         /\ \A p \in S : SettlePots(S, pots, ranks, dealer)[p]
                           = SumFunction(Takes(S, pots, ranks, dealer, D, p))
<1> DEFINE Won(l) == WonFrom(S, pots[l], ranks, dealer)
           awards == SettlePots(S, pots, ranks, dealer)
<1>1. DOMAIN pots = D
  BY DEF PotsOf
<1>2. \A l \in D, p \in S :
          Won(l)[p] = SumFunction([b \in DOMAIN ranks |->
                         Share(p, BoardAmount(pots[l], b, Len(ranks)),
                               Winners(pots[l], ranks[b]), dealer)])
  BY DEF WonFrom, Award
<1>3. awards = [p \in S |-> SumFunction([l \in D |->
                    SumFunction([b \in DOMAIN ranks |->
                         Share(p, BoardAmount(pots[l], b, Len(ranks)),
                               Winners(pots[l], ranks[b]), dealer)])])]
  BY <1>1 DEF SettlePots
<1> HIDE DEF Won, awards
<1>4. \A p \in S : [l \in D |-> SumFunction([b \in DOMAIN ranks |->
                         Share(p, BoardAmount(pots[l], b, Len(ranks)),
                               Winners(pots[l], ranks[b]), dealer)])] = [l \in D |-> Won(l)[p]]
  BY <1>2
<1>5. awards = [p \in S |-> SumFunction([l \in D |-> Won(l)[p]])]
  BY <1>3, <1>4
<1>6. awards = [p \in S |-> SumFunction(Takes(S, pots, ranks, dealer, D, p))]
  BY <1>5 DEF Won, Takes
<1>7. \A p \in S : awards[p] = SumFunction(Takes(S, pots, ranks, dealer, D, p))
  BY <1>6
<1> QED
  BY <1>6, <1>7 DEF awards

\* The pots are paid out, whole.
LEMMA AwardsAddUp ==
  ASSUME NEW S, SeatSet(S), NEW ranks, RanksOf(ranks, S),
         NEW D, NEW pots, PotsOf(pots, D, S), NEW dealer \in Int
  PROVE  LET awards == SettlePots(S, pots, ranks, dealer)
         IN  awards \in [S -> Nat] /\ SumFunctionOnSet(awards, S) = Gross(pots)
<1> DEFINE Won(l) == WonFrom(S, pots[l], ranks, dealer)
           F == [p \in S |-> [l \in D |-> Won(l)[p]]]
           G == [l \in D |-> Won(l)]
           a == Amounts(pots)
           awards == SettlePots(S, pots, ranks, dealer)
<1>0. IsFiniteSet(S) /\ S \subseteq 0..8
  BY DEF SeatSet
<1>1. /\ IsFiniteSet(D) /\ DOMAIN pots = D /\ Gross(pots) = SumFunctionOnSet(a, D)
      /\ \A l \in D : /\ pots[l] \in [amount : Nat, eligible : (SUBSET S) \ {{}}]
                      /\ a[l] = pots[l].amount
  BY PotsHaveAmounts
<1>2. awards = [p \in S |-> SumFunction([l \in D |-> Won(l)[p]])]
  BY AwardIs DEF Takes
<1> HIDE DEF a, awards
<1>3. ASSUME NEW l \in D
      PROVE  (\A p \in S : Won(l)[p] \in Nat) /\ SumFunctionOnSet(Won(l), S) = a[l]
  BY <1>1, PotPaysOut
<1> HIDE DEF Won
<1>4. Transposed(F, G, S, D)
  <2>1. \A p \in S, l \in D : F[p][l] = Won(l)[p] /\ G[l][p] = Won(l)[p]
    OBVIOUS
  <2> HIDE DEF F, G
  <2> QED
    BY <1>3, <2>1 DEF Transposed
<1>5. RowSums(F, awards, S, D) /\ \A p \in S : awards[p] = SumFunctionOnSet(F[p], D)
  <2>1. \A p \in S : F[p] = [l \in D |-> Won(l)[p]] /\ DOMAIN F[p] = D
    OBVIOUS
  <2>2. \A p \in S : awards[p] = SumFunction(F[p])
    BY <1>2, <2>1
  <2> HIDE DEF F
  <2> QED
    BY <2>1, <2>2 DEF RowSums, SumFunction
<1>6. RowSums(G, a, D, S)
  <2>1. \A l \in D : G[l] = Won(l)
    OBVIOUS
  <2> HIDE DEF G
  <2> QED
    BY <1>3, <2>1 DEF RowSums
<1>7. awards \in [S -> Nat]
  <2>1. \A p \in S : awards[p] \in Nat
    <3> SUFFICES ASSUME NEW p \in S PROVE awards[p] \in Nat
      OBVIOUS
    <3>1. \A l \in D : F[p][l] \in Nat
      BY <1>3
    <3> HIDE DEF F
    <3> QED
      BY <1>1, <1>5, <3>1, SumNatural
  <2> HIDE DEF F, G
  <2> QED
    BY <1>2, <2>1
<1>8. SumFunctionOnSet(awards, S) = SumFunctionOnSet(a, D)
  <2> HIDE DEF F, G
  <2> QED
    BY <1>0, <1>1, <1>4, <1>5, <1>6, SumSwap
<1> QED
  BY <1>1, <1>7, <1>8 DEF awards

LEMMA PotsAreRight ==
  ASSUME NEW S, NEW c, PutIn(c, S), NEW f, Buildable(c, f)
  PROVE  PotsOf(BuildPots(c, f), PotLevels(c), S)
<1> DEFINE D == PotLevels(c)
           pots == BuildPots(c, f)
<1>1. DOMAIN c = S
  BY DEF PutIn
<1>2. IsFiniteSet(D) /\ D \subseteq Nat /\ Amounts(pots) \in [D -> Nat]
  BY PotsAddUp
<1>3. DOMAIN pots = D /\ pots = [l \in D |-> pots[l]]
  BY DEF BuildPots
<1>4. \A l \in D : pots[l] \in [amount : Nat, eligible : (SUBSET S) \ {{}}]
  <2> SUFFICES ASSUME NEW l \in D
               PROVE  pots[l] \in [amount : Nat, eligible : (SUBSET S) \ {{}}]
    OBVIOUS
  <2>1. pots[l] = [amount |-> Step(c, l) * Cardinality(Participants(c, l)),
                   eligible |-> {p \in Participants(c, l) : ~f[p]}]
    BY DEF BuildPots
  <2>2. Amounts(pots)[l] = pots[l].amount /\ Amounts(pots)[l] \in Nat
    BY <1>2, <1>3 DEF Amounts
  <2>3. {p \in Participants(c, l) : ~f[p]} \in (SUBSET S) \ {{}}
    BY <1>1 DEF Buildable, Participants
  <2> HIDE DEF pots, D
  <2> QED
    BY <2>1, <2>2, <2>3
<1> HIDE DEF pots, D
<1>5. PotsOf(pots, D, S)
  BY <1>2, <1>3, <1>4 DEF PotsOf
<1> QED
  BY <1>5 DEF pots, D

\* A settlement s of the contributions c of the players S balances.
Balances(s, S, c, rake, flopDealt) ==
    /\ s.payouts \in [S -> Nat] /\ s.rake \in Nat
    /\ SumFunction(c) = SumFunction(s.payouts) + s.rake
    /\ s.rake <= rake.cap
    /\ s.rake * 10000 <= (SumFunction(c) - SumFunction(Refunds(c))) * rake.bps
    /\ ~flopDealt => s.rake = 0

\* Settlement of a hand, for any players, contributions, folds, rankings and boards:
\* what was put in is paid out or raked, and the rake is bounded by its cap and by
\* its percentage of what was contested, and needs a flop.  settleShowdown,
\* settleUncontested, buildPots, applyRake, settlePots.
THEOREM SettlementBalances ==
  ASSUME NEW S, SeatSet(S), NEW c, PutIn(c, S), NEW f,
         Buildable(c, f), NEW ranks, RanksOf(ranks, S), NEW dealer \in Int,
         NEW rake \in RakeRules, NEW flopDealt \in BOOLEAN
  PROVE  Balances(Settle(c, f, ranks, dealer, rake, flopDealt), S, c, rake, flopDealt)
<1> DEFINE D == PotLevels(c)
           pots == BuildPots(c, f)
           raked == ApplyRake(pots, rake, flopDealt)
           awards == SettlePots(S, raked.pots, ranks, dealer)
           refunds == Refunds(c)
           s == Settle(c, f, ranks, dealer, rake, flopDealt)
<1>0. IsFiniteSet(S) /\ S \subseteq 0..8
  BY DEF SeatSet
<1>1. DOMAIN c = S
  BY DEF PutIn
<1>2. /\ refunds \in [S -> Nat] /\ IsFiniteSet(D) /\ D \subseteq Nat
      /\ Amounts(pots) \in [D -> Nat]
      /\ SumFunction(c) = Gross(pots) + SumFunction(refunds)
  BY <1>1, PotsAddUp
<1>3. PotsOf(pots, D, S)
  BY PotsAreRight
<1>4. s.payouts = [p \in S |-> awards[p] + refunds[p]] /\ s.rake = raked.total
  BY <1>1 DEF Settle
<1> HIDE DEF pots, D, refunds, s
<1>5. /\ PotsOf(raked.pots, D, S) /\ raked.total = RakeTarget(pots, rake, flopDealt)
      /\ Gross(raked.pots) + raked.total = Gross(pots)
  BY <1>3, RakeBalances
<1>6. /\ raked.total \in Nat /\ raked.total <= rake.cap
      /\ raked.total * 10000 <= Gross(pots) * rake.bps
      /\ ~flopDealt => raked.total = 0
  BY <1>3, <1>5, TargetIs
<1> HIDE DEF raked
<1>7. awards \in [S -> Nat] /\ SumFunctionOnSet(awards, S) = Gross(raked.pots)
  BY <1>5, AwardsAddUp
<1> HIDE DEF awards
<1>8. s.payouts \in [S -> Nat] /\ Adds(awards, refunds, s.payouts, S)
  BY <1>2, <1>4, <1>7 DEF Adds
<1>9. SumFunction(s.payouts) = Gross(raked.pots) + SumFunction(refunds)
  <2>1. /\ DOMAIN s.payouts = S /\ DOMAIN refunds = S
        /\ SumFunctionOnSet(s.payouts, S)
             = SumFunctionOnSet(awards, S) + SumFunctionOnSet(refunds, S)
    BY <1>0, <1>2, <1>8, SumPlus
  <2> QED
    BY <1>7, <2>1 DEF SumFunction
<1>10. /\ Gross(raked.pots) \in Nat /\ Gross(pots) \in Nat /\ SumFunction(refunds) \in Nat
  <2>1. Gross(raked.pots) \in Nat /\ Gross(pots) \in Nat
    BY <1>3, <1>5, PotsHaveAmounts
  <2>2. SumFunction(refunds) = SumFunctionOnSet(refunds, S) /\ \A p \in S : refunds[p] \in Nat
    BY <1>2 DEF SumFunction
  <2> QED
    BY <1>0, <2>1, <2>2, SumNatural
<1>11. SumFunction(c) = SumFunction(s.payouts) + s.rake
  BY <1>2, <1>4, <1>5, <1>6, <1>9, <1>10
<1>12. Gross(pots) = SumFunction(c) - SumFunction(refunds)
  BY <1>2, <1>10
<1> QED
  BY <1>4, <1>6, <1>8, <1>11, <1>12 DEF s, refunds, Balances

----------------------------------------------------------------------------
(* Who wins what *)

\* A player wins at most the pots it is eligible for.
LEMMA AwardsWithin ==
  ASSUME NEW S, SeatSet(S), NEW ranks, RanksOf(ranks, S),
         NEW D, NEW pots, PotsOf(pots, D, S), NEW dealer \in Int, NEW p \in S,
         NEW T \in SUBSET D, \A l \in D \ T : p \notin pots[l].eligible
  PROVE  /\ SettlePots(S, pots, ranks, dealer)[p] \in Nat
         /\ SettlePots(S, pots, ranks, dealer)[p] <= SumFunctionOnSet(Amounts(pots), T)
<1> DEFINE Won(l) == WonFrom(S, pots[l], ranks, dealer)
           w == [l \in D |-> Won(l)[p]]
           award == SettlePots(S, pots, ranks, dealer)[p]
           a == Amounts(pots)
<1>1. /\ IsFiniteSet(D) /\ IsFiniteSet(S) /\ IsFiniteSet(T) /\ T \subseteq D
      /\ \A l \in D : /\ pots[l] \in [amount : Nat, eligible : (SUBSET S) \ {{}}]
                      /\ a[l] = pots[l].amount /\ a[l] \in Nat
  <2>1. IsFiniteSet(D) /\ IsFiniteSet(S)
    BY PotsHaveAmounts DEF SeatSet
  <2>2. IsFiniteSet(T)
    BY <2>1, FS_Subset
  <2> QED
    BY <2>1, <2>2, PotsHaveAmounts
<1>2. award = SumFunctionOnSet(w, D)
  <2>1. award = SumFunction(Takes(S, pots, ranks, dealer, D, p))
    BY AwardIs
  <2>2. Takes(S, pots, ranks, dealer, D, p) = w /\ DOMAIN w = D
    BY DEF Takes
  <2> HIDE DEF w, award
  <2> QED
    BY <2>1, <2>2 DEF SumFunction
<1> HIDE DEF award, a
<1>3. ASSUME NEW l \in D PROVE w[l] \in Nat /\ w[l] <= a[l]
  <2>1. /\ \A q \in S : Won(l)[q] \in Nat
        /\ SumFunctionOnSet(Won(l), S) = a[l]
    BY <1>1, PotPaysOut
  <2>2. w[l] = Won(l)[p]
    OBVIOUS
  <2> HIDE DEF w, Won
  <2>3. SumFunctionOnSet(Won(l), {p}) = Won(l)[p]
    <3>1. Won(l)[p] \in Int
      BY <2>1
    <3> QED
      BY <3>1, SumOfOne
  <2>4. SumFunctionOnSet(Won(l), {p}) <= SumFunctionOnSet(Won(l), S)
    BY <1>1, <2>1, SumOfPart
  <2> QED
    BY <2>1, <2>2, <2>3, <2>4
<1>4. ASSUME NEW l \in D \ T PROVE w[l] = 0
  <2> DEFINE pot == pots[l]
             g == [b \in DOMAIN ranks |-> Award(pot, ranks, dealer, p, b)]
  <2>1. ASSUME NEW b \in DOMAIN ranks PROVE g[b] = 0
    <3>1. p \notin Winners(pot, ranks[b])
      BY DEF Winners
    <3> QED
      BY <3>1 DEF Award, Share
  <2>2. IsFiniteSet(DOMAIN ranks) /\ DOMAIN g = DOMAIN ranks
    <3>1. DOMAIN ranks = 1..Len(ranks) /\ Len(ranks) \in Nat /\ 1 \in Nat
      BY DEF RanksOf
    <3> QED
      BY <3>1, FS_Interval
  <2>3. w[l] = SumFunction(g)
    BY DEF WonFrom
  <2> HIDE DEF g, w
  <2> QED
    BY <2>1, <2>2, <2>3, SumZero DEF SumFunction
<1> HIDE DEF w
<1>5. SumFunctionOnSet(w, D) = SumFunctionOnSet(w, T)
  <2>1. \A l \in T : w[l] \in Int
    BY <1>1, <1>3
  <2> QED
    BY <1>1, <1>4, <2>1, SumOnly
<1>6. SumFunctionOnSet(w, T) <= SumFunctionOnSet(a, T) /\ SumFunctionOnSet(w, T) \in Nat
  <2>1. \A l \in T : w[l] \in Nat /\ w[l] \in Int /\ a[l] \in Int /\ w[l] <= a[l]
    BY <1>1, <1>3
  <2> QED
    BY <1>1, <2>1, SumNotLarger, SumNatural
<1> QED
  BY <1>2, <1>5, <1>6 DEF award, a

\* What a player gets back is what nobody else put in.
LEMMA RefundIs ==
  ASSUME NEW S, NEW c, PutIn(c, S), NEW p \in S, NEW m \in Nat,
         \A q \in S \ {p} : c[q] <= m, m = 0 \/ \E q \in S \ {p} : c[q] = m
  PROVE  Refunds(c)[p] = IF c[p] <= m THEN 0 ELSE c[p] - m
<1> DEFINE Alone == {l \in Levels(c) : Participants(c, l) = {p}}
           g == [l \in Alone |-> Step(c, l)]
<1>0. /\ Levels(c) \subseteq Nat \ {0} /\ IsFiniteSet(Levels(c))
      /\ DOMAIN c = S /\ \A q \in S : c[q] \in Nat
  BY LevelsFinite DEF PutIn
<1>1. Refunds(c)[p] = SumFunctionOnSet(g, Alone)
  BY <1>0 DEF Refunds, SumFunction
<1> HIDE DEF g
<1>2. CASE c[p] <= m
  <2>1. ASSUME NEW l \in Alone PROVE FALSE
    <3>1. l \in Nat \ {0} /\ p \in Participants(c, l)
      BY <1>0
    <3>2. l <= c[p]
      BY <1>0, <3>1 DEF Participants
    <3>3. PICK q \in S \ {p} : c[q] = m
      BY <1>0, <1>2, <3>1, <3>2
    <3>4. q \in Participants(c, l)
      BY <1>0, <1>2, <3>1, <3>2, <3>3 DEF Participants
    <3> QED
      BY <3>3, <3>4
  <2>2. Alone = {}
    BY <2>1
  <2> QED
    BY <1>1, <1>2, <2>2, SumEmpty
<1>3. CASE c[p] > m
  <2> DEFINE l == c[p]
  <2>1. l \in Levels(c) /\ l \in Nat
    BY <1>0, <1>3 DEF Levels
  <2>2. Participants(c, l) = {p}
    BY <1>0, <1>3 DEF Participants
  <2>3. ASSUME NEW k \in Alone PROVE k = l
    <3>1. k \in Levels(c) /\ k \in Nat \ {0} /\ Participants(c, k) = {p}
      BY <1>0
    <3>2. PICK q \in S : c[q] = k
      BY <1>0, <3>1 DEF Levels
    <3>3. q \in Participants(c, k)
      BY <1>0, <3>1, <3>2 DEF Participants
    <3> QED
      BY <3>1, <3>2, <3>3
  <2>4. Alone = {l}
    BY <2>1, <2>2, <2>3
  <2>5. LevelBelow(c, l) = m
    <3>1. /\ LevelBelow(c, l) \in Levels(c) \cup {0} /\ LevelBelow(c, l) < l
          /\ LevelBelow(c, l) \in Nat
          /\ \A k \in Levels(c) : k < l => k <= LevelBelow(c, l)
      BY <2>1, LevelBelowIs
    <3>2. LevelBelow(c, l) <= m
      <4>1. CASE LevelBelow(c, l) \in Levels(c)
        <5>1. PICK q \in S : c[q] = LevelBelow(c, l)
          BY <1>0, <4>1 DEF Levels
        <5>2. q # p
          BY <2>1, <3>1, <5>1
        <5> QED
          BY <5>1, <5>2
      <4> QED
        BY <3>1, <4>1
    <3>3. m <= LevelBelow(c, l)
      <4>1. m = 0 \/ m \in Levels(c)
        BY <1>0 DEF Levels
      <4> QED
        BY <1>3, <3>1, <4>1
    <3> QED
      BY <3>1, <3>2, <3>3
  <2> HIDE DEF l
  <2>6. g[l] = l - m /\ l - m \in Int
    BY <2>1, <2>4, <2>5 DEF g, Step
  <2>7. SumFunctionOnSet(g, Alone) = l - m
    BY <2>4, <2>6, SumOfOne
  <2> QED
    BY <1>1, <1>3, <2>1, <2>7 DEF l
<1> QED
  BY <1>0, <1>2, <1>3

\* The pots that a player is in, with what it gets back, are what it put in and as
\* much from each of the others as that covers.
PotsWith(c, p) == {l \in PotLevels(c) : l <= c[p]}

LEMMA CoverSplits ==
  ASSUME NEW S, SeatSet(S), NEW c, PutIn(c, S), NEW p \in S
  PROVE  /\ SumFunctionOnSet(Slices(c), PotsWith(c, p)) + Refunds(c)[p]
              = SumFunctionOnSet(Capped(c, c[p]), S)
         /\ SumFunctionOnSet(Slices(c), PotsWith(c, p)) \in Nat /\ Refunds(c)[p] \in Nat
         /\ PotsWith(c, p) \in SUBSET PotLevels(c) /\ IsFiniteSet(PotsWith(c, p))
         /\ \A l \in PotLevels(c) \ PotsWith(c, p) : p \notin Participants(c, l)
         /\ \A l \in PotsWith(c, p) : p \in Participants(c, l)
<1> DEFINE D == PotLevels(c)
           Alone == {l \in Levels(c) : Participants(c, l) = {p}}
           T == {l \in D : l <= c[p]}
           U == UpTo(c, c[p])
<1>0. /\ IsFiniteSet(Levels(c)) /\ Levels(c) \subseteq Nat \ {0} /\ IsFiniteSet(S)
      /\ DOMAIN c = S /\ \A q \in S : c[q] \in Nat
      /\ D \subseteq Levels(c)
  BY LevelsFinite DEF PutIn, PotLevels
<1>1. /\ T \subseteq D /\ T \subseteq Levels(c) /\ Alone \subseteq Levels(c)
      /\ IsFiniteSet(T) /\ IsFiniteSet(Alone)
      /\ \A l \in Levels(c) : Slices(c)[l] \in Nat
  <2>1. T \subseteq Levels(c)
    BY <1>0
  <2>2. IsFiniteSet(T) /\ IsFiniteSet(Alone)
    BY <1>0, <2>1, FS_Subset
  <2> QED
    BY <2>1, <2>2, SliceIs
<1>2. /\ \A l \in D \ T : p \notin Participants(c, l)
      /\ \A l \in T : p \in Participants(c, l)
  BY <1>0 DEF Participants
<1>3. Refunds(c)[p] = SumFunctionOnSet(Slices(c), Alone)
  <2> DEFINE g == [l \in Alone |-> Step(c, l)]
  <2>1. Refunds(c)[p] = SumFunctionOnSet(g, Alone)
    BY <1>0 DEF Refunds, SumFunction
  <2>2. ASSUME NEW l \in Alone PROVE g[l] = Slices(c)[l]
    <3>1. Cardinality(Participants(c, l)) = 1
      BY FS_Singleton
    <3>2. l \in Levels(c) /\ l \notin PotLevels(c)
      BY <3>1 DEF PotLevels
    <3> QED
      BY <3>2, SliceIs DEF Steps
  <2> HIDE DEF g, Alone
  <2> QED
    BY <1>1, <2>1, <2>2, SumSame
<1>4. T \cup Alone = U /\ T \cap Alone = {}
  <2>1. ASSUME NEW l \in Alone PROVE l \in U /\ l \notin D
    <3>1. p \in Participants(c, l) /\ Cardinality(Participants(c, l)) = 1
      BY FS_Singleton
    <3> QED
      BY <1>0, <3>1 DEF Participants, UpTo, PotLevels
  <2>2. ASSUME NEW l \in U, l \notin D PROVE l \in Alone
    <3>1. l \in Levels(c) /\ p \in Participants(c, l)
      BY <1>0 DEF UpTo, Participants
    <3>2. IsFiniteSet(Participants(c, l)) /\ Participants(c, l) \subseteq S
      BY <1>0, FS_Subset DEF Participants
    <3>3. Cardinality(Participants(c, l)) \in Nat /\ Cardinality(Participants(c, l)) # 0
      BY <3>1, <3>2, FS_CardinalityType, FS_EmptySet
    <3>4. Cardinality(Participants(c, l)) = 1
      BY <2>2, <3>1, <3>3 DEF PotLevels
    <3>5. PICK q : Participants(c, l) = {q}
      BY <3>2, <3>4, FS_Singleton
    <3> QED
      BY <3>1, <3>5
  <2> QED
    BY <1>0, <2>1, <2>2 DEF UpTo
<1> HIDE DEF T, Alone
<1>5. /\ \A l \in T : Slices(c)[l] \in Nat
      /\ \A l \in Alone : Slices(c)[l] \in Nat
      /\ \A l \in T \cup Alone : Slices(c)[l] \in Int
  BY <1>1
<1>6. SumFunctionOnSet(Slices(c), T) + SumFunctionOnSet(Slices(c), Alone)
        = SumFunctionOnSet(Slices(c), U)
  BY <1>1, <1>4, <1>5, SumUnion
<1>7. SumFunctionOnSet(Slices(c), T) \in Nat /\ SumFunctionOnSet(Slices(c), Alone) \in Nat
  BY <1>1, <1>5, SumNatural
<1>8. SumFunctionOnSet(Slices(c), U) = SumFunctionOnSet(Capped(c, c[p]), S)
  <2>1. c[p] \in Levels(c) \cup {0}
    BY <1>0 DEF Levels
  <2> QED
    BY <2>1, SlicesAddUp
<1> QED
  BY <1>1, <1>2, <1>3, <1>6, <1>7, <1>8 DEF T, PotsWith

\* A player gets no more out than it put in for each of the others, its own included;
\* one that folded gets back what nobody matched.
LEMMA WinsWithin ==
  ASSUME NEW S, SeatSet(S), NEW c, PutIn(c, S), NEW f,
         Buildable(c, f), NEW ranks, RanksOf(ranks, S), NEW dealer \in Int,
         NEW rake \in RakeRules, NEW flopDealt \in BOOLEAN, NEW p \in S
  PROVE  LET s == Settle(c, f, ranks, dealer, rake, flopDealt)
         IN  /\ s.payouts[p] <= SumFunctionOnSet(Capped(c, c[p]), S)
             /\ f[p] => s.payouts[p] = Refunds(c)[p]
<1> DEFINE D == PotLevels(c)
           pots == BuildPots(c, f)
           raked == ApplyRake(pots, rake, flopDealt)
           net == raked.pots
           award == SettlePots(S, net, ranks, dealer)[p]
           s == Settle(c, f, ranks, dealer, rake, flopDealt)
           T == PotsWith(c, p)
<1>0. DOMAIN c = S /\ D \subseteq Levels(c)
  BY DEF PutIn, PotLevels
<1>1. /\ PotsOf(pots, D, S) /\ PotsOf(net, D, S)
      /\ \A l \in D : net[l].eligible = pots[l].eligible /\ net[l].amount <= pots[l].amount
  BY PotsAreRight, RakeBalances
<1>2. s.payouts[p] = award + Refunds(c)[p]
  BY <1>0 DEF Settle
<1>3. \A l \in D : /\ pots[l].eligible = {q \in Participants(c, l) : ~f[q]}
                   /\ pots[l].amount = Slices(c)[l]
  BY <1>0 DEF BuildPots, Slices
<1>4. /\ SumFunctionOnSet(Slices(c), T) + Refunds(c)[p] = SumFunctionOnSet(Capped(c, c[p]), S)
      /\ SumFunctionOnSet(Slices(c), T) \in Nat /\ Refunds(c)[p] \in Nat
      /\ T \in SUBSET D /\ IsFiniteSet(T)
      /\ \A l \in D \ T : p \notin Participants(c, l)
  BY CoverSplits
<1> HIDE DEF pots, raked, D, s, T
<1>5. ASSUME f[p] PROVE award = 0
  <2>1. {} \in SUBSET D /\ \A l \in D \ {} : p \notin net[l].eligible
    BY <1>1, <1>3, <1>5
  <2>2. award \in Nat /\ award <= SumFunctionOnSet(Amounts(net), {})
    BY <1>1, <2>1, AwardsWithin
  <2> QED
    BY <2>2, SumEmpty
<1>6. award \in Nat /\ award <= SumFunctionOnSet(Amounts(net), T)
  <2>1. \A l \in D \ T : p \notin net[l].eligible
    BY <1>1, <1>3, <1>4
  <2> QED
    BY <1>1, <1>4, <2>1, AwardsWithin
<1> HIDE DEF award
<1>7. /\ SumFunctionOnSet(Amounts(net), T) <= SumFunctionOnSet(Slices(c), T)
      /\ SumFunctionOnSet(Amounts(net), T) \in Int
  <2>1. \A l \in T : /\ Amounts(net)[l] \in Int /\ Slices(c)[l] \in Int
                     /\ Amounts(net)[l] <= Slices(c)[l]
    <3> SUFFICES ASSUME NEW l \in T
                 PROVE  /\ Amounts(net)[l] \in Int /\ Slices(c)[l] \in Int
                        /\ Amounts(net)[l] <= Slices(c)[l]
      OBVIOUS
    <3>1. l \in D /\ l \in Levels(c)
      BY <1>0, <1>4
    <3>2. Amounts(net)[l] = net[l].amount /\ Amounts(net)[l] \in Nat
      BY <1>1, <3>1, PotsHaveAmounts
    <3>3. Slices(c)[l] \in Nat
      BY <3>1, SliceIs
    <3> QED
      BY <1>1, <1>3, <3>1, <3>2, <3>3
  <2> HIDE DEF net
  <2> QED
    BY <1>4, <2>1, SumNotLarger, SumType
<1>8. s.payouts[p] <= SumFunctionOnSet(Capped(c, c[p]), S)
  <2> HIDE DEF net
  <2> QED
    BY <1>2, <1>4, <1>6, <1>7
<1> QED
  BY <1>2, <1>4, <1>5, <1>8 DEF s

\* The one best hand takes every pot it is in, but for the rake.
LEMMA BestHandTakes ==
  ASSUME NEW S, SeatSet(S), NEW c, PutIn(c, S), NEW f,
         Buildable(c, f), NEW ranks, RanksOf(ranks, S), NEW dealer \in Int,
         NEW rake \in RakeRules, NEW flopDealt \in BOOLEAN, NEW p \in S, ~f[p],
         \A b \in DOMAIN ranks, q \in S \ {p} : ~f[q] => ranks[b][p] > ranks[b][q]
  PROVE  LET s == Settle(c, f, ranks, dealer, rake, flopDealt)
         IN  s.payouts[p] >= SumFunctionOnSet(Capped(c, c[p]), S) - s.rake
<1> DEFINE D == PotLevels(c)
           pots == BuildPots(c, f)
           raked == ApplyRake(pots, rake, flopDealt)
           net == raked.pots
           award == SettlePots(S, net, ranks, dealer)[p]
           s == Settle(c, f, ranks, dealer, rake, flopDealt)
           T == PotsWith(c, p)
           w == Takes(S, net, ranks, dealer, D, p)
<1>0. DOMAIN c = S /\ D \subseteq Levels(c)
  BY DEF PutIn, PotLevels
<1>1. /\ PotsOf(pots, D, S) /\ PotsOf(net, D, S)
      /\ \A l \in D : net[l].eligible = pots[l].eligible /\ net[l].amount <= pots[l].amount
      /\ Gross(net) + raked.total = Gross(pots)
  BY PotsAreRight, RakeBalances
<1>2. s.payouts[p] = award + Refunds(c)[p] /\ s.rake = raked.total
  BY <1>0 DEF Settle
<1>3. \A l \in D : /\ pots[l].eligible = {q \in Participants(c, l) : ~f[q]}
                   /\ pots[l].amount = Slices(c)[l]
  BY <1>0 DEF BuildPots, Slices
<1>4. /\ SumFunctionOnSet(Slices(c), T) + Refunds(c)[p] = SumFunctionOnSet(Capped(c, c[p]), S)
      /\ SumFunctionOnSet(Slices(c), T) \in Nat /\ Refunds(c)[p] \in Nat
      /\ T \in SUBSET D /\ IsFiniteSet(T)
      /\ \A l \in T : p \in Participants(c, l)
  BY CoverSplits
<1>5. \A l \in D, q \in S : q \in pots[l].eligible => ~f[q]
  BY <1>3
<1> HIDE DEF pots, raked, D, s, T
<1>6. ASSUME NEW l \in T PROVE WonFrom(S, net[l], ranks, dealer)[p] = Amounts(net)[l]
  <2> DEFINE pot == net[l]
             won == WonFrom(S, pot, ranks, dealer)
  <2>1. /\ l \in D /\ pot \in [amount : Nat, eligible : (SUBSET S) \ {{}}]
        /\ p \in pot.eligible /\ \A q \in S : q \in pot.eligible => ~f[q]
        /\ Amounts(net)[l] = pot.amount
    BY <1>1, <1>3, <1>4, <1>5, PotsHaveAmounts
  <2> HIDE DEF net, pot
  <2>2. /\ \A q \in S : won[q] \in Nat
        /\ SumFunctionOnSet(won, S) = pot.amount
    BY <2>1, PotPaysOut
  <2>3. ASSUME NEW q \in S, q # p PROVE won[q] = 0
    <3> DEFINE g == [b \in DOMAIN ranks |-> Award(pot, ranks, dealer, q, b)]
    <3>1. ASSUME NEW b \in DOMAIN ranks PROVE g[b] = 0
      <4>1. q \notin Winners(pot, ranks[b])
        <5>1. SUFFICES ASSUME q \in Winners(pot, ranks[b]) PROVE FALSE
          OBVIOUS
        <5>2. q \in pot.eligible /\ ranks[b][p] > ranks[b][q]
          BY <2>1, <2>3, <5>1 DEF Winners
        <5>3. ranks[b][p] \in Int /\ ranks[b][q] \in Int
          BY DEF RanksOf
        <5>4. CASE Cardinality(pot.eligible) = 1
          <6>1. IsFiniteSet(pot.eligible)
            BY <2>1, FS_Subset DEF SeatSet
          <6>2. PICK x : pot.eligible = {x}
            BY <5>4, <6>1, FS_Singleton
          <6> QED
            BY <2>1, <2>3, <5>2, <6>2
        <5>5. CASE Cardinality(pot.eligible) # 1
          <6>1. ranks[b][q] >= ranks[b][p]
            BY <2>1, <5>1, <5>5 DEF Winners
          <6> QED
            BY <5>2, <5>3, <6>1
        <5> QED
          BY <5>4, <5>5
      <4> QED
        BY <4>1 DEF Award, Share
    <3>2. IsFiniteSet(DOMAIN ranks) /\ DOMAIN g = DOMAIN ranks
      <4>1. DOMAIN ranks = 1..Len(ranks) /\ Len(ranks) \in Nat /\ 1 \in Nat
        BY DEF RanksOf
      <4> QED
        BY <4>1, FS_Interval
    <3>3. won[q] = SumFunction(g)
      BY DEF WonFrom
    <3> HIDE DEF g, won
    <3> QED
      BY <3>1, <3>2, <3>3, SumZero DEF SumFunction
  <2>4. {p} \in SUBSET S /\ IsFiniteSet(S)
    BY DEF SeatSet
  <2> HIDE DEF won
  <2>5. /\ \A x \in {p} : won[x] \in Int
        /\ \A x \in S \ {p} : won[x] = 0
        /\ won[p] \in Int
    BY <2>2, <2>3
  <2>6. SumFunctionOnSet(won, S) = SumFunctionOnSet(won, {p})
    BY <2>4, <2>5, SumOnly
  <2>7. SumFunctionOnSet(won, {p}) = won[p]
    BY <2>5, SumOfOne
  <2> QED
    BY <2>1, <2>2, <2>6, <2>7 DEF won, pot
<1>7. award >= SumFunctionOnSet(Amounts(net), T) /\ award \in Int
  <2>1. award = SumFunction(w) /\ DOMAIN w = D
    BY <1>1, AwardIs DEF Takes
  <2>2. /\ \A l \in D : w[l] \in Nat
        /\ \A l \in T : w[l] = Amounts(net)[l]
    <3>1. ASSUME NEW l \in D PROVE w[l] \in Nat
      <4>1. net[l] \in [amount : Nat, eligible : (SUBSET S) \ {{}}]
        BY <1>1, PotsHaveAmounts
      <4>2. WonFrom(S, net[l], ranks, dealer)[p] \in Nat
        BY <4>1, PotPaysOut
      <4> QED
        BY <4>2 DEF Takes
    <3>2. ASSUME NEW l \in T PROVE w[l] = Amounts(net)[l]
      BY <1>4, <1>6 DEF Takes
    <3> QED
      BY <3>1, <3>2
  <2>3. IsFiniteSet(D)
    BY <1>1, PotsHaveAmounts
  <2> HIDE DEF w, award, net
  <2>4. award = SumFunctionOnSet(w, D)
    BY <2>1 DEF SumFunction
  <2>5. SumFunctionOnSet(w, T) <= SumFunctionOnSet(w, D)
    BY <1>4, <2>2, <2>3, SumOfPart
  <2>6. SumFunctionOnSet(w, T) = SumFunctionOnSet(Amounts(net), T)
    BY <1>4, <2>2, SumSame
  <2>7. SumFunctionOnSet(w, D) \in Nat
    BY <2>2, <2>3, SumNatural
  <2> QED
    BY <2>4, <2>5, <2>6, <2>7
<1> HIDE DEF award, w
<1>8. /\ SumFunctionOnSet(Slices(c), T) <= SumFunctionOnSet(Amounts(net), T) + raked.total
      /\ SumFunctionOnSet(Amounts(net), T) \in Int /\ raked.total \in Int
  <2> DEFINE R == D \ T
             a == Amounts(net)
             g == Amounts(pots)
  <2>1. /\ IsFiniteSet(D) /\ \A l \in D : a[l] \in Nat /\ g[l] \in Nat /\ a[l] <= g[l]
        /\ Gross(net) = SumFunctionOnSet(a, D) /\ Gross(pots) = SumFunctionOnSet(g, D)
        /\ \A l \in D : g[l] = Slices(c)[l]
    BY <1>1, <1>3, PotsHaveAmounts
  <2>2. /\ R \in SUBSET D /\ T \cup R = D /\ T \cap R = {} /\ IsFiniteSet(R)
    BY <1>4, <2>1, FS_Subset
  <2> HIDE DEF R, a, g, net
  <2>3. /\ \A l \in D : a[l] \in Int /\ g[l] \in Int
        /\ \A l \in R : a[l] \in Int /\ g[l] \in Int /\ a[l] <= g[l]
        /\ \A l \in T : a[l] \in Int /\ g[l] \in Int /\ g[l] = Slices(c)[l]
    BY <1>4, <2>1, <2>2
  <2>4. /\ SumFunctionOnSet(a, D) = SumFunctionOnSet(a, T) + SumFunctionOnSet(a, R)
        /\ SumFunctionOnSet(g, D) = SumFunctionOnSet(g, T) + SumFunctionOnSet(g, R)
    BY <1>4, <2>2, <2>3, SumUnion
  <2>5. SumFunctionOnSet(a, R) <= SumFunctionOnSet(g, R)
    BY <2>2, <2>3, SumNotLarger
  <2>6. SumFunctionOnSet(g, T) = SumFunctionOnSet(Slices(c), T)
    BY <1>4, <2>3, SumSame
  <2>7. /\ SumFunctionOnSet(a, R) \in Int /\ SumFunctionOnSet(g, R) \in Int
        /\ SumFunctionOnSet(a, T) \in Int /\ SumFunctionOnSet(g, T) \in Int
    BY <1>4, <2>2, <2>3, SumType
  <2>8. raked.total \in Int
    BY <1>1, TargetIs, RakeBalances DEF raked
  <2> QED
    BY <1>1, <2>1, <2>4, <2>5, <2>6, <2>7, <2>8 DEF a
<1> QED
  <2> HIDE DEF net
  <2> QED
    BY <1>2, <1>4, <1>7, <1>8 DEF s

\* Terms that differ by at most k add up to sums that differ by at most k for each.
LEMMA SumsClose ==
  ASSUME NEW f, NEW g, NEW S, IsFiniteSet(S), NEW k \in Nat,
         \A x \in S : f[x] \in Int /\ g[x] \in Int /\ f[x] - g[x] \in 0..k
  PROVE  SumFunctionOnSet(f, S) - SumFunctionOnSet(g, S) \in 0..(k * Cardinality(S))
<1> DEFINE d == [x \in S |-> f[x] - g[x]]
           z == [x \in S |-> 0]
           u == [x \in S |-> k]
<1>1. \A x \in S : /\ d[x] = f[x] - g[x] /\ d[x] \in Int /\ z[x] = 0 /\ u[x] = k
                   /\ z[x] \in Int /\ u[x] \in Int /\ z[x] <= d[x] /\ d[x] <= u[x]
  OBVIOUS
<1> HIDE DEF d, z, u
<1>2. Adds(g, d, f, S)
  <2>1. \A x \in S : f[x] = g[x] + d[x] /\ f[x] \in Int /\ g[x] \in Int /\ d[x] \in Int
    BY <1>1
  <2> QED
    BY <2>1 DEF Adds
<1>3. SumFunctionOnSet(f, S) = SumFunctionOnSet(g, S) + SumFunctionOnSet(d, S)
  BY <1>2, SumPlus
<1>4. SumFunctionOnSet(z, S) = 0 /\ SumFunctionOnSet(u, S) = k * Cardinality(S)
  BY <1>1, SumZero, SumConstant
<1>5. /\ SumFunctionOnSet(z, S) <= SumFunctionOnSet(d, S)
      /\ SumFunctionOnSet(d, S) <= SumFunctionOnSet(u, S)
  BY <1>1, SumNotLarger
<1>6. /\ SumFunctionOnSet(g, S) \in Int /\ SumFunctionOnSet(d, S) \in Int
      /\ k * Cardinality(S) \in Int
  <2>1. Cardinality(S) \in Nat
    BY FS_CardinalityType
  <2> QED
    BY <1>1, <2>1, SumType
<1> QED
  BY <1>3, <1>4, <1>5, <1>6

\* Of two winners of a pot the one nearer the button gets the odd chip, if one does.
LEMMA SharesDiffer ==
  ASSUME NEW W, IsFiniteSet(W), NEW amount \in Nat, NEW dealer \in Int,
         NEW p \in Int, NEW q \in Int, p \in W <=> q \in W, W # {}, W \subseteq Int,
         Clockwise(dealer, p) < Clockwise(dealer, q)
  PROVE  /\ Share(p, amount, W, dealer) \in Int /\ Share(q, amount, W, dealer) \in Int
         /\ Share(p, amount, W, dealer) - Share(q, amount, W, dealer) \in 0..1
<1> DEFINE n == Cardinality(W)
           quota == amount \div n
           odd == amount % n
           Ahead(x) == {w \in W : Clockwise(dealer, w) < Clockwise(dealer, x)}
           a == Cardinality(Ahead(p))
           b == Cardinality(Ahead(q))
<1>1. n \in Nat \ {0}
  BY FS_CardinalityType, FS_EmptySet
<1>2. quota \in Int /\ odd \in Int
  <2> HIDE DEF n
  <2> QED
    BY <1>1
<1>3. Ahead(p) \subseteq Ahead(q) /\ IsFiniteSet(Ahead(p)) /\ IsFiniteSet(Ahead(q))
  <2>1. \A x \in Int : Clockwise(dealer, x) \in Int
    BY DEF Clockwise
  <2>2. ASSUME NEW w \in Ahead(p) PROVE w \in Ahead(q)
    <3>1. /\ Clockwise(dealer, w) \in Int /\ Clockwise(dealer, p) \in Int
          /\ Clockwise(dealer, q) \in Int /\ w \in W
          /\ Clockwise(dealer, w) < Clockwise(dealer, p)
      BY <2>1
    <3>2. Clockwise(dealer, w) < Clockwise(dealer, q)
      BY <3>1
    <3> QED
      BY <3>1, <3>2
  <2> QED
    BY <2>2, FS_Subset
<1>4. a \in Int /\ b \in Int /\ a <= b
  <2> HIDE DEF Ahead
  <2> QED
    BY <1>3, FS_Subset, FS_CardinalityType
<1>5. \A x : Share(x, amount, W, dealer)
               = IF x \notin W THEN 0
                 ELSE quota + (IF Cardinality(Ahead(x)) < odd THEN 1 ELSE 0)
  BY DEF Share
<1> HIDE DEF n, quota, odd, Ahead
<1> QED
  BY <1>2, <1>4, <1>5

\* Two players who tie on every board, and put in the same.
LEMMA TieDiffers ==
  ASSUME NEW S, SeatSet(S), NEW c, PutIn(c, S), NEW f,
         Buildable(c, f), NEW ranks, RanksOf(ranks, S), NEW dealer \in Int,
         NEW rake \in RakeRules, NEW flopDealt \in BOOLEAN,
         NEW p \in S, NEW q \in S, ~f[p], ~f[q], c[p] = c[q],
         \A b \in DOMAIN ranks : ranks[b][p] = ranks[b][q],
         Clockwise(dealer, p) < Clockwise(dealer, q)
  PROVE  LET s == Settle(c, f, ranks, dealer, rake, flopDealt)
         IN  s.payouts[p] - s.payouts[q] \in 0..(Cardinality(PotLevels(c)) * Len(ranks))
<1> DEFINE D == PotLevels(c)
           B == DOMAIN ranks
           n == Len(ranks)
           pots == BuildPots(c, f)
           raked == ApplyRake(pots, rake, flopDealt)
           net == raked.pots
           awards == SettlePots(S, net, ranks, dealer)
           s == Settle(c, f, ranks, dealer, rake, flopDealt)
           Won(x) == Takes(S, net, ranks, dealer, D, x)
<1>0. /\ DOMAIN c = S /\ D \subseteq Levels(c) /\ Levels(c) \subseteq Nat \ {0}
      /\ IsFiniteSet(S) /\ S \subseteq 0..8 /\ p # q
      /\ \A x \in S : c[x] \in Nat
  <2>1. S \subseteq 0..8 /\ \A x \in S : c[x] \in Nat
    BY DEF PutIn, SeatSet
  <2>2. p # q
    <3>1. Clockwise(dealer, p) \in Int
      BY <2>1 DEF Clockwise
    <3> QED
      BY <3>1
  <2> QED
    BY <2>1, <2>2, LevelsFinite DEF PutIn, PotLevels
<1>1. PotsOf(pots, D, S) /\ PotsOf(net, D, S) /\ \A l \in D : net[l].eligible = pots[l].eligible
  BY PotsAreRight, RakeBalances
<1>2. \A l \in D : pots[l].eligible = {x \in Participants(c, l) : ~f[x]}
  BY <1>0 DEF BuildPots
<1>3. \A l \in D : p \in net[l].eligible <=> q \in net[l].eligible
  BY <1>0, <1>1, <1>2 DEF Participants
<1>4. /\ s.payouts[p] = awards[p] + Refunds(c)[p]
      /\ s.payouts[q] = awards[q] + Refunds(c)[q]
  BY <1>0 DEF Settle
<1>5. Refunds(c)[p] = 0 /\ Refunds(c)[q] = 0
  <2>1. \A l \in Levels(c) : Participants(c, l) # {p} /\ Participants(c, l) # {q}
    <3>1. \A l \in Levels(c) : p \in Participants(c, l) <=> q \in Participants(c, l)
      BY <1>0 DEF Participants
    <3> QED
      BY <1>0, <3>1
  <2>2. /\ {l \in Levels(c) : Participants(c, l) = {p}} = {}
        /\ {l \in Levels(c) : Participants(c, l) = {q}} = {}
    BY <2>1
  <2>3. ASSUME NEW x \in S, {l \in Levels(c) : Participants(c, l) = {x}} = {}
        PROVE  Refunds(c)[x] = 0
    <3> DEFINE Alone == {l \in Levels(c) : Participants(c, l) = {x}}
               g == [l \in Alone |-> Step(c, l)]
    <3>1. Refunds(c)[x] = SumFunction(g)
      BY <1>0 DEF Refunds
    <3>2. DOMAIN g = {}
      BY <2>3
    <3> HIDE DEF g
    <3> QED
      BY <3>1, <3>2, SumEmpty DEF SumFunction
  <2> QED
    BY <2>2, <2>3
<1> HIDE DEF pots, raked, s
<1>6. n \in {1, 2} /\ B = 1..n /\ n \in Nat /\ IsFiniteSet(B) /\ Cardinality(B) = n
  <2>1. n \in {1, 2} /\ B = 1..n /\ n \in Nat
    BY DEF RanksOf
  <2> HIDE DEF n
  <2>2. 1 \in Int /\ n \in Int /\ ~(1 > n) /\ n - 1 + 1 = n
    BY <2>1
  <2>3. IsFiniteSet(1..n) /\ Cardinality(1..n) = n
    <3>1. IsFiniteSet(1..n) /\ Cardinality(1..n) = IF 1 > n THEN 0 ELSE n - 1 + 1
      BY <2>2, FS_Interval
    <3> QED
      BY <2>2, <3>1
  <2> QED
    BY <2>1, <2>3
<1>7. ASSUME NEW l \in D
      PROVE  /\ Won(p)[l] \in Int /\ Won(q)[l] \in Int
             /\ Won(p)[l] - Won(q)[l] \in 0..n
  <2> DEFINE pot == net[l]
             gp == [b \in B |-> Award(pot, ranks, dealer, p, b)]
             gq == [b \in B |-> Award(pot, ranks, dealer, q, b)]
  <2>1. /\ pot \in [amount : Nat, eligible : (SUBSET S) \ {{}}]
        /\ p \in pot.eligible <=> q \in pot.eligible
    BY <1>1, <1>3, PotsHaveAmounts
  <2> HIDE DEF pot
  <2>2. /\ Won(p)[l] = SumFunction(gp) /\ Won(q)[l] = SumFunction(gq)
        /\ DOMAIN gp = B /\ DOMAIN gq = B
    BY DEF Takes, WonFrom, pot
  <2>3. ASSUME NEW b \in B
        PROVE  gp[b] \in Int /\ gq[b] \in Int /\ gp[b] - gq[b] \in 0..1
    <3> DEFINE W == Winners(pot, ranks[b])
               amount == BoardAmount(pot, b, n)
    <3>1. W \in SUBSET S /\ W # {}
      <4>1. \A x \in S : ranks[b][x] \in Int
        BY <1>6 DEF RanksOf
      <4>2. pot.eligible \in (SUBSET S) \ {{}}
        BY <2>1
      <4>3. IsFiniteSet(S)
        BY <1>0
      <4> HIDE DEF pot
      <4> QED
        BY <4>1, <4>2, <4>3, WinnersExist
    <3>2. p \in W <=> q \in W
      BY <2>1 DEF Winners
    <3>3. amount \in Nat
      BY <1>6, <2>1, BoardsAddUp
    <3>4. IsFiniteSet(W) /\ W \subseteq Int /\ p \in Int /\ q \in Int
      <4> HIDE DEF W
      <4>1. IsFiniteSet(S) /\ S \subseteq Int
        BY <1>0
      <4> QED
        BY <3>1, <4>1, FS_Subset
    <3>5. /\ gp[b] = Share(p, amount, W, dealer)
          /\ gq[b] = Share(q, amount, W, dealer)
      BY DEF Award
    <3> HIDE DEF W, amount, gp, gq
    <3>6. /\ Share(p, amount, W, dealer) \in Int /\ Share(q, amount, W, dealer) \in Int
          /\ Share(p, amount, W, dealer) - Share(q, amount, W, dealer) \in 0..1
      <4>1. dealer \in Int /\ Clockwise(dealer, p) < Clockwise(dealer, q) /\ W # {}
        BY <3>1
      <4> QED
        BY ONLY <3>2, <3>3, <3>4, <4>1, SharesDiffer
    <3> QED
      BY <3>5, <3>6
  <2> HIDE DEF gp, gq, Won
  <2>4. SumFunctionOnSet(gp, B) - SumFunctionOnSet(gq, B) \in 0..(1 * Cardinality(B))
    BY <1>6, <2>3, SumsClose
  <2>5. SumFunctionOnSet(gp, B) \in Int /\ SumFunctionOnSet(gq, B) \in Int
    BY <1>6, <2>3, SumType
  <2>6. Won(p)[l] = SumFunctionOnSet(gp, B) /\ Won(q)[l] = SumFunctionOnSet(gq, B)
    BY <2>2 DEF SumFunction
  <2> QED
    BY <1>6, <2>4, <2>5, <2>6
<1>8. IsFiniteSet(D) /\ Cardinality(D) \in Nat
  BY <1>1, PotsHaveAmounts, FS_CardinalityType
<1>9. /\ awards[p] = SumFunctionOnSet(Won(p), D)
      /\ awards[q] = SumFunctionOnSet(Won(q), D)
  <2>1. awards[p] = SumFunction(Won(p)) /\ awards[q] = SumFunction(Won(q))
    BY <1>1, AwardIs
  <2>2. DOMAIN Won(p) = D /\ DOMAIN Won(q) = D
    BY DEF Takes
  <2> HIDE DEF Won, awards
  <2> QED
    BY <2>1, <2>2 DEF SumFunction
<1> HIDE DEF Won, awards, n, D
<1>10. SumFunctionOnSet(Won(p), D) - SumFunctionOnSet(Won(q), D) \in 0..(n * Cardinality(D))
  BY <1>6, <1>7, <1>8, SumsClose
<1>11. SumFunctionOnSet(Won(p), D) \in Int /\ SumFunctionOnSet(Won(q), D) \in Int
  BY <1>7, <1>8, SumType
<1>12. n * Cardinality(D) = Cardinality(D) * n
  BY <1>6, <1>8
<1> QED
  BY <1>4, <1>5, <1>9, <1>10, <1>11, <1>12 DEF s, n, D

----------------------------------------------------------------------------
(* The hand that is settled *)

Payment ==
    LET h == settling.table
        s == Settle(h.contributed, h.folded, settling.ranks, Button, h.rake, h.flopDealt)
    IN  [done |-> TRUE, payouts |-> s.payouts, rake |-> s.rake]

HandsInv ==
    /\ settling.table \in Hands
    /\ settling.ranks \in RankingsOf(settling.table)
    /\ outcome = Unsettled \/ outcome = Payment

LEMMA HandsInvHolds == PayoutSpec => []HandsInv
<1>1. PayoutInit => HandsInv
  <2> SUFFICES ASSUME PayoutInit PROVE HandsInv
    OBVIOUS
  <2>1. PICK h \in Hands : settling \in {[table |-> h, ranks |-> r] : r \in RankingsOf(h)}
    BY DEF PayoutInit
  <2>2. settling.table = h /\ settling.ranks \in RankingsOf(h)
    BY <2>1
  <2> QED
    BY <2>2 DEF PayoutInit, HandsInv
<1>2. HandsInv /\ [SettleHand]_payoutVars => HandsInv'
  <2> SUFFICES ASSUME HandsInv, [SettleHand]_payoutVars PROVE HandsInv'
    OBVIOUS
  <2>1. settling' = settling /\ (outcome' = Payment \/ outcome' = outcome)
    BY DEF SettleHand, payoutVars, Payment
  <2>2. Payment' = Payment
    BY <2>1 DEF Payment
  <2> QED
    BY <2>1, <2>2 DEF HandsInv
<1> QED
  BY <1>1, <1>2, PTL DEF PayoutSpec

\* What the hand is made of.
Contributions == settling.table.contributed
Folds == settling.table.folded

LEMMA HandFacts ==
  ASSUME HandsInv
  PROVE  /\ SeatSet(Players) /\ PutIn(Contributions, Players)
         /\ Folds \in [Players -> BOOLEAN] /\ Buildable(Contributions, Folds)
         /\ RanksOf(settling.ranks, Players) /\ Button \in Int
         /\ settling.table.rake \in RakeRules /\ settling.table.flopDealt \in BOOLEAN
         /\ \A p \in Players : \E q \in Players : q # p
<1>1. /\ Players \subseteq 0..8 /\ MaxContribution \in Nat /\ Ranks \subseteq Int /\ Button \in Int
      /\ Rakes \subseteq RakeRules
  BY PayoutsAssumption DEF RakeRules, BasisPoints
<1>2. SeatSet(Players)
  <2>1. IsFiniteSet(0..8)
    <3>1. 0 \in Int /\ 8 \in Int
      OBVIOUS
    <3> QED
      BY <3>1, FS_Interval
  <2> QED
    BY <1>1, <2>1, FS_Subset DEF SeatSet
<1>3. /\ Contributions \in [Players -> 0..MaxContribution] /\ Folds \in [Players -> BOOLEAN]
      /\ settling.table.rake \in Rakes /\ settling.table.flopDealt \in BOOLEAN
      /\ settling.table.boards \in 1..2 /\ Buildable(Contributions, Folds)
      /\ \E p, q \in Players : p # q
  BY DEF HandsInv, Hands, Contributions, Folds
<1>4. PutIn(Contributions, Players)
  BY <1>1, <1>2, <1>3 DEF PutIn, SeatSet
<1>5. RanksOf(settling.ranks, Players)
  <2> DEFINE n == settling.table.boards
             r == settling.ranks
  <2>1. n \in {1, 2} /\ r \in [1..n -> [Players -> Ranks]]
    BY <1>3 DEF HandsInv, RankingsOf
  <2> HIDE DEF n, r
  <2>2. Len(r) = n /\ DOMAIN r = 1..n
    BY <2>1
  <2>3. \A b \in 1..n, p \in Players : r[b][p] \in Int
    BY <1>1, <2>1
  <2> QED
    BY <2>1, <2>2, <2>3 DEF RanksOf, r
<1>6. \A p \in Players : \E q \in Players : q # p
  BY <1>3
<1> QED
  BY SMTT(60), <1>1, <1>2, <1>3, <1>4, <1>5, <1>6

\* The outcome is what Settle returns for it.
LEMMA OutcomeIs ==
  ASSUME HandsInv, outcome.done
  PROVE  LET s == Settle(Contributions, Folds, settling.ranks, Button,
                         settling.table.rake, settling.table.flopDealt)
         IN  outcome.payouts = s.payouts /\ outcome.rake = s.rake
<1>1. outcome # Unsettled
  BY DEF Unsettled
<1> QED
  BY <1>1 DEF HandsInv, Payment, Contributions, Folds

\* The refund of the code is what nobody else matched.
LEMMA UnmatchedIs ==
  ASSUME HandsInv, NEW p \in Players
  PROVE  Refunds(Contributions)[p] = Unmatched(p)
<1> DEFINE c == Contributions
           others == {In(q) : q \in Players \ {p}}
           m == OthersTop(p)
<1>1. /\ SeatSet(Players) /\ PutIn(c, Players) /\ IsFiniteSet(Players)
      /\ \A q \in Players : c[q] \in Nat /\ In(q) = c[q]
      /\ \E q \in Players : q # p
  BY HandFacts DEF PutIn, In, Contributions
<1> HIDE DEF c
<1>2. IsFiniteSet(others) /\ others # {} /\ others \subseteq Nat
  <2> DEFINE g == [q \in Players \ {p} |-> c[q]]
  <2>1. IsFiniteSet(Players \ {p})
    BY <1>1, FS_Subset
  <2>2. g \in Surjection(Players \ {p}, others)
    BY <1>1 DEF Surjection
  <2>3. IsFiniteSet(others)
    <3> HIDE DEF g, others
    <3> QED
      BY <2>1, <2>2, FS_Surjection
  <2> QED
    BY <1>1, <2>3
<1>3. m \in others /\ \A x \in others : x <= m
  <2> HIDE DEF others
  <2>1. others \subseteq Int
    BY <1>2
  <2>2. Max(others) \in others /\ \A x \in others : x <= Max(others)
    BY <1>2, <2>1, MaxIn
  <2> QED
    BY <2>2 DEF OthersTop, others
<1> HIDE DEF m
<1>4. /\ m \in Nat /\ \A q \in Players \ {p} : c[q] <= m
      /\ \E q \in Players \ {p} : c[q] = m
  BY <1>1, <1>2, <1>3
<1>5. Refunds(c)[p] = IF c[p] <= m THEN 0 ELSE c[p] - m
  BY <1>1, <1>4, RefundIs
<1>6. Unmatched(p) = IF c[p] - m <= 0 THEN 0 ELSE c[p] - m
  <2>1. c[p] - m \in Int
    BY <1>1, <1>4
  <2> QED
    BY <1>1, <2>1, MaxWithZero DEF Unmatched, m
<1> QED
  BY <1>1, <1>4, <1>5, <1>6 DEF c

\* What a player covers is what everybody put in, up to its own contribution.
LEMMA CoveredIs ==
  ASSUME HandsInv, NEW p \in Players
  PROVE  /\ SumFunctionOnSet(Capped(Contributions, Contributions[p]), Players) = Covered(p)
         /\ Covered(p) \in Int
<1> DEFINE c == Contributions
           g == [q \in Players |-> Min({In(p), In(q)})]
<1>1. /\ IsFiniteSet(Players) /\ DOMAIN c = Players
      /\ \A q \in Players : c[q] \in Nat /\ In(q) = c[q]
  BY HandFacts DEF PutIn, In, Contributions
<1> HIDE DEF c
<1>2. \A q \in Players : Capped(c, c[p])[q] = g[q] /\ g[q] \in Int
  <2> SUFFICES ASSUME NEW q \in Players PROVE Capped(c, c[p])[q] = g[q] /\ g[q] \in Int
    OBVIOUS
  <2>1. g[q] = IF c[p] <= c[q] THEN c[p] ELSE c[q]
    <3>1. c[p] \in Int /\ c[q] \in Int /\ In(p) = c[p] /\ In(q) = c[q]
      BY <1>1
    <3> QED
      BY <3>1, MinOfTwo
  <2>2. Capped(c, c[p])[q] = IF c[q] <= c[p] THEN c[q] ELSE c[p]
    BY <1>1 DEF Capped
  <2> QED
    BY <1>1, <2>1, <2>2
<1>3. Covered(p) = SumFunction(g) /\ DOMAIN g = Players
  BY DEF Covered
<1> HIDE DEF g
<1>4. Covered(p) = SumFunctionOnSet(g, Players)
  BY <1>3 DEF SumFunction
<1> QED
  BY <1>1, <1>2, <1>4, SumSame, SumType DEF c

\* Of a settled hand: the chips that went in come out, the rake included, which is
\* bounded and needs a flop.  finishHand through settleShowdown, settleUncontested.
THEOREM Conserves == PayoutSpec => []SettlementConserves
<1>1. HandsInv => SettlementConserves
  <2> SUFFICES ASSUME HandsInv, outcome.done PROVE SettlementConserves
    BY DEF SettlementConserves
  <2> DEFINE c == Contributions
             s == Settle(c, Folds, settling.ranks, Button, settling.table.rake,
                         settling.table.flopDealt)
             u == [q \in Players |-> Unmatched(q)]
  <2>1. Balances(s, Players, c, settling.table.rake, settling.table.flopDealt)
    BY HandFacts, SettlementBalances
  <2>2. outcome.payouts = s.payouts /\ outcome.rake = s.rake
    BY OutcomeIs
  <2>3. Refunds(c) = u
    <3>1. DOMAIN Refunds(c) = Players /\ \A q \in Players : Refunds(c)[q] = u[q]
      BY HandFacts, UnmatchedIs DEF PutIn, Refunds
    <3>2. Refunds(c) \in [Players -> Nat]
      BY HandFacts, RefundsAddUp
    <3> QED
      BY <3>1, <3>2
  <2> HIDE DEF s, u
  <2>4. /\ SumFunction(s.payouts) + s.rake = SumFunction(c)
        /\ s.rake <= settling.table.rake.cap
        /\ s.rake * 10000 <= (SumFunction(c) - SumFunction(u)) * settling.table.rake.bps
        /\ ~settling.table.flopDealt => s.rake = 0
    BY <2>1, <2>3 DEF Balances
  <2> QED
    BY <2>2, <2>4 DEF SettlementConserves, Total, Contributions, u
<1> QED
  BY <1>1, HandsInvHolds, PTL

\* Of a settled hand: nobody wins from another more than it put in itself, and who
\* folded gets back what nobody matched.  buildPots, settlePots.
THEOREM WinsAreCovered == PayoutSpec => []NobodyWinsMoreThanCovered
<1>1. HandsInv => NobodyWinsMoreThanCovered
  <2> SUFFICES ASSUME HandsInv, outcome.done, NEW p \in Players
               PROVE  Paid(p) <= Covered(p) /\ (Out(p) => Paid(p) = Unmatched(p))
    BY DEF NobodyWinsMoreThanCovered
  <2> DEFINE c == Contributions
             s == Settle(c, Folds, settling.ranks, Button, settling.table.rake,
                         settling.table.flopDealt)
  <2>1. /\ s.payouts[p] <= SumFunctionOnSet(Capped(c, c[p]), Players)
        /\ Folds[p] => s.payouts[p] = Refunds(c)[p]
    BY HandFacts, WinsWithin
  <2>2. Paid(p) = s.payouts[p] /\ (Out(p) <=> Folds[p])
    BY OutcomeIs DEF Paid, Out, Folds
  <2> HIDE DEF s
  <2> QED
    BY <2>1, <2>2, UnmatchedIs, CoveredIs
<1> QED
  BY <1>1, HandsInvHolds, PTL

\* Of a settled hand: the best hand takes all that it covers, through every side pot,
\* but for the rake.  settlePots.
THEOREM BestCollects == PayoutSpec => []BestHandCollects
<1>1. HandsInv => BestHandCollects
  <2> SUFFICES ASSUME HandsInv, outcome.done, NEW p \in Players, ~Out(p),
                      \A b \in DOMAIN settling.ranks, q \in Players \ {p} :
                          ~Out(q) => settling.ranks[b][p] > settling.ranks[b][q]
               PROVE  Paid(p) \in (Covered(p) - outcome.rake)..Covered(p)
    BY DEF BestHandCollects
  <2> DEFINE c == Contributions
             s == Settle(c, Folds, settling.ranks, Button, settling.table.rake,
                         settling.table.flopDealt)
  <2>1. /\ ~Folds[p]
        /\ \A b \in DOMAIN settling.ranks, q \in Players \ {p} :
              ~Folds[q] => settling.ranks[b][p] > settling.ranks[b][q]
    BY DEF Out, Folds
  <2>4. s.payouts[p] <= SumFunctionOnSet(Capped(c, c[p]), Players)
    BY HandFacts, WinsWithin
  <2>5. s.payouts[p] >= SumFunctionOnSet(Capped(c, c[p]), Players) - s.rake
    BY <2>1, HandFacts, BestHandTakes
  <2>7. Balances(s, Players, c, settling.table.rake, settling.table.flopDealt)
    BY HandFacts, SettlementBalances
  <2>6. s.payouts[p] \in Int /\ s.rake \in Int
    <3> HIDE DEF s
    <3> QED
      BY <2>7 DEF Balances
  <2>3. Paid(p) = s.payouts[p] /\ outcome.rake = s.rake
    BY OutcomeIs DEF Paid
  <2> HIDE DEF s
  <2> QED
    BY <2>3, <2>4, <2>5, <2>6, CoveredIs
<1> QED
  BY <1>1, HandsInvHolds, PTL

\* Of a settled hand: who ties is paid the same, up to an odd chip for each pot and
\* board, which the first from the button gets.  oddChipOrder, settlePots.
THEOREM OddChipsFollowButton == PayoutSpec => []OddChipsClockwise
<1>1. HandsInv => OddChipsClockwise
  <2> SUFFICES ASSUME HandsInv, outcome.done, NEW p \in Players, NEW q \in Players,
                      ~Out(p), ~Out(q), In(p) = In(q),
                      \A b \in DOMAIN settling.ranks :
                          settling.ranks[b][p] = settling.ranks[b][q],
                      Clockwise(Button, p) < Clockwise(Button, q)
               PROVE  Paid(p) - Paid(q)
                        \in 0..(Cardinality(PotLevels(settling.table.contributed))
                                  * Len(settling.ranks))
    BY DEF OddChipsClockwise
  <2> DEFINE c == Contributions
             s == Settle(c, Folds, settling.ranks, Button, settling.table.rake,
                         settling.table.flopDealt)
  <2>1. ~Folds[p] /\ ~Folds[q] /\ c[p] = c[q]
    BY DEF Out, Folds, In, Contributions
  <2>2. s.payouts[p] - s.payouts[q] \in 0..(Cardinality(PotLevels(c)) * Len(settling.ranks))
    BY <2>1, HandFacts, TieDiffers
  <2>3. Paid(p) = s.payouts[p] /\ Paid(q) = s.payouts[q]
    BY OutcomeIs DEF Paid
  <2> HIDE DEF s
  <2> QED
    BY <2>2, <2>3 DEF Contributions
<1> QED
  BY <1>1, HandsInvHolds, PTL

----------------------------------------------------------------------------
(* The betting engine of the table *)

\* What is proved of a hand, for the hands of this table.
BP == INSTANCE Betting_proofs WITH
        Tables <- {S \in SUBSET SeatNumbers : Cardinality(S) >= 2},
        Stacks <- Nat \ {0},
        Antes <- {Ante},
        Straddles <- {0},
        Games <- {"NLH", "PLO4"}

LEMMA SubsetsAreSeatSets ==
  ASSUME NEW S, S \subseteq 0..8 PROVE SeatSet(S)
<1>1. IsFiniteSet(0..8)
  <2>1. \A a, b \in Int : IsFiniteSet(a..b)
    BY FS_Interval
  <2>2. 0 \in Int /\ 8 \in Int
    OBVIOUS
  <2> QED
    BY <2>1, <2>2
<1> QED
  BY <1>1, FS_Subset DEF SeatSet

LEMMA TwoSeats ==
  ASSUME NEW S, S \subseteq 0..8, Cardinality(S) >= 2 PROVE \E p, q \in S : p # q
<1>1. IsFiniteSet(S) /\ Cardinality(S) \in Nat
  BY SubsetsAreSeatSets, FS_CardinalityType DEF SeatSet
<1>2. S # {}
  BY <1>1, FS_EmptySet
<1>3. PICK p \in S : TRUE
  BY <1>2
<1>4. S # {p}
  BY SMTT(60), <1>1, FS_Singleton
<1> QED
  BY <1>3, <1>4

LEMMA EngineAssumptions == BP!SeatsAssumption /\ BP!ChipsAssumption /\ BP!GamesAssumption
<1>1. SeatNumbers \subseteq 0..8 /\ SmallBlind \in Nat \ {0} /\ BigBlind \in Nat
      /\ BigBlind >= SmallBlind /\ Ante \in Nat
  BY RulesAssumption
<1>2. BP!SeatsAssumption
  BY <1>1, TwoSeats DEF BP!SeatsAssumption
<1>3. BP!ChipsAssumption
  BY <1>1 DEF BP!ChipsAssumption
<1>4. BP!GamesAssumption
  BY DEF BP!GamesAssumption
<1> QED
  BY <1>2, <1>3, <1>4

\* The engine that the table runs is the one of the proofs.
LEMMA SameEngine ==
  /\ H!Seats = BP!Seats /\ H!CanAct = BP!CanAct /\ H!Live = BP!Live /\ H!NoSeat = BP!NoSeat
  /\ H!Pending = BP!Pending /\ H!RoundStatus = BP!RoundStatus
  /\ \A p \in BP!Seats : (H!Play(p) <=> BP!Play(p)) /\ (H!Timeout(p) <=> BP!Timeout(p))
  /\ (H!DealStreet <=> BP!DealStreet) /\ (H!DealRemainingBoard <=> BP!DealRemainingBoard)
<1> USE DEF H!Seats, BP!Seats, H!Live, BP!Live, H!CanAct, BP!CanAct, H!NoSeat, BP!NoSeat,
        H!Pending, BP!Pending, H!RoundComplete, BP!RoundComplete,
        H!OneLeftMatched, BP!OneLeftMatched, H!RoundStatus, BP!RoundStatus,
        H!Lowest, BP!Lowest, H!NextSeat, BP!NextSeat, H!Least, BP!Least,
        H!money, BP!money, H!SameStreet, BP!SameStreet, H!SameBet, BP!SameBet,
        H!FinishOrAdvance, BP!FinishOrAdvance, H!InTurn, BP!InTurn, H!ToCall, BP!ToCall
<1>1. /\ H!Seats = BP!Seats /\ H!CanAct = BP!CanAct /\ H!Live = BP!Live /\ H!NoSeat = BP!NoSeat
      /\ H!Pending = BP!Pending /\ H!RoundStatus = BP!RoundStatus
  OBVIOUS
<1>2. \A p \in BP!Seats : /\ H!FoldHand(p) <=> BP!FoldHand(p)
                          /\ H!CheckHand(p) <=> BP!CheckHand(p)
  BY DEF H!FoldHand, BP!FoldHand, H!CheckHand, BP!CheckHand
<1>3. \A p \in BP!Seats : /\ H!Fold(p) <=> BP!Fold(p)
                          /\ H!Check(p) <=> BP!Check(p)
                          /\ H!Timeout(p) <=> BP!Timeout(p)
  BY DEF H!FoldHand, BP!FoldHand, H!CheckHand, BP!CheckHand, H!Fold, BP!Fold, H!Check, BP!Check,
         H!Timeout, BP!Timeout
<1>11. H!Pot = BP!Pot
  BY DEF H!Pot, BP!Pot, H!SumFunction, BP!SumFunction, H!SumFunctionOnSet, BP!SumFunctionOnSet,
         H!FoldFunctionOnSet, BP!FoldFunctionOnSet, H!MapThenFoldSet, BP!MapThenFoldSet
<1> USE DEF H!PayTo, BP!PayTo, H!CallAmount, BP!CallAmount, H!AllInTarget, BP!AllInTarget
<1>4. \A p \in BP!Seats : H!Call(p) <=> BP!Call(p)
  BY DEF H!Call, BP!Call
<1>5. \A p \in BP!Seats : \A to : H!Increase(p, to) <=> BP!Increase(p, to)
  BY <1>11 DEF H!MaximumTarget, BP!MaximumTarget, H!MinimumTarget, BP!MinimumTarget,
         H!LegalTarget, BP!LegalTarget, H!FullRaise, BP!FullRaise, H!Increase, BP!Increase
<1>6. \A p \in BP!Seats : H!CanIncrease(p) <=> BP!CanIncrease(p)
  BY <1>11 DEF H!MaximumTarget, BP!MaximumTarget, H!CanIncrease, BP!CanIncrease
<1>7. \A p \in BP!Seats : \A to : /\ H!Bet(p, to) <=> BP!Bet(p, to)
                                  /\ H!Raise(p, to) <=> BP!Raise(p, to)
  BY <1>5, <1>6 DEF H!Bet, BP!Bet, H!Raise, BP!Raise
<1>8. \A p \in BP!Seats : H!AllIn(p) <=> BP!AllIn(p)
  BY <1>5 DEF H!AllIn, BP!AllIn
<1>9. \A p \in BP!Seats : H!Play(p) <=> BP!Play(p)
  BY <1>3, <1>4, <1>7, <1>8 DEF H!Play, BP!Play
<1>10. (H!DealStreet <=> BP!DealStreet) /\ (H!DealRemainingBoard <=> BP!DealRemainingBoard)
  BY DEF H!DealStreet, BP!DealStreet, H!DealRemainingBoard, BP!DealRemainingBoard,
         H!NextStreet, BP!NextStreet
<1> QED
  BY <1>1, <1>3, <1>9, <1>10

----------------------------------------------------------------------------
(* The invariant *)

SeatStatuses == {"SEATED", "PLAYING", "SITTING_OUT", "BUSTED"}
SeatRecords ==
    [stack : Nat, status : SeatStatuses, sitOutNextHand : BOOLEAN, leaving : BOOLEAN]

TableTyped ==
    /\ tableStatus \in {"WAITING", "HAND_ACTIVE"}
    /\ handNumber \in Nat /\ totalRake \in Nat /\ broughtIn \in Nat /\ takenOut \in Nat
    /\ button \in Int
    /\ Occupied \subseteq SeatNumbers /\ seats \in [Occupied -> SeatRecords]
    /\ wish \in [SeatNumbers -> {"play", "sit out", "leave"}]

\* A seat that is not in a hand: what its player asked for is done.
Idle(s) ==
    /\ ~seats[s].leaving /\ ~seats[s].sitOutNextHand /\ seats[s].status # "PLAYING"
    /\ wish[s] # "leave"
    /\ seats[s].stack > 0 => (seats[s].status = "SEATED" <=> wish[s] = "play")

\* A seat in a hand: what its player asked for is noted.
Playing(s) ==
    /\ seats[s].status = "PLAYING" /\ seats[s].stack = bought[s]
    /\ seats[s].leaving <=> wish[s] = "leave"
    /\ ~seats[s].leaving => (seats[s].sitOutNextHand <=> wish[s] = "sit out")

SeatsInv ==
    /\ DealtIn \subseteq Occupied
    /\ \A s \in DealtIn : Playing(s)
    /\ \A s \in Occupied \ DealtIn : Idle(s)
    /\ \A s \in SeatNumbers \ Occupied : wish[s] = "leave"

ChipsInv == SumFunctionOnSet(Chips(seats), Occupied) + totalRake + takenOut = broughtIn

\* The hand in progress is one that the engine can be in.
HandInv == BP!Inv /\ BP!StreetInv /\ (Ante <= 1 => BP!Stands \/ BP!Posts)

HandPart ==
    /\ tableStatus = "HAND_ACTIVE" => HandInv
    /\ tableStatus = "WAITING" => bought = NoFunction

TableInv == TableTyped /\ SeatsInv /\ ChipsInv /\ HandPart

----------------------------------------------------------------------------
(* The hand in progress *)

LEMMA HandIsTyped ==
  ASSUME HandInv
  PROVE  /\ DealtIn \subseteq 0..8 /\ SeatSet(DealtIn)
         /\ stack \in [DealtIn -> Nat] /\ contributed \in [DealtIn -> Nat]
         /\ folded \in [DealtIn -> BOOLEAN] /\ button \in Int
         /\ \A s \in DealtIn : stack[s] + contributed[s] = bought[s] /\ bought[s] \in Nat
<1>1. BP!Typed /\ BP!ChipsConserved
  BY DEF HandInv, BP!Inv
<1>2. BP!Seats = DealtIn
  BY DEF BP!Seats, DealtIn
<1>3. /\ BP!Seats \subseteq 0..8 /\ \A s \in BP!Seats : bought[s] \in Nat
      /\ \A s \in BP!Seats : s \in Int
  BY <1>1, EngineAssumptions, BP!SeatFacts
<1>4. /\ stack \in [DealtIn -> Nat] /\ contributed \in [DealtIn -> Nat]
      /\ folded \in [DealtIn -> BOOLEAN] /\ button \in DealtIn
  BY <1>1, <1>2 DEF BP!Typed
<1>5. \A s \in DealtIn : stack[s] + contributed[s] = bought[s]
  BY <1>1, <1>2 DEF BP!ChipsConserved
<1> QED
  BY <1>2, <1>3, <1>4, <1>5, SubsetsAreSeatSets

LEMMA HandGoesOn ==
  ASSUME HandInv, [BP!Next]_(BP!vars) PROVE HandInv'
<1>1. BP!Inv'
  BY EngineAssumptions, BP!NextKeeps DEF HandInv
<1>2. BP!StreetInv'
  BY EngineAssumptions, BP!NextKeepsStreet DEF HandInv
<1>3. ASSUME Ante <= 1 PROVE (BP!Stands \/ BP!Posts)'
  <2>1. BP!Stands \/ BP!Posts
    BY <1>3 DEF HandInv
  <2> QED
    BY <1>1, <1>2, <2>1, EngineAssumptions, BP!NextKeepsPosts DEF HandInv
<1> QED
  BY <1>1, <1>2, <1>3 DEF HandInv

LEMMA HandUnchanged ==
  ASSUME HandPart, UNCHANGED <<tableStatus, hand>> PROVE HandPart'
<1>1. BP!vars' = BP!vars /\ bought' = bought
  BY DEF hand, BP!vars, BP!money
<1> QED
  BY <1>1, HandGoesOn DEF HandPart

LEMMA ReadyFacts ==
  ASSUME TableTyped, StartHand
  PROVE  /\ Ready \subseteq 0..8 /\ Ready \subseteq SeatNumbers /\ Ready # {} /\ button \in Int
         /\ \A s \in Ready : seats[s].stack \in Nat \ {0}
<1>0. SeatNumbers \subseteq 0..8
  BY RulesAssumption
<1>1. Ready \subseteq SeatNumbers /\ button \in Int
  BY DEF Ready, TableTyped
<1>2. Ready # {}
  BY <1>0, <1>1, TwoSeats DEF StartHand
<1>3. ASSUME NEW s \in Ready PROVE seats[s].stack \in Nat \ {0}
  <2>1. seats[s] \in SeatRecords /\ seats[s].stack > 0
    BY DEF Ready, TableTyped, Occupied
  <2> DEFINE x == seats[s].stack
  <2>2. x \in Nat /\ x > 0
    BY <2>1 DEF SeatRecords
  <2> HIDE DEF x
  <2>3. x \in Nat \ {0}
    BY <2>2
  <2> QED
    BY <2>3 DEF x
<1> QED
  BY <1>0, <1>1, <1>2, <1>3

LEMMA ButtonFollows ==
  ASSUME TableTyped, StartHand PROVE NextButton \in Ready /\ NextButton \in Int
<1>1. BP!Lowest(Ready) \in Ready
  BY ReadyFacts, EngineAssumptions, BP!LowestIn
<1>2. BP!NextSeat(button, Ready) \in Ready
  BY ReadyFacts, EngineAssumptions, BP!NextSeatIn
<1>3. H!Lowest(Ready) = BP!Lowest(Ready) /\ H!NextSeat(button, Ready) = BP!NextSeat(button, Ready)
  BY DEF H!Lowest, BP!Lowest, H!NextSeat, BP!NextSeat, H!NoSeat, BP!NoSeat
<1> QED
  BY ReadyFacts, <1>1, <1>2, <1>3 DEF NextButton

\* The hand starts as createBettingState makes it.
LEMMA HandStarts ==
  ASSUME TableTyped, StartHand
  PROVE  /\ BP!Init' /\ DOMAIN bought' = Ready
         /\ \A s \in Ready : bought'[s] = seats[s].stack
<1>1. /\ Ready \subseteq 0..8 /\ Ready \subseteq SeatNumbers /\ Ready # {} /\ button \in Int
      /\ \A s \in Ready : seats[s].stack \in Nat \ {0}
  BY ReadyFacts
<1>2. NextButton \in Ready
  BY ButtonFollows
<1>3. PICK b \in {NextButton}, chips \in {[s \in Ready |-> seats[s].stack]} :
         LET paid == [p \in DOMAIN chips |-> H!AntePaid(chips[p], Ante)]
             behind == [p \in DOMAIN chips |-> chips[p] - paid[p]]
         IN  /\ bought' = chips
             /\ button' = b
             /\ streetContribution' = H!Posted(b, behind, 0)'
             /\ stack' = [p \in DOMAIN chips |-> behind[p] - streetContribution'[p]]
             /\ contributed' = [p \in DOMAIN chips |-> paid[p] + streetContribution'[p]]
             /\ folded' = [p \in DOMAIN chips |-> FALSE]
  BY DEF StartHand
<1> DEFINE paid == [p \in DOMAIN chips |-> H!AntePaid(chips[p], Ante)]
           behind == [p \in DOMAIN chips |-> chips[p] - paid[p]]
<1>4. chips \in [Ready -> Nat \ {0}] /\ DOMAIN chips = Ready /\ b \in Ready
      /\ \A s \in Ready : chips[s] = seats[s].stack
  BY <1>1, <1>2
<1>5. /\ bought' = chips /\ button' = b
      /\ streetContribution' = H!Posted(b, behind, 0)'
      /\ stack' = [p \in Ready |-> behind[p] - streetContribution'[p]]
      /\ contributed' = [p \in Ready |-> paid[p] + streetContribution'[p]]
      /\ folded' = [p \in Ready |-> FALSE]
  BY <1>3, <1>4
<1>6. BP!Seats' = Ready /\ H!Seats' = Ready
  BY SMTT(60), <1>4, <1>5 DEF BP!Seats, H!Seats
<1>7. Ready \in {S \in SUBSET SeatNumbers : Cardinality(S) >= 2} /\ NextGame \in {"NLH", "PLO4"}
  BY <1>1, RulesAssumption DEF StartHand, NextGame
<1>8. paid = [p \in BP!Seats |-> BP!AntePaid(bought[p], Ante)]'
  <2>1. \A p : /\ BP!AntePaid(bought[p], Ante)' = H!AntePaid(bought'[p], Ante)
              /\ H!AntePaid(bought'[p], Ante) = H!AntePaid(chips[p], Ante)
    BY <1>5 DEF H!AntePaid, BP!AntePaid, H!Least, BP!Least
  <2>2. [p \in BP!Seats |-> BP!AntePaid(bought[p], Ante)]'
          = [p \in Ready |-> BP!AntePaid(bought[p], Ante)']
    BY <1>6
  <2> QED
    BY <1>4, <2>1, <2>2
<1>9. behind = [p \in BP!Seats |-> bought[p] - [q \in BP!Seats |-> BP!AntePaid(bought[q], Ante)][p]]'
  BY <1>4, <1>5, <1>6, <1>8
<1> HIDE DEF paid, behind
<1>10. H!Posted(b, behind, 0)' = BP!Posted(b, behind, 0)'
  BY <1>6 DEF H!Posted, BP!Posted, H!SmallBlindSeat, BP!SmallBlindSeat, H!BigBlindSeat, BP!BigBlindSeat,
     H!StraddleSeat, BP!StraddleSeat, H!HeadsUp, BP!HeadsUp, H!NextSeat, BP!NextSeat, H!NoSeat, BP!NoSeat,
     H!Lowest, BP!Lowest, H!Least, BP!Least, H!Seats, BP!Seats
<1>11. H!FirstActor' = BP!FirstActor' /\ H!NoSeat = BP!NoSeat /\ H!RoundStatus' = BP!RoundStatus'
  BY DEF H!FirstActor, BP!FirstActor, H!SmallBlindSeat, BP!SmallBlindSeat, H!BigBlindSeat, BP!BigBlindSeat,
     H!StraddleSeat, BP!StraddleSeat, H!HeadsUp, BP!HeadsUp, H!NextSeat, BP!NextSeat, H!NoSeat, BP!NoSeat,
     H!Lowest, BP!Lowest, H!Seats, BP!Seats, H!CanAct, BP!CanAct, H!Live, BP!Live,
     H!RoundStatus, BP!RoundStatus, H!OneLeftMatched, BP!OneLeftMatched, H!RoundComplete, BP!RoundComplete
<1>12. /\ status' = IF actionSeat' = BP!NoSeat THEN BP!RoundStatus' ELSE "BETTING"
       /\ actionSeat' = BP!FirstActor' /\ winner' = BP!NoSeat /\ acted' = {} /\ boardSize' = 0
       /\ phase' = "PREFLOP" /\ currentBet' = BigBlind /\ lastFullRaiseSize' = BigBlind
       /\ game' = NextGame
  BY <1>11 DEF StartHand
<1>13. (\E ante \in {Ante}, straddle \in {0} :
          LET pd == [p \in BP!Seats |-> BP!AntePaid(bought[p], ante)]
              bh == [p \in BP!Seats |-> bought[p] - pd[p]]
          IN  /\ straddle > 0 =>
                   ~BP!HeadsUp /\ bh[BP!StraddleSeat(button)] >= straddle
              /\ streetContribution = BP!Posted(button, bh, straddle)
              /\ stack = [p \in BP!Seats |-> bh[p] - streetContribution[p]]
              /\ contributed = [p \in BP!Seats |-> pd[p] + streetContribution[p]]
              /\ currentBet = IF straddle > 0 THEN straddle ELSE BigBlind
              /\ lastFullRaiseSize = IF straddle > 0 THEN straddle - BigBlind ELSE BigBlind)'
  <2>1. streetContribution' = BP!Posted(b, behind, 0)'
    BY <1>5, <1>10
  <2> DEFINE pd == [p \in BP!Seats |-> BP!AntePaid(bought[p], Ante)]
             bh == [p \in BP!Seats |-> bought[p] - pd[p]]
  <2>2. pd' = paid /\ bh' = behind
    BY <1>8, <1>9
  <2>3. BP!Posted(b, behind, 0)' = BP!Posted(button, bh, 0)'
    BY <2>2, <1>5
  <2> HIDE DEF pd, bh
  <2>4. /\ streetContribution' = BP!Posted(button, bh, 0)'
        /\ stack' = [p \in BP!Seats' |-> bh'[p] - streetContribution'[p]]
        /\ contributed' = [p \in BP!Seats' |-> pd'[p] + streetContribution'[p]]
    BY <2>1, <2>2, <2>3, <1>5, <1>6
  <2> QED
    BY <2>4, <1>12 DEF pd, bh
<1>14. BP!Init'
  BY <1>4, <1>5, <1>6, <1>7, <1>12, <1>13 DEF BP!Init
<1> QED
  BY <1>4, <1>5, <1>14

LEMMA HandsBegin ==
  /\ BP!Init => BP!Inv /\ BP!StreetInv
  /\ Ante <= 1 /\ BP!Init => BP!Stands \/ BP!Posts
<1>1. BP!Init => BP!Inv /\ BP!StreetInv
  BY EngineAssumptions, BP!InitKeeps, BP!InitStreet
<1>2. ASSUME Ante <= 1, BP!Init PROVE BP!Stands \/ BP!Posts
  <2>1. BP!AntesCovered
    BY <1>2, RulesAssumption DEF BP!AntesCovered
  <2> QED
    BY <1>2, <2>1, EngineAssumptions, BP!InitPosts
<1> QED
  BY <1>1, <1>2

LEMMA HandBegins ==
  ASSUME TableTyped, StartHand PROVE HandInv' /\ tableStatus' = "HAND_ACTIVE"
<1>1. BP!Init'
  BY HandStarts
<1>2. /\ BP!Inv' /\ BP!StreetInv'
      /\ (Ante <= 1)' => (BP!Stands \/ BP!Posts)'
  BY <1>1, HandsBegin, PTL
<1>3. Ante <= 1 => (BP!Stands \/ BP!Posts)'
  BY <1>2
<1>4. tableStatus' = "HAND_ACTIVE"
  BY DEF StartHand
<1> QED
  BY <1>2, <1>3, <1>4 DEF HandInv

----------------------------------------------------------------------------
(* The seats *)

LEMMA SeatFacts ==
  ASSUME TableTyped
  PROVE  /\ IsFiniteSet(Occupied) /\ Occupied \subseteq SeatNumbers
         /\ \A s \in Occupied : /\ seats[s] \in SeatRecords /\ seats[s].stack \in Nat
                                /\ Chips(seats)[s] = seats[s].stack
<1>0. SeatNumbers \subseteq 0..8
  BY RulesAssumption
<1>1. Occupied \subseteq SeatNumbers
  BY DEF TableTyped
<1>2. IsFiniteSet(Occupied)
  BY <1>0, <1>1, SubsetsAreSeatSets DEF SeatSet
<1>3. \A s \in Occupied : seats[s] \in SeatRecords /\ seats[s].stack \in Nat
  BY DEF TableTyped, SeatRecords
<1>4. \A s \in Occupied : Chips(seats)[s] = seats[s].stack
  BY DEF Chips, Occupied
<1> QED
  BY <1>1, <1>2, <1>3, <1>4

LEMMA NoHandNoSeats == ASSUME bought = NoFunction PROVE DealtIn = {}
BY DEF DealtIn, NoFunction

LEMMA SeatPlayerKeeps ==
  ASSUME TableInv, NEW s \in SeatNumbers, NEW buyIn \in BuyIns, SeatPlayer(s, buyIn)
  PROVE  TableInv'
<1>1. /\ tableStatus = "WAITING" /\ s \notin Occupied /\ buyIn \in Nat \ {0} /\ DealtIn = {}
      /\ UNCHANGED <<tableStatus, handNumber, totalRake, hand, takenOut>>
      /\ broughtIn' = broughtIn + buyIn
      /\ wish' = [wish EXCEPT ![s] = "play"]
  BY RulesAssumption, NoHandNoSeats DEF SeatPlayer, TableInv, HandPart
<1>2. /\ Occupied' = Occupied \cup {s}
      /\ seats'[s] = [stack |-> buyIn, status |-> "SEATED", sitOutNextHand |-> FALSE, leaving |-> FALSE]
      /\ \A p \in Occupied : seats'[p] = seats[p]
      /\ seats' = [p \in Occupied' |-> seats'[p]]
  BY <1>1 DEF SeatPlayer, Occupied
<1>3. DealtIn' = {}
  BY <1>1 DEF hand, DealtIn
<1>4. TableTyped'
  <2>1. seats'[s] \in SeatRecords /\ \A p \in Occupied : seats'[p] \in SeatRecords
    BY <1>1, <1>2, SeatFacts DEF TableInv, SeatRecords, SeatStatuses
  <2>2. seats' \in [Occupied' -> SeatRecords]
    BY <1>2, <2>1
  <2>3. wish' \in [SeatNumbers -> {"play", "sit out", "leave"}]
    BY <1>1 DEF TableInv, TableTyped
  <2>4. Occupied' \subseteq SeatNumbers
    BY <1>2 DEF TableInv, TableTyped
  <2>5. /\ broughtIn \in Nat /\ handNumber \in Nat /\ totalRake \in Nat /\ takenOut \in Nat
        /\ button' = button /\ button \in Int
    BY <1>1 DEF TableInv, TableTyped, hand
  <2>6. broughtIn' \in Nat
    BY <1>1, <2>5
  <2> QED
    BY <1>1, <2>2, <2>3, <2>4, <2>5, <2>6 DEF TableTyped
<1>5. SeatsInv'
  <2>1. \A p \in Occupied : Idle(p)
    BY <1>1 DEF TableInv, SeatsInv
  <2>2. \A p \in SeatNumbers : wish'[p] = IF p = s THEN "play" ELSE wish[p]
    BY <1>1 DEF TableInv, TableTyped
  <2>3. \A p \in Occupied' : Idle(p)'
    <3>1. Idle(s)'
      BY <1>2, <2>2 DEF Idle
    <3>2. ASSUME NEW p \in Occupied PROVE Idle(p)'
      <4>1. Idle(p) /\ seats'[p] = seats[p] /\ wish'[p] = wish[p]
        BY <1>1, <1>2, <2>1, <2>2 DEF TableInv, TableTyped
      <4> QED
        BY <4>1 DEF Idle
    <3> QED
      BY <1>2, <3>1, <3>2
  <2>4. \A p \in SeatNumbers \ Occupied' : wish'[p] = "leave"
    BY <1>2, <2>2 DEF TableInv, SeatsInv
  <2> QED
    BY <1>3, <2>3, <2>4 DEF SeatsInv
<1>6. ChipsInv'
  <2>1. /\ IsFiniteSet(Occupied)
        /\ \A p \in Occupied : Chips(seats)[p] = seats[p].stack /\ seats[p].stack \in Nat
    BY SeatFacts DEF TableInv
  <2>2. \A p \in Occupied' : Chips(seats)'[p] = seats'[p].stack
    BY <1>2 DEF Chips, Occupied
  <2>3. Chips(seats)'[s] = buyIn /\ \A p \in Occupied : Chips(seats)'[p] = Chips(seats)[p]
    BY <1>2, <2>1, <2>2
  <2> DEFINE f == Chips(seats)
             g == Chips(seats)'
  <2>4. f' = g
    OBVIOUS
  <2> HIDE DEF f, g
  <2>5. SumFunctionOnSet(g, Occupied) = SumFunctionOnSet(f, Occupied)
    BY <2>1, <2>3, SumSame DEF f, g
  <2>6. SumFunctionOnSet(g, Occupied \cup {s}) = buyIn + SumFunctionOnSet(g, Occupied)
    <3>1. g[s] = buyIn /\ buyIn \in Int /\ \A p \in Occupied : g[p] \in Int
      BY <1>1, <2>1, <2>3 DEF f, g
    <3> QED
      BY <1>1, <2>1, <3>1, SumAdd
  <2>7. SumFunctionOnSet(f, Occupied) \in Nat
    BY <2>1, SumNatural DEF f
  <2>8. SumFunctionOnSet(f, Occupied) + totalRake + takenOut = broughtIn
    BY DEF TableInv, ChipsInv, f
  <2>9. SumFunctionOnSet(g, Occupied') + totalRake' + takenOut' = broughtIn'
    <3>1. totalRake \in Nat /\ takenOut \in Nat /\ buyIn \in Nat
      BY <1>1 DEF TableInv, TableTyped
    <3>2. SumFunctionOnSet(g, Occupied') = buyIn + SumFunctionOnSet(f, Occupied)
      BY <1>2, <2>5, <2>6
    <3> QED
      BY <1>1, <2>7, <2>8, <3>1, <3>2
  <2> QED
    BY <2>9 DEF ChipsInv, g
<1>7. HandPart'
  BY <1>1, HandUnchanged DEF TableInv
<1> QED
  BY SMTT(60), <1>4, <1>5, <1>6, <1>7 DEF TableInv

\* A request that leaves every player its seat and its stack.
LEMMA StacksStay ==
  ASSUME TableInv, TableTyped', Occupied' = Occupied,
         \A p \in Occupied : seats'[p].stack = seats[p].stack,
         UNCHANGED <<totalRake, takenOut, broughtIn>>
  PROVE  ChipsInv'
<1>1. /\ IsFiniteSet(Occupied)
      /\ \A p \in Occupied : Chips(seats)[p] = seats[p].stack
  BY SeatFacts DEF TableInv
<1>2. \A p \in Occupied' : Chips(seats)'[p] = seats'[p].stack
  BY DEF Chips, Occupied
<1> DEFINE f == Chips(seats)
           g == Chips(seats)'
<1>3. \A p \in Occupied : f[p] = g[p]
  BY <1>1, <1>2
<1> HIDE DEF f, g
<1>4. SumFunctionOnSet(f, Occupied) = SumFunctionOnSet(g, Occupied)
  BY <1>1, <1>3, SumSame
<1>5. SumFunctionOnSet(f, Occupied) + totalRake + takenOut = broughtIn
  BY DEF TableInv, ChipsInv, f
<1>6. SumFunctionOnSet(g, Occupied') + totalRake' + takenOut' = broughtIn'
  BY <1>4, <1>5
<1> QED
  BY <1>6 DEF ChipsInv, g

LEMMA RequestNoted ==
  ASSUME TableTyped, NEW s \in SeatNumbers, NEW what \in {"play", "sit out", "leave"}, Request(s, what)
  PROVE  /\ wish' \in [SeatNumbers -> {"play", "sit out", "leave"}]
         /\ wish'[s] = IF wish[s] = "leave" THEN "leave" ELSE what
         /\ \A p \in SeatNumbers : p # s => wish'[p] = wish[p]
BY DEF TableTyped, Request

\* A request concerns one player.
LEMMA OthersStay ==
  ASSUME TableInv, NEW s \in SeatNumbers, Occupied' \cup {s} = Occupied \cup {s}, DealtIn' = DealtIn,
         UNCHANGED bought, \A p \in Occupied' : p # s => seats'[p] = seats[p],
         \A p \in SeatNumbers : p # s => wish'[p] = wish[p]
  PROVE  /\ \A p \in DealtIn' : p # s => Playing(p)'
         /\ \A p \in Occupied' \ DealtIn' : p # s => Idle(p)'
         /\ \A p \in SeatNumbers \ Occupied' : p # s => wish'[p] = "leave"
<1>1. Occupied \subseteq SeatNumbers /\ SeatsInv
  BY DEF TableInv, TableTyped
<1>2. ASSUME NEW p \in DealtIn', p # s PROVE Playing(p)'
  <2>1. /\ p \in DealtIn /\ p \in Occupied' /\ seats'[p] = seats[p] /\ wish'[p] = wish[p]
        /\ bought'[p] = bought[p] /\ Playing(p)
    BY <1>1, <1>2 DEF SeatsInv
  <2> QED
    BY <2>1 DEF Playing
<1>3. ASSUME NEW p \in Occupied' \ DealtIn', p # s PROVE Idle(p)'
  <2>1. Idle(p) /\ seats'[p] = seats[p] /\ wish'[p] = wish[p]
    BY <1>1, <1>3 DEF SeatsInv
  <2> QED
    BY <2>1 DEF Idle
<1>4. ASSUME NEW p \in SeatNumbers \ Occupied', p # s PROVE wish'[p] = "leave"
  BY <1>1, <1>4 DEF SeatsInv
<1> QED
  BY <1>2, <1>3, <1>4

LEMMA SitOutKeeps ==
  ASSUME TableInv, NEW s \in SeatNumbers, SitOut(s) PROVE TableInv'
<1>1. /\ s \in Occupied /\ seats[s].status # "SITTING_OUT" /\ ~seats[s].sitOutNextHand
      /\ UNCHANGED <<tableStatus, handNumber, totalRake, hand, broughtIn, takenOut>>
      /\ Request(s, "sit out")
  BY DEF SitOut
<1>2. /\ Occupied' = Occupied /\ DealtIn' = DealtIn /\ seats' \in [Occupied -> SeatRecords]
      /\ \A p \in Occupied : p # s => seats'[p] = seats[p]
      /\ \A p \in Occupied : seats'[p].stack = seats[p].stack
      /\ seats'[s].leaving = seats[s].leaving
  BY <1>1 DEF SitOut, TableInv, TableTyped, Occupied, DealtIn, hand, SeatRecords, SeatStatuses
<1>3. /\ wish' \in [SeatNumbers -> {"play", "sit out", "leave"}]
      /\ wish'[s] = IF wish[s] = "leave" THEN "leave" ELSE "sit out"
      /\ \A p \in SeatNumbers : p # s => wish'[p] = wish[p]
  BY <1>1, RequestNoted DEF TableInv
<1>4. TableTyped'
  BY <1>1, <1>2, <1>3 DEF TableInv, TableTyped, hand
<1>5. SeatsInv'
  <2>0. /\ \A p \in DealtIn' : p # s => Playing(p)'
        /\ \A p \in Occupied' \ DealtIn' : p # s => Idle(p)'
        /\ \A p \in SeatNumbers \ Occupied' : p # s => wish'[p] = "leave"
    BY <1>1, <1>2, <1>3, OthersStay DEF hand
  <2>1. InHand(s) <=> s \in DealtIn
    BY NoHandNoSeats DEF InHand, TableInv, HandPart, TableTyped
  <2>2. CASE s \in DealtIn
    <3>1. seats'[s] = [seats[s] EXCEPT !.sitOutNextHand = TRUE]
      BY <1>1, <2>1, <2>2 DEF SitOut, TableInv, TableTyped, Occupied
    <3>2. seats[s] \in SeatRecords
      BY <1>1, SeatFacts DEF TableInv
    <3>3. Playing(s)'
      BY <1>1, <1>3, <2>2, <3>1, <3>2 DEF Playing, TableInv, SeatsInv, SeatRecords, hand
    <3> QED
      BY <1>1, <1>2, <2>0, <2>2, <3>3 DEF SeatsInv, TableInv
  <2>3. CASE s \notin DealtIn
    <3>1. seats'[s] = [seats[s] EXCEPT !.status = "SITTING_OUT"]
      BY <1>1, <2>1, <2>3 DEF SitOut, TableInv, TableTyped, Occupied
    <3>2. seats[s] \in SeatRecords
      BY <1>1, SeatFacts DEF TableInv
    <3>3. Idle(s)'
      BY <1>1, <1>3, <2>3, <3>1, <3>2 DEF Idle, TableInv, SeatsInv, SeatRecords
    <3> QED
      BY <1>1, <1>2, <2>0, <2>3, <3>3 DEF SeatsInv, TableInv
  <2> QED
    BY <2>2, <2>3
<1>6. ChipsInv'
  BY <1>1, <1>2, <1>4, StacksStay
<1>7. HandPart'
  BY <1>1, HandUnchanged DEF TableInv
<1> QED
  BY <1>4, <1>5, <1>6, <1>7 DEF TableInv

LEMMA ReturnKeeps ==
  ASSUME TableInv, NEW s \in SeatNumbers, ReturnPlayer(s) PROVE TableInv'
<1>1. /\ s \in Occupied /\ seats[s].stack > 0
      /\ UNCHANGED <<tableStatus, handNumber, totalRake, hand, broughtIn, takenOut>>
      /\ Request(s, "play")
      /\ seats' = [seats EXCEPT ![s].sitOutNextHand = FALSE,
                                ![s].status = IF InHand(s) THEN "PLAYING" ELSE "SEATED"]
  BY DEF ReturnPlayer
<1>2. /\ Occupied' = Occupied /\ DealtIn' = DealtIn /\ seats' \in [Occupied -> SeatRecords]
      /\ \A p \in Occupied : p # s => seats'[p] = seats[p]
      /\ \A p \in Occupied : seats'[p].stack = seats[p].stack
      /\ seats'[s].leaving = seats[s].leaving /\ seats'[s].sitOutNextHand = FALSE
      /\ seats'[s].status = IF InHand(s) THEN "PLAYING" ELSE "SEATED"
  BY <1>1 DEF TableInv, TableTyped, Occupied, DealtIn, hand, SeatRecords, SeatStatuses
<1>3. /\ wish' \in [SeatNumbers -> {"play", "sit out", "leave"}]
      /\ wish'[s] = IF wish[s] = "leave" THEN "leave" ELSE "play"
      /\ \A p \in SeatNumbers : p # s => wish'[p] = wish[p]
  BY <1>1, RequestNoted DEF TableInv
<1>4. TableTyped'
  BY <1>1, <1>2, <1>3 DEF TableInv, TableTyped, hand
<1>5. SeatsInv'
  <2>0. /\ \A p \in DealtIn' : p # s => Playing(p)'
        /\ \A p \in Occupied' \ DealtIn' : p # s => Idle(p)'
        /\ \A p \in SeatNumbers \ Occupied' : p # s => wish'[p] = "leave"
    BY <1>1, <1>2, <1>3, OthersStay DEF hand
  <2>1. InHand(s) <=> s \in DealtIn
    BY NoHandNoSeats DEF InHand, TableInv, HandPart, TableTyped
  <2>2. CASE s \in DealtIn
    <3>1. Playing(s)'
      BY ZenonT(60), <1>1, <1>2, <1>3, <2>1, <2>2 DEF Playing, TableInv, SeatsInv, hand
    <3> QED
      BY <1>1, <1>2, <1>3, <2>0, <2>2, <3>1 DEF SeatsInv, TableInv
  <2>3. CASE s \notin DealtIn
    <3>0. ~seats[s].leaving /\ wish[s] # "leave"
      BY <1>1, <2>3 DEF Idle, TableInv, SeatsInv
    <3>1. Idle(s)'
      BY <1>2, <1>3, <2>1, <2>3, <3>0 DEF Idle
    <3> QED
      BY <1>1, <1>2, <1>3, <2>0, <2>3, <3>1 DEF SeatsInv, TableInv
  <2> QED
    BY <2>2, <2>3
<1>6. ChipsInv'
  BY <1>1, <1>2, <1>4, StacksStay
<1>7. HandPart'
  BY <1>1, HandUnchanged DEF TableInv
<1> QED
  BY <1>4, <1>5, <1>6, <1>7 DEF TableInv

LEMMA LeaveKeeps ==
  ASSUME TableInv, NEW s \in SeatNumbers, Leave(s) PROVE TableInv'
<1>1. /\ s \in Occupied /\ Request(s, "leave")
      /\ UNCHANGED <<tableStatus, handNumber, totalRake, hand, broughtIn>>
  BY DEF Leave
<1>2. /\ wish' \in [SeatNumbers -> {"play", "sit out", "leave"}]
      /\ wish'[s] = "leave"
      /\ \A p \in SeatNumbers : p # s => wish'[p] = wish[p]
  BY <1>1, RequestNoted DEF TableInv
<1>3. DealtIn' = DealtIn /\ bought' = bought /\ button' = button
  BY <1>1 DEF DealtIn, hand
<1>4. InHand(s) <=> s \in DealtIn
  BY NoHandNoSeats DEF InHand, TableInv, HandPart, TableTyped
<1>5. HandPart'
  BY <1>1, HandUnchanged DEF TableInv
<1>6. CASE s \in DealtIn
  <2>1. seats' = [seats EXCEPT ![s].leaving = TRUE] /\ takenOut' = takenOut
    BY <1>4, <1>6 DEF Leave
  <2>2. /\ Occupied' = Occupied /\ seats' \in [Occupied -> SeatRecords]
        /\ \A p \in Occupied : p # s => seats'[p] = seats[p]
        /\ \A p \in Occupied : seats'[p].stack = seats[p].stack
        /\ seats'[s].leaving = TRUE /\ seats'[s].status = seats[s].status
    BY <1>1, <2>1 DEF TableInv, TableTyped, Occupied, SeatRecords
  <2>3. TableTyped'
    BY <1>1, <1>2, <1>3, <2>1, <2>2 DEF TableInv, TableTyped
  <2>4. Playing(s)'
    BY <1>1, <1>2, <1>3, <1>6, <2>2 DEF Playing, TableInv, SeatsInv
  <2>5. SeatsInv'
    <3>1. /\ \A p \in DealtIn' : p # s => Playing(p)'
          /\ \A p \in Occupied' \ DealtIn' : p # s => Idle(p)'
          /\ \A p \in SeatNumbers \ Occupied' : p # s => wish'[p] = "leave"
      BY <1>1, <1>2, <1>3, <2>2, OthersStay
    <3> QED
      BY <1>1, <1>2, <1>3, <1>6, <2>2, <2>4, <3>1 DEF SeatsInv, TableInv
  <2>6. ChipsInv'
    BY <1>1, <2>1, <2>2, <2>3, StacksStay
  <2> QED
    BY <1>5, <2>3, <2>5, <2>6 DEF TableInv
<1>7. CASE s \notin DealtIn
  <2>1. seats' = Restrict(seats, Occupied \ {s}) /\ takenOut' = takenOut + seats[s].stack
    BY <1>4, <1>7 DEF Leave
  <2>2. /\ Occupied' = Occupied \ {s} /\ seats' = [p \in Occupied' |-> seats'[p]]
        /\ \A p \in Occupied' : seats'[p] = seats[p]
    BY <2>1 DEF Occupied, Restrict
  <2>3. /\ IsFiniteSet(Occupied)
        /\ \A p \in Occupied : /\ seats[p] \in SeatRecords /\ seats[p].stack \in Nat
                               /\ Chips(seats)[p] = seats[p].stack
    BY SeatFacts DEF TableInv
  <2>4. TableTyped'
    <3>1. seats' \in [Occupied' -> SeatRecords] /\ Occupied' \subseteq SeatNumbers
      BY <2>2, <2>3 DEF TableInv, TableTyped
    <3>2. takenOut \in Nat /\ seats[s].stack \in Nat
      BY <1>1, <2>3 DEF TableInv, TableTyped
    <3>3. takenOut' \in Nat
      BY <2>1, <3>2
    <3> QED
      BY <1>1, <1>2, <1>3, <3>1, <3>3 DEF TableInv, TableTyped
  <2>5. SeatsInv'
    <3>1. /\ \A p \in DealtIn' : p # s => Playing(p)'
          /\ \A p \in Occupied' \ DealtIn' : p # s => Idle(p)'
          /\ \A p \in SeatNumbers \ Occupied' : p # s => wish'[p] = "leave"
      BY <1>1, <1>2, <1>3, <2>2, OthersStay
    <3> QED
      BY <1>1, <1>2, <1>3, <1>7, <2>2, <3>1 DEF SeatsInv, TableInv
  <2>6. ChipsInv'
    <3> DEFINE f == Chips(seats)
               g == Chips(seats)'
    <3>1. \A p \in Occupied' : g[p] = f[p]
      BY <2>2, <2>3 DEF Chips, Occupied
    <3>2. /\ f[s] = seats[s].stack /\ f[s] \in Int /\ IsFiniteSet(Occupied')
          /\ \A p \in Occupied : f[p] \in Int
      BY <1>1, <2>2, <2>3, FS_Subset
    <3>3. SumFunctionOnSet(f, Occupied) + totalRake + takenOut = broughtIn
      BY DEF TableInv, ChipsInv
    <3> HIDE DEF f, g
    <3>4. SumFunctionOnSet(g, Occupied') = SumFunctionOnSet(f, Occupied')
      BY <3>1, <3>2, SumSame
    <3>5. SumFunctionOnSet(f, Occupied) = f[s] + SumFunctionOnSet(f, Occupied')
      BY <1>1, <2>2, <2>3, <3>2, SumRemove
    <3>6. SumFunctionOnSet(f, Occupied') \in Int
      BY <2>2, <3>2, SumType
    <3>7. totalRake \in Nat /\ takenOut \in Nat
      BY DEF TableInv, TableTyped
    <3>8. SumFunctionOnSet(g, Occupied') + totalRake' + takenOut' = broughtIn'
      BY <1>1, <2>1, <3>2, <3>3, <3>4, <3>5, <3>6, <3>7
    <3> QED
      BY <3>8 DEF ChipsInv, g
  <2> QED
    BY <1>5, <2>4, <2>5, <2>6 DEF TableInv
<1> QED
  BY <1>6, <1>7

----------------------------------------------------------------------------
(* The steps of a hand *)

LEMMA StartHandKeeps ==
  ASSUME TableInv, StartHand PROVE TableInv'
<1>1. /\ tableStatus = "WAITING" /\ tableStatus' = "HAND_ACTIVE" /\ HandInv'
      /\ handNumber' = handNumber + 1 /\ UNCHANGED <<totalRake, history>>
      /\ seats' = [s \in Occupied |->
                    IF s \in Ready THEN [seats[s] EXCEPT !.status = "PLAYING"] ELSE seats[s]]
  BY HandBegins DEF StartHand, TableInv
<1>2. /\ DealtIn' = Ready /\ Ready \subseteq Occupied /\ DealtIn = {}
      /\ \A s \in Ready : bought'[s] = seats[s].stack
  BY <1>1, HandStarts, NoHandNoSeats DEF TableInv, HandPart, DealtIn, Ready
<1>3. /\ Occupied' = Occupied /\ \A s \in Occupied : seats'[s] = 
                    IF s \in Ready THEN [seats[s] EXCEPT !.status = "PLAYING"] ELSE seats[s]
  BY <1>1 DEF Occupied
<1>4. \A s \in Occupied : seats[s] \in SeatRecords
  BY SeatFacts DEF TableInv
<1>5. ASSUME NEW s \in Occupied
      PROVE  seats'[s] \in SeatRecords /\ seats'[s].stack = seats[s].stack
  BY <1>3, <1>4 DEF SeatRecords, SeatStatuses
<1>6. TableTyped'
  <2>1. seats' \in [Occupied -> SeatRecords]
    BY <1>1, <1>3, <1>5
  <2>2. button' \in Int
    <3>1. NextButton \in Int /\ button' = NextButton
      BY ButtonFollows DEF TableInv, StartHand
    <3> QED
      BY <3>1
  <2>3. /\ handNumber' \in Nat /\ totalRake' \in Nat /\ broughtIn' \in Nat /\ takenOut' \in Nat
        /\ wish' \in [SeatNumbers -> {"play", "sit out", "leave"}] /\ Occupied' \subseteq SeatNumbers
    <3>1. /\ handNumber \in Nat /\ totalRake \in Nat /\ broughtIn \in Nat /\ takenOut \in Nat
          /\ wish \in [SeatNumbers -> {"play", "sit out", "leave"}] /\ Occupied \subseteq SeatNumbers
      BY DEF TableInv, TableTyped
    <3>2. UNCHANGED <<totalRake, wish, broughtIn, takenOut>> /\ Occupied' = Occupied
      BY <1>1, <1>3 DEF history
    <3>3. handNumber' \in Nat
      <4>1. handNumber' = handNumber + 1 /\ handNumber \in Nat
        BY <1>1, <3>1
      <4> QED
        BY <4>1
    <3> QED
      BY <3>1, <3>2, <3>3
  <2> QED
    BY <1>1, <1>3, <2>1, <2>2, <2>3 DEF TableTyped
<1>7. SeatsInv'
  <2>1. wish' = wish
    BY <1>1 DEF history
  <2>2. \A s \in Occupied : Idle(s)
    BY <1>2 DEF TableInv, SeatsInv
  <2>3. ASSUME NEW s \in Ready PROVE Playing(s)'
    <3>1. /\ Idle(s) /\ seats[s].status = "SEATED" /\ seats[s].stack > 0
          /\ bought'[s] = seats[s].stack /\ seats[s] \in SeatRecords
          /\ seats'[s] = [seats[s] EXCEPT !.status = "PLAYING"]
      BY <1>2, <1>3, <1>4, <2>2 DEF Ready
    <3>2. wish[s] = "play"
      BY <3>1 DEF Idle
    <3> QED
      BY <2>1, <3>1, <3>2 DEF Playing, Idle, SeatRecords
  <2>4. ASSUME NEW s \in Occupied, s \notin Ready PROVE Idle(s)'
    <3>1. Idle(s) /\ seats'[s] = seats[s]
      BY <1>3, <2>2, <2>4
    <3> QED
      BY <2>1, <3>1 DEF Idle
  <2> QED
    BY <1>2, <1>3, <2>1, <2>3, <2>4 DEF SeatsInv, TableInv
<1>8. ChipsInv'
  BY <1>1, <1>3, <1>5, <1>6, StacksStay DEF history
<1>9. HandPart'
  BY <1>1 DEF HandPart
<1> QED
  BY <1>6, <1>7, <1>8, <1>9 DEF TableInv

\* A step of the engine.
LEMMA EngineStep ==
  ASSUME TableInv, tableStatus = "HAND_ACTIVE", BP!Next, UNCHANGED <<table, history>>
  PROVE  TableInv'
<1>1. HandInv /\ HandInv'
  BY HandGoesOn DEF TableInv, HandPart
<1>2. bought' = bought /\ button' = button
  <2>1. ASSUME NEW p \in BP!Seats, BP!Play(p) \/ BP!Timeout(p) PROVE bought' = bought /\ button' = button
    <3>1. BP!Moves(p)
      BY <1>1, <2>1, EngineAssumptions, BP!PlayMoves DEF HandInv
    <3> QED
      BY <3>1 DEF BP!Moves, BP!SameStreet
  <2>2. BP!DealStreet \/ BP!DealRemainingBoard => bought' = bought /\ button' = button
    BY DEF BP!DealStreet, BP!DealRemainingBoard
  <2> QED
    BY <2>1, <2>2 DEF BP!Next
<1>3. /\ UNCHANGED <<tableStatus, seats, handNumber, totalRake, wish, broughtIn, takenOut>>
      /\ Occupied' = Occupied /\ DealtIn' = DealtIn
  BY <1>2 DEF table, history, Occupied, DealtIn
<1>4. TableTyped'
  BY <1>2, <1>3 DEF TableInv, TableTyped
<1>5. SeatsInv'
  BY <1>2, <1>3 DEF TableInv, SeatsInv, Playing, Idle
<1>6. ChipsInv'
  BY <1>3 DEF TableInv, ChipsInv, Chips
<1>7. HandPart'
  BY <1>1, <1>3 DEF HandPart
<1> QED
  BY <1>4, <1>5, <1>6, <1>7 DEF TableInv

LEMMA EngineKeeps ==
  ASSUME TableInv, DealStreet \/ DealRunout \/ \E s \in SeatNumbers : Act(s) \/ Timeout(s)
  PROVE  TableInv'
<1>1. DealtIn = BP!Seats
  BY DEF DealtIn, BP!Seats
<1>2. tableStatus = "HAND_ACTIVE" /\ BP!Next /\ UNCHANGED <<table, history>>
  <2>1. ASSUME NEW s, Act(s) \/ Timeout(s)
        PROVE  tableStatus = "HAND_ACTIVE" /\ BP!Next /\ UNCHANGED <<table, history>>
    <3>1. s \in BP!Seats /\ (H!Play(s) \/ H!Timeout(s))
      BY <1>1, <2>1 DEF Act, Timeout, InHand
    <3>2. BP!Play(s) \/ BP!Timeout(s)
      BY <3>1, SameEngine
    <3> QED
      BY <2>1, <3>1, <3>2 DEF BP!Next, Act, Timeout, InHand
  <2>2. ASSUME DealStreet \/ DealRunout
        PROVE  tableStatus = "HAND_ACTIVE" /\ BP!Next /\ UNCHANGED <<table, history>>
    BY <2>2, SameEngine DEF BP!Next, DealStreet, DealRunout
  <2> QED
    BY <2>1, <2>2
<1> QED
  BY <1>2, EngineStep

----------------------------------------------------------------------------
(* The end of a hand *)

LEMMA RankingsRank ==
  ASSUME NEW rank \in Rankings, SeatSet(DealtIn) PROVE RanksOf(<<rank>>, DealtIn)
<1>1. Cardinality(DealtIn) \in Nat
  BY FS_CardinalityType DEF SeatSet
<1>2. \A p \in DealtIn : rank[p] \in Int
  BY <1>1 DEF Rankings
<1> QED
  BY <1>2 DEF RanksOf

\* What the settlement of the hand pays.
LEMMA HandIsSettled ==
  ASSUME HandInv, Buildable(contributed, folded), NEW rank \in Rankings
  PROVE  /\ Settlement(rank).payouts \in [DealtIn -> Nat] /\ Settlement(rank).rake \in Nat
         /\ Conserved(Settlement(rank))
<1> DEFINE ranks == <<rank>>
           flopDealt == boardSize >= 3
           q == Settle(contributed, folded, ranks, button, Rake, flopDealt)
<1>1. /\ SeatSet(DealtIn) /\ PutIn(contributed, DealtIn) /\ button \in Int /\ Rake \in RakeRules
      /\ RanksOf(ranks, DealtIn) /\ flopDealt \in BOOLEAN
  <2>1. /\ SeatSet(DealtIn) /\ contributed \in [DealtIn -> Nat] /\ button \in Int
    BY HandIsTyped
  <2>2. PutIn(contributed, DealtIn)
    BY SMTT(60), <2>1 DEF SeatSet, PutIn
  <2>3. Rake \in RakeRules
    BY RulesAssumption DEF RakeRules, BasisPoints
  <2>4. RanksOf(ranks, DealtIn)
    BY <2>1, RankingsRank
  <2>5. flopDealt \in BOOLEAN
    OBVIOUS
  <2> HIDE DEF ranks, flopDealt
  <2> QED
    BY <2>1, <2>2, <2>3, <2>4, <2>5
<1> HIDE DEF ranks, flopDealt
<1>3. Balances(q, DealtIn, contributed, Rake, flopDealt)
  BY <1>1, SettlementBalances
<1>2. /\ q.payouts \in [DealtIn -> Nat] /\ q.rake \in Nat
      /\ SumFunction(contributed) = SumFunction(q.payouts) + q.rake
  <2> HIDE DEF q
  <2> QED
    BY <1>3 DEF Balances
<1> HIDE DEF q
<1> QED
  BY <1>2 DEF q, ranks, flopDealt, Settlement, Conserved

\* The seats once the hand is over.
LEMMA SettledSeats ==
  ASSUME TableInv, HandInv, NEW payouts \in [DealtIn -> Nat]
  PROVE  /\ Settled(payouts) \in [Occupied -> SeatRecords]
         /\ \A s \in Occupied \ DealtIn : Settled(payouts)[s] = seats[s]
         /\ \A s \in DealtIn :
               /\ Settled(payouts)[s].stack = stack[s] + payouts[s]
               /\ Settled(payouts)[s].status = StatusAfter(stack[s] + payouts[s], seats[s])
               /\ Settled(payouts)[s].sitOutNextHand = FALSE
               /\ Settled(payouts)[s].leaving = seats[s].leaving
<1>1. DealtIn \subseteq Occupied /\ \A s \in Occupied : seats[s] \in SeatRecords
  BY SeatFacts DEF TableInv, SeatsInv
<1>2. ASSUME NEW s \in DealtIn
      PROVE  LET chips == stack[s] + payouts[s]
                 new == [seats[s] EXCEPT !.stack = chips,
                                         !.status = StatusAfter(chips, seats[s]),
                                         !.sitOutNextHand = FALSE]
             IN  /\ Settled(payouts)[s] = new /\ new \in SeatRecords
                 /\ new.stack = chips /\ new.status = StatusAfter(chips, seats[s])
                 /\ new.sitOutNextHand = FALSE /\ new.leaving = seats[s].leaving
  <2> DEFINE chips == stack[s] + payouts[s]
  <2>1. chips \in Nat
    BY HandIsTyped
  <2>2. /\ Settled(payouts)[s] = [seats[s] EXCEPT !.stack = chips,
                                                  !.status = StatusAfter(chips, seats[s]),
                                                  !.sitOutNextHand = FALSE]
        /\ seats[s] \in SeatRecords
    BY <1>1 DEF Settled
  <2>3. StatusAfter(chips, seats[s]) \in SeatStatuses
    BY DEF StatusAfter, SeatStatuses
  <2> DEFINE status1 == StatusAfter(chips, seats[s])
  <2> HIDE DEF chips, status1
  <2>4. [seats[s] EXCEPT !.stack = chips, !.status = status1, !.sitOutNextHand = FALSE] \in SeatRecords
    BY <2>1, <2>2, <2>3 DEF SeatRecords, status1
  <2> QED
    BY <2>2, <2>4 DEF SeatRecords, chips, status1
<1>3. \A s \in Occupied \ DealtIn : Settled(payouts)[s] = seats[s]
  BY DEF Settled
<1>4. Settled(payouts) = [s \in Occupied |-> Settled(payouts)[s]]
  BY DEF Settled
<1>5. \A s \in Occupied : Settled(payouts)[s] \in SeatRecords
  BY <1>1, <1>2, <1>3
<1> QED
  BY <1>2, <1>3, <1>4, <1>5

\* The chips of the seats are those of before, less the rake.
LEMMA ChipsSettled ==
  ASSUME TableInv, HandInv, NEW payouts \in [DealtIn -> Nat], NEW rake \in Nat,
         SumFunction(contributed) = SumFunction(payouts) + rake
  PROVE  SumFunctionOnSet(Chips(Settled(payouts)), Occupied) + rake
            = SumFunctionOnSet(Chips(seats), Occupied)
<1> DEFINE f == Chips(seats)
           g == Chips(Settled(payouts))
           A == Occupied \ DealtIn
<1>1. /\ IsFiniteSet(Occupied) /\ IsFiniteSet(DealtIn) /\ IsFiniteSet(A)
      /\ DealtIn \cap A = {} /\ Occupied = DealtIn \cup A
  <2>1. IsFiniteSet(Occupied) /\ DealtIn \subseteq Occupied
    BY SeatFacts DEF TableInv, SeatsInv
  <2> QED
    BY <2>1, FS_Subset
<1>2. /\ DOMAIN Settled(payouts) = Occupied
      /\ \A s \in A : g[s] = f[s] /\ f[s] \in Nat
      /\ \A s \in DealtIn : g[s] = stack[s] + payouts[s] /\ f[s] = bought[s]
  <2>1. DOMAIN Settled(payouts) = Occupied
    BY DEF Settled
  <2>2. \A s \in Occupied : f[s] = seats[s].stack /\ seats[s].stack \in Nat
    BY SeatFacts DEF TableInv
  <2>3. \A s \in Occupied : g[s] = Settled(payouts)[s].stack
    BY <2>1 DEF Chips
  <2>4. \A s \in DealtIn : seats[s].stack = bought[s]
    BY DEF TableInv, SeatsInv, Playing
  <2>5. /\ \A s \in Occupied \ DealtIn : Settled(payouts)[s] = seats[s]
        /\ \A s \in DealtIn : Settled(payouts)[s].stack = stack[s] + payouts[s]
    BY SettledSeats
  <2> HIDE DEF f, g
  <2>6. \A s \in DealtIn : g[s] = stack[s] + payouts[s] /\ f[s] = bought[s]
    BY <1>1, <2>2, <2>3, <2>4, <2>5
  <2>7. \A s \in A : g[s] = f[s] /\ f[s] \in Nat
    BY <2>2, <2>3, <2>5
  <2> QED
    BY <2>1, <2>6, <2>7
<1>3. \A s \in DealtIn : /\ stack[s] \in Int /\ payouts[s] \in Int /\ contributed[s] \in Int
                         /\ bought[s] = stack[s] + contributed[s]
  <2>1. \A s \in DealtIn : stack[s] \in Nat /\ contributed[s] \in Nat /\ payouts[s] \in Nat
                           /\ stack[s] + contributed[s] = bought[s]
    BY HandIsTyped
  <2> QED
    BY <2>1
<1> HIDE DEF f, g, A
<1>4. Adds(stack, payouts, g, DealtIn) /\ Adds(stack, contributed, f, DealtIn)
  BY <1>2, <1>3 DEF Adds
<1>5. /\ SumFunctionOnSet(g, DealtIn) = SumFunctionOnSet(stack, DealtIn) + SumFunctionOnSet(payouts, DealtIn)
      /\ SumFunctionOnSet(f, DealtIn) = SumFunctionOnSet(stack, DealtIn) + SumFunctionOnSet(contributed, DealtIn)
  BY <1>1, <1>4, SumPlus
<1>6. SumFunctionOnSet(contributed, DealtIn) = SumFunctionOnSet(payouts, DealtIn) + rake
  <2>1. DOMAIN contributed = DealtIn /\ DOMAIN payouts = DealtIn
    BY HandIsTyped
  <2> QED
    BY <2>1 DEF SumFunction
<1>7. SumFunctionOnSet(g, A) = SumFunctionOnSet(f, A)
  BY <1>1, <1>2, SumSame
<1>8. /\ \A s \in DealtIn : g[s] \in Int /\ f[s] \in Int
      /\ \A s \in A : g[s] \in Int /\ f[s] \in Int
  BY <1>2, <1>3
<1>9. /\ SumFunctionOnSet(g, Occupied) = SumFunctionOnSet(g, DealtIn) + SumFunctionOnSet(g, A)
      /\ SumFunctionOnSet(f, Occupied) = SumFunctionOnSet(f, DealtIn) + SumFunctionOnSet(f, A)
  BY <1>1, <1>8, SumUnion
<1>10. /\ SumFunctionOnSet(stack, DealtIn) \in Int /\ SumFunctionOnSet(payouts, DealtIn) \in Int
       /\ SumFunctionOnSet(contributed, DealtIn) \in Int /\ SumFunctionOnSet(f, A) \in Int
  BY <1>1, <1>3, <1>8, SumType
<1> QED
  BY <1>5, <1>6, <1>7, <1>9, <1>10 DEF f, g

LEMMA FinishHandKeeps ==
  ASSUME TableInv, FinishHand PROVE TableInv'
<1>1. /\ tableStatus = "HAND_ACTIVE" /\ tableStatus' = "WAITING" /\ HandInv
      /\ UNCHANGED <<handNumber, button, wish, broughtIn>>
      /\ bought' = NoFunction /\ Buildable(contributed, folded)
  BY DEF FinishHand, NoHand, TableInv, HandPart
<1>2. PICK rank \in Rankings :
         /\ seats' = Restrict(Settled(Settlement(rank).payouts), Occupied \ Gone)
         /\ totalRake' = totalRake + Settlement(rank).rake
         /\ takenOut' = takenOut
               + SumFunctionOnSet(Chips(Settled(Settlement(rank).payouts)), Gone)
  BY DEF FinishHand
<1> DEFINE payouts == Settlement(rank).payouts
           rake == Settlement(rank).rake
           settled == Settled(payouts)
<1>3. /\ payouts \in [DealtIn -> Nat] /\ rake \in Nat
      /\ SumFunction(contributed) = SumFunction(payouts) + rake
  BY <1>1, HandIsSettled DEF Conserved
<1> HIDE DEF payouts, rake
<1>4. /\ settled \in [Occupied -> SeatRecords]
      /\ \A s \in Occupied \ DealtIn : settled[s] = seats[s]
      /\ \A s \in DealtIn :
               /\ settled[s].stack = stack[s] + payouts[s]
               /\ settled[s].status = StatusAfter(stack[s] + payouts[s], seats[s])
               /\ settled[s].sitOutNextHand = FALSE
               /\ settled[s].leaving = seats[s].leaving
  BY <1>1, <1>3, SettledSeats
<1>5. /\ seats' = Restrict(settled, Occupied \ Gone) /\ totalRake' = totalRake + rake
      /\ takenOut' = takenOut + SumFunctionOnSet(Chips(settled), Gone)
  BY <1>2 DEF payouts, rake
<1>6. SumFunctionOnSet(Chips(settled), Occupied) + rake = SumFunctionOnSet(Chips(seats), Occupied)
  BY <1>1, <1>3, ChipsSettled
<1> HIDE DEF settled
<1>7. /\ Occupied' = Occupied \ Gone /\ DealtIn' = {}
      /\ \A s \in Occupied' : seats'[s] = settled[s]
      /\ seats' = [s \in Occupied' |-> settled[s]]
  BY <1>1, <1>5, NoHandNoSeats DEF Occupied, Restrict, DealtIn, NoFunction
<1>8. /\ IsFiniteSet(Occupied) /\ IsFiniteSet(Gone) /\ IsFiniteSet(Occupied') /\ Gone \subseteq Occupied
      /\ Occupied' \cup Gone = Occupied /\ Occupied' \cap Gone = {} /\ Occupied \subseteq SeatNumbers
  <2>1. IsFiniteSet(Occupied) /\ Gone \subseteq Occupied /\ Occupied \subseteq SeatNumbers
    BY SeatFacts DEF TableInv, Gone
  <2> QED
    BY <1>7, <2>1, FS_Subset
<1> DEFINE g == Chips(settled)
           kept == Chips(seats)'
<1>9. /\ \A s \in Occupied : g[s] \in Nat
      /\ \A s \in Occupied' : kept[s] = g[s]
  <2>1. \A s \in Occupied : g[s] = settled[s].stack /\ settled[s].stack \in Nat
    BY <1>4 DEF Chips, SeatRecords
  <2>2. \A s \in Occupied' : kept[s] = seats'[s].stack
    BY DEF Chips, Occupied
  <2> HIDE DEF g, kept
  <2> QED
    BY <1>7, <1>8, <2>1, <2>2
<1> HIDE DEF g, kept
<1>10. SumFunctionOnSet(g, Gone) \in Nat
  BY <1>8, <1>9, SumNatural
<1>11. TableTyped'
  <2>1. seats' \in [Occupied' -> SeatRecords] /\ Occupied' \subseteq SeatNumbers
    BY <1>4, <1>7, <1>8
  <2>2. /\ totalRake \in Nat /\ takenOut \in Nat /\ handNumber \in Nat /\ broughtIn \in Nat
        /\ button \in Int /\ wish \in [SeatNumbers -> {"play", "sit out", "leave"}]
    BY DEF TableInv, TableTyped
  <2>3. totalRake' \in Nat /\ takenOut' \in Nat
    <3>1. takenOut' = takenOut + SumFunctionOnSet(g, Gone) /\ totalRake' = totalRake + rake
      BY <1>5 DEF g
    <3>2. totalRake \in Nat /\ takenOut \in Nat
      BY <2>2
    <3> QED
      BY <1>3, <1>10, <3>1, <3>2
  <2> QED
    BY <1>1, <2>1, <2>2, <2>3 DEF TableTyped
<1>12. SeatsInv'
  <2>1. wish' = wish /\ SeatsInv /\ \A s \in Occupied : wish[s] \in {"play", "sit out", "leave"}
    BY <1>1, <1>8 DEF TableInv, TableTyped
  <2>2. ASSUME NEW s \in Occupied' PROVE Idle(s)'
    <3>1. s \in Occupied /\ ~seats[s].leaving /\ seats'[s] = settled[s] /\ wish'[s] = wish[s]
      BY <1>7, <2>1 DEF Gone
    <3>2. CASE s \notin DealtIn
      <4>1. Idle(s) /\ seats'[s] = seats[s]
        BY <1>4, <2>1, <3>1, <3>2 DEF SeatsInv
      <4> QED
        BY <3>1, <4>1 DEF Idle
    <3>3. CASE s \in DealtIn
      <4> DEFINE chips == stack[s] + payouts[s]
      <4>1. Playing(s) /\ wish[s] \in {"play", "sit out", "leave"} /\ seats[s] \in SeatRecords
        BY <2>1, <3>1, <3>3, SeatFacts DEF SeatsInv, TableInv
      <4>2. wish[s] # "leave" /\ (seats[s].sitOutNextHand <=> wish[s] = "sit out")
        BY <3>1, <4>1 DEF Playing
      <4>3. /\ seats'[s].stack = chips /\ seats'[s].status = StatusAfter(chips, seats[s])
            /\ ~seats'[s].sitOutNextHand /\ ~seats'[s].leaving
        BY <1>4, <3>1, <3>3
      <4>4. chips \in Nat
        BY <1>1, <1>3, <3>3, HandIsTyped
      <4> HIDE DEF chips
      <4>5. chips > 0 => (StatusAfter(chips, seats[s]) = "SEATED" <=> wish[s] = "play")
        <5>1. CASE seats[s].sitOutNextHand
          <6>1. chips > 0 => StatusAfter(chips, seats[s]) = "SITTING_OUT"
            BY <4>4, <5>1 DEF StatusAfter
          <6>2. wish[s] = "sit out"
            BY <4>2, <5>1
          <6> QED
            BY <6>1, <6>2
        <5>2. CASE ~seats[s].sitOutNextHand
          <6>1. chips > 0 => StatusAfter(chips, seats[s]) = "SEATED"
            BY <4>4, <5>2 DEF StatusAfter
          <6>2. wish[s] = "play"
            BY <4>1, <4>2, <5>2
          <6> QED
            BY <6>1, <6>2
        <5> QED
          BY <5>1, <5>2
      <4>6. StatusAfter(chips, seats[s]) # "PLAYING"
        BY DEF StatusAfter
      <4> QED
        BY <3>1, <4>2, <4>3, <4>5, <4>6 DEF Idle
    <3> QED
      BY <3>2, <3>3
  <2>3. ASSUME NEW s \in SeatNumbers \ Occupied' PROVE wish'[s] = "leave"
    <3>1. CASE s \notin Occupied
      BY <2>1, <2>3, <3>1 DEF SeatsInv
    <3>2. CASE s \in Gone
      <4>1. s \in Occupied /\ seats[s].leaving
        BY <3>2 DEF Gone
      <4>2. Playing(s)
        BY <2>1, <4>1 DEF SeatsInv, Idle
      <4> QED
        BY <2>1, <4>1, <4>2 DEF Playing
    <3> QED
      BY <1>7, <2>3, <3>1, <3>2
  <2> QED
    BY <1>7, <2>2, <2>3 DEF SeatsInv
<1>13. ChipsInv'
  <2>1. SumFunctionOnSet(kept, Occupied') = SumFunctionOnSet(g, Occupied')
    BY <1>8, <1>9, SumSame
  <2>2. SumFunctionOnSet(g, Occupied) = SumFunctionOnSet(g, Occupied') + SumFunctionOnSet(g, Gone)
    <3>1. \A s \in Occupied' \cup Gone : g[s] \in Int
      BY <1>8, <1>9
    <3> QED
      BY <1>8, <3>1, SumUnion
  <2>3. SumFunctionOnSet(g, Occupied') \in Nat
    BY <1>8, <1>9, SumNatural
  <2>4. SumFunctionOnSet(Chips(seats), Occupied) + totalRake + takenOut = broughtIn
    BY DEF TableInv, ChipsInv
  <2>5. totalRake \in Nat /\ takenOut \in Nat
    BY DEF TableInv, TableTyped
  <2>6. SumFunctionOnSet(kept, Occupied') + totalRake' + takenOut' = broughtIn'
    BY <1>1, <1>3, <1>5, <1>6, <1>10, <2>1, <2>2, <2>3, <2>4, <2>5 DEF g
  <2> QED
    BY <2>6 DEF ChipsInv, kept
<1>14. HandPart'
  BY <1>1 DEF HandPart
<1> QED
  BY <1>11, <1>12, <1>13, <1>14 DEF TableInv

----------------------------------------------------------------------------
(* The table *)

LEMMA TableInit == Init => TableInv
<1> SUFFICES ASSUME Init PROVE TableInv
  OBVIOUS
<1>1. /\ tableStatus = "WAITING" /\ seats = NoFunction /\ bought = NoFunction
      /\ wish = [s \in SeatNumbers |-> "leave"]
      /\ handNumber = 0 /\ totalRake = 0 /\ broughtIn = 0 /\ takenOut = 0 /\ button \in Int
  BY DEF Init, H!NoSeat
<1>2. Occupied = {} /\ DealtIn = {}
  BY <1>1 DEF Occupied, DealtIn, NoFunction
<1>3. TableTyped
  <2>1. seats \in [Occupied -> SeatRecords]
    BY <1>1, <1>2 DEF NoFunction
  <2> QED
    BY <1>1, <1>2, <2>1 DEF TableTyped
<1>4. SeatsInv
  BY <1>1, <1>2 DEF SeatsInv
<1>5. ChipsInv
  <2>1. SumFunctionOnSet(Chips(seats), Occupied) = 0
    BY <1>2, SumEmpty
  <2> QED
    BY <1>1, <2>1 DEF ChipsInv
<1>6. HandPart
  BY <1>1 DEF HandPart
<1> QED
  BY <1>3, <1>4, <1>5, <1>6 DEF TableInv

LEMMA TableStutters == ASSUME TableInv, UNCHANGED vars PROVE TableInv'
<1>1. /\ UNCHANGED <<tableStatus, hand, seats, handNumber, totalRake, wish, broughtIn, takenOut>>
      /\ bought' = bought /\ button' = button
  BY DEF vars, table, history, hand
<1>2. Occupied' = Occupied /\ DealtIn' = DealtIn
  BY <1>1 DEF Occupied, DealtIn
<1>3. TableTyped'
  BY <1>1, <1>2 DEF TableInv, TableTyped
<1>4. SeatsInv'
  BY <1>1, <1>2 DEF TableInv, SeatsInv, Playing, Idle
<1>5. ChipsInv'
  BY <1>1, <1>2 DEF TableInv, ChipsInv, Chips
<1>6. HandPart'
  BY <1>1, HandUnchanged DEF TableInv
<1> QED
  BY <1>3, <1>4, <1>5, <1>6 DEF TableInv

LEMMA TableNext == TableInv /\ [Next]_vars => TableInv'
<1> SUFFICES ASSUME TableInv, [Next]_vars PROVE TableInv'
  OBVIOUS
<1>1. ASSUME NEW s \in SeatNumbers, Command(s) PROVE TableInv'
  <2>1. ASSUME NEW buyIn \in BuyIns, SeatPlayer(s, buyIn) PROVE TableInv'
    BY <2>1, SeatPlayerKeeps
  <2>2. CASE SitOut(s)
    BY <2>2, SitOutKeeps
  <2>3. CASE ReturnPlayer(s)
    BY <2>3, ReturnKeeps
  <2>4. CASE Leave(s)
    BY <2>4, LeaveKeeps
  <2>5. CASE Act(s) \/ Timeout(s)
    BY <2>5, EngineKeeps
  <2> QED
    BY <1>1, <2>1, <2>2, <2>3, <2>4, <2>5 DEF Command
<1>2. CASE StartHand
  BY <1>2, StartHandKeeps
<1>3. CASE DealStreet \/ DealRunout
  BY <1>3, EngineKeeps
<1>4. CASE FinishHand
  BY <1>4, FinishHandKeeps
<1>5. CASE UNCHANGED vars
  BY <1>5, TableStutters
<1> QED
  BY <1>1, <1>2, <1>3, <1>4, <1>5 DEF Next

LEMMA InductiveTable == Spec => []TableInv
BY TableInit, TableNext, PTL DEF Spec

\* No chip is made or lost at a table, and the players of a hand keep their seat
\* and their stack until it is settled: reduceTable, finishHand.
THEOREM ChipsStay == Spec => []ChipsAccounted
<1>1. ASSUME TableInv PROVE ChipsAccounted
  <2>1. SumFunction(Chips(seats)) = SumFunctionOnSet(Chips(seats), Occupied)
    BY DEF SumFunction, Chips, Occupied
  <2> QED
    BY <1>1, <2>1 DEF ChipsAccounted, TableInv, ChipsInv, SeatsInv, Playing
<1> QED
  BY <1>1, InductiveTable, PTL

\* Between hands the seats are those of the players who did not ask to leave.
THEOREM LeaversLeave == Spec => []LeaversGone
<1>1. ASSUME TableInv PROVE LeaversGone
  <2> SUFFICES ASSUME tableStatus = "WAITING"
               PROVE  Occupied = {s \in SeatNumbers : wish[s] # "leave"}
    BY DEF LeaversGone
  <2>1. DealtIn = {} /\ SeatsInv /\ Occupied \subseteq SeatNumbers
    BY <1>1, NoHandNoSeats DEF TableInv, HandPart, TableTyped
  <2>2. \A s \in Occupied : wish[s] # "leave"
    BY <2>1 DEF SeatsInv, Idle
  <2> QED
    BY <2>1, <2>2 DEF SeatsInv
<1> QED
  BY <1>1, InductiveTable, PTL

\* A hand is dealt to the players with chips who last asked to play: nextHandSetup.
THEOREM DealtByWish == Spec => DealtAsWished
<1>1. ASSUME TableInv, Next, tableStatus = "WAITING", tableStatus' = "HAND_ACTIVE"
      PROVE  DOMAIN bought' = {s \in Occupied : wish[s] = "play" /\ seats[s].stack > 0}
  <2>1. StartHand
    BY <1>1 DEF Next, Command, SeatPlayer, SitOut, ReturnPlayer, Leave, Act, Timeout, InHand,
         DealStreet, DealRunout, FinishHand
  <2>2. DOMAIN bought' = Ready
    BY <1>1, <2>1, HandStarts DEF TableInv
  <2>3. \A s \in Occupied : Idle(s)
    BY <1>1, NoHandNoSeats DEF TableInv, SeatsInv, HandPart
  <2>4. ASSUME NEW s \in Occupied
        PROVE  s \in Ready <=> wish[s] = "play" /\ seats[s].stack > 0
    BY <2>3 DEF Ready, Idle
  <2> QED
    BY <2>2, <2>4 DEF Ready
<1>2. TableInv /\ [Next]_vars =>
        [tableStatus = "WAITING" /\ tableStatus' = "HAND_ACTIVE" =>
            DOMAIN bought' = {s \in Occupied : wish[s] = "play" /\ seats[s].stack > 0}]_vars
  BY <1>1
<1> QED
  BY <1>2, InductiveTable, PTL DEF Spec, DealtAsWished

\* A hand can always go on, and its pots can always be settled, when the ante is at
\* most one chip, which every stack that is dealt in covers: createBettingState,
\* finishOrAdvance, buildPots, finishHand.
THEOREM HandsGoOn ==
  ASSUME Ante <= 1
  PROVE  Spec => []HandCanGoOn
<1>1. ASSUME TableInv PROVE HandCanGoOn
  <2> SUFFICES ASSUME tableStatus = "HAND_ACTIVE"
               PROVE  \/ status = "BETTING" /\ actionSeat \in Occupied
                                           /\ seats[actionSeat].status = "PLAYING"
                      \/ status = "AWAITING_DEAL" /\ phase # "RIVER"
                      \/ status = "AWAITING_RUNOUT"
                      \/ /\ status \in {"SHOWDOWN", "COMPLETE"}
                         /\ Buildable(contributed, folded)
                         /\ \A rank \in Rankings : Conserved(Settlement(rank))
    BY DEF HandCanGoOn
  <2>1. HandInv /\ BP!Inv /\ BP!StreetInv /\ (BP!Stands \/ BP!Posts) /\ Ante <= 1
    BY <1>1 DEF TableInv, HandPart, HandInv
  <2>2. status \in {"BETTING", "AWAITING_DEAL", "AWAITING_RUNOUT", "SHOWDOWN", "COMPLETE"}
    BY <2>1 DEF BP!Inv, BP!Decided, BP!Typed, BP!Statuses
  <2>3. CASE status = "BETTING"
    <3>1. actionSeat \in DealtIn
      BY <2>1, <2>3 DEF BP!Inv, BP!NextActorExists, BP!Pending, BP!CanAct, BP!Live, BP!Seats, DealtIn
    <3> QED
      BY <1>1, <2>3, <3>1 DEF TableInv, SeatsInv, Playing
  <2>4. CASE status = "AWAITING_DEAL"
    BY <2>1, <2>4 DEF BP!StreetInv, BP!StreetOver
  <2>5. CASE status \in {"SHOWDOWN", "COMPLETE"}
    <3>1. BP!P!Buildable(contributed, folded)
      BY <2>1, EngineAssumptions, BP!PotsBuildable
    <3>2. Buildable(contributed, folded)
      BY <3>1 DEF BP!P!Buildable, Buildable, BP!P!PotLevels, PotLevels,
           BP!P!Participants, Participants, BP!P!Levels, Levels, BP!P!Cardinality, Cardinality
    <3>3. \A rank \in Rankings : Conserved(Settlement(rank))
      BY <2>1, <3>2, HandIsSettled
    <3> QED
      BY <2>5, <3>2, <3>3
  <2> QED
    BY <2>2, <2>3, <2>4, <2>5
<1> QED
  BY <1>1, InductiveTable, PTL
=============================================================================
