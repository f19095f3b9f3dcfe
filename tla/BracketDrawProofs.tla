-------------------------- MODULE BracketDrawProofs --------------------------
(***************************************************************************)
(* What the brackets of Bracket look like, for any number of entries and   *)
(* any format: the order in which the seeds are drawn is a permutation of  *)
(* the slots, a match of a later round is fed by exactly two links, byes   *)
(* never meet, and the match an entry can reach in round j tells which of  *)
(* the best seeds it holds.                                                *)
(***************************************************************************)
EXTENDS Bracket, RecursionFacts, FiniteSetTheorems, TLAPS

-----------------------------------------------------------------------------
(* Powers of two *)

\* Pow2 is the function its definition describes.
LEMMA Pow2Equation == Pow2 = [r \in Nat |-> IF r = 0 THEN 1 ELSE 2 * Pow2[r - 1]]
<1> DEFINE Eqn(f) == f = [r \in Nat |-> IF r = 0 THEN 1 ELSE 2 * f[r - 1]]
           T == [r \in Nat |-> Nat]
           step == [r \in Nat |-> [x \in Nat |-> 2 * x]]
<1>1. \A k \in Nat \ {0} : \A x \in T[k - 1] : step[k][x] \in T[k] /\ step[k][x] = 2 * x
  OBVIOUS
<1>2. 1 \in T[0] /\ \A n \in Nat : T[n] = Nat
  OBVIOUS
<1> HIDE DEF T, step
<1>3. PICK h : /\ h = [n \in Nat |-> h[n]]
               /\ h[0] = 1
               /\ \A n \in Nat : h[n] \in T[n]
               /\ \A n \in Nat \ {0} : h[n] = step[n][h[n - 1]]
  BY <1>1, <1>2, NatRecursion, SMTT(30)
<1>4. ASSUME NEW r \in Nat PROVE h[r] = IF r = 0 THEN 1 ELSE 2 * h[r - 1]
  <2>1. CASE r = 0
    BY <1>3, <2>1
  <2>2. CASE r # 0
    <3>1. r \in Nat \ {0} /\ h[r - 1] \in T[r - 1]
      BY <1>3, <2>2
    <3> QED BY <1>1, <1>3, <2>2, <3>1
  <2> QED BY <2>1, <2>2
<1>5. Eqn(h)
  BY <1>3, <1>4
<1>6. Pow2 = CHOOSE f : Eqn(f)
  BY DEF Pow2
<1> HIDE DEF Eqn
<1>7. Eqn(Pow2)
  BY <1>5, <1>6
<1> QED BY <1>7 DEF Eqn

\* Its first values, and that it exceeds its argument.
LEMMA Pow2Facts ==
    /\ Pow2[0] = 1
    /\ \A r \in Nat : Pow2[r] \in Nat /\ Pow2[r] >= r + 1 /\ Pow2[r + 1] = 2 * Pow2[r]
<1>1. Pow2[0] = 1
  BY Pow2Equation
<1>2. \A r \in Nat : Pow2[r + 1] = 2 * Pow2[r]
  <2> TAKE r \in Nat
  <2>1. r + 1 \in Nat /\ r + 1 # 0 /\ (r + 1) - 1 = r
    OBVIOUS
  <2> QED BY <2>1, Pow2Equation
<1> DEFINE S == {r \in Nat : Pow2[r] \in Nat /\ Pow2[r] >= r + 1}
<1>3. 0 \in S
  BY <1>1
<1>4. ASSUME NEW r \in Nat, r \in S PROVE r + 1 \in S
  BY <1>2, <1>4
<1> HIDE DEF S
<1>5. Nat \subseteq S
  BY <1>3, <1>4, NatSetInduction
<1>6. \A r \in Nat : Pow2[r] \in Nat /\ Pow2[r] >= r + 1
  BY <1>5 DEF S
<1> QED BY <1>1, <1>2, <1>6

\* More rounds, more slots.
LEMMA Pow2Monotone ==
    ASSUME NEW a \in Nat, NEW b \in Nat, a <= b
    PROVE  Pow2[a] <= Pow2[b]
<1> DEFINE S == {n \in Nat : Pow2[a] <= Pow2[a + n]}
<1>1. 0 \in S
  BY Pow2Facts
<1>2. ASSUME NEW n \in Nat, n \in S PROVE n + 1 \in S
  <2>1. Pow2[(a + n) + 1] = 2 * Pow2[a + n] /\ Pow2[a + n] \in Nat /\ Pow2[a] \in Nat
    BY Pow2Facts
  <2>2. (a + n) + 1 = a + (n + 1)
    OBVIOUS
  <2> QED BY <1>2, <2>1, <2>2
<1> HIDE DEF S
<1>3. Nat \subseteq S
  BY <1>1, <1>2, NatSetInduction
<1>4. b - a \in Nat /\ a + (b - a) = b
  OBVIOUS
<1> QED BY <1>3, <1>4 DEF S

\* A bracket has the least number of rounds that gives a slot to each of its n entries.
LEMMA RoundsForFacts ==
    ASSUME NEW n \in Nat, n >= 2
    PROVE  /\ RoundsFor(n) \in Nat
           /\ RoundsFor(n) >= 1
           /\ n <= Pow2[RoundsFor(n)]
           /\ Pow2[RoundsFor(n) - 1] < n
<1> DEFINE S == {r \in Nat : n <= Pow2[r]}
<1>1. n \in S
  BY Pow2Facts
<1>2. PICK r \in S : \A y \in S : r <= y
  <2>1. S \subseteq Nat /\ S # {}
    BY <1>1
  <2> HIDE DEF S
  <2> QED BY <2>1, LeastNatural
<1>3. r \in 0..n
  BY <1>1, <1>2
<1>4. r > 0 => Pow2[r - 1] < n
  <2>1. r > 0 => r - 1 \in Nat /\ Pow2[r - 1] \in Nat
    BY <1>3, Pow2Facts
  <2>2. r > 0 => r - 1 \notin S
    BY <1>2, <1>3
  <2> QED BY <2>1, <2>2
<1>5. \E q \in 0..n : n <= Pow2[q] /\ (q > 0 => Pow2[q - 1] < n)
  BY <1>2, <1>3, <1>4
<1>6. /\ RoundsFor(n) \in 0..n
      /\ n <= Pow2[RoundsFor(n)]
      /\ RoundsFor(n) > 0 => Pow2[RoundsFor(n) - 1] < n
  BY <1>5 DEF RoundsFor
<1>7. RoundsFor(n) # 0
  BY <1>6, Pow2Facts
<1> QED BY <1>6, <1>7

-----------------------------------------------------------------------------
(* Counting up to two *)

\* The size of a pair.
LEMMA Pairs ==
    ASSUME NEW x, NEW y
    PROVE  IsFiniteSet({x, y}) /\ Cardinality({x, y}) = IF x = y THEN 1 ELSE 2
<1>1. IsFiniteSet({x}) /\ Cardinality({x}) = 1
  BY FS_Singleton
<1>2. /\ IsFiniteSet({x} \cup {y})
      /\ Cardinality({x} \cup {y}) = IF y \in {x} THEN Cardinality({x}) ELSE Cardinality({x}) + 1
  BY <1>1, FS_AddElement
<1>3. {x} \cup {y} = {x, y}
  OBVIOUS
<1> QED BY <1>1, <1>2, <1>3

\* A set within a pair.
LEMMA AtMostTwo ==
    ASSUME NEW S, NEW x, NEW y, S \subseteq {x, y}
    PROVE  IsFiniteSet(S) /\ Cardinality(S) \in Nat /\ Cardinality(S) <= 2
<1>1. IsFiniteSet(S) /\ Cardinality(S) <= Cardinality({x, y})
  BY Pairs, FS_Subset
<1>2. Cardinality(S) \in Nat
  BY <1>1, FS_CardinalityType
<1>3. Cardinality({x, y}) = 1 \/ Cardinality({x, y}) = 2
  BY Pairs
<1> QED BY <1>1, <1>2, <1>3

\* A set whose elements are all the same.
LEMMA AtMostOne ==
    ASSUME NEW S, \A x, y \in S : x = y
    PROVE  IsFiniteSet(S) /\ Cardinality(S) = IF S = {} THEN 0 ELSE 1
<1>1. CASE S = {}
  BY <1>1, FS_EmptySet
<1>2. CASE S # {}
  <2>1. PICK x \in S : TRUE
    BY <1>2
  <2>2. S = {x}
    BY <2>1
  <2> QED BY <1>2, <2>2, FS_Singleton
<1> QED BY <1>1, <1>2

\* A finite set with two elements in it.
LEMMA TwoMembers ==
    ASSUME NEW S, IsFiniteSet(S), NEW x \in S, NEW y \in S, x # y
    PROVE  /\ Cardinality(S) \in Nat /\ Cardinality(S) >= 2
           /\ Cardinality(S) = 2 => S = {x, y}
<1>1. {x, y} \subseteq S /\ Cardinality({x, y}) = 2
  BY Pairs
<1>2. Cardinality({x, y}) <= Cardinality(S) /\ (Cardinality({x, y}) = Cardinality(S) => {x, y} = S)
  BY <1>1, FS_Subset
<1> QED BY <1>1, <1>2, FS_CardinalityType

\* A set smaller than two.
LEMMA FewMembers ==
    ASSUME NEW S, IsFiniteSet(S), Cardinality(S) < 2
    PROVE  \A x, y \in S : x = y
<1>1. SUFFICES ASSUME NEW x \in S, NEW y \in S, x # y PROVE FALSE
  OBVIOUS
<1> QED BY <1>1, TwoMembers

\* A set of two.
LEMMA OnlyTwo ==
    ASSUME NEW S, IsFiniteSet(S), Cardinality(S) = 2
    PROVE  \E x, y \in S : x # y /\ S = {x, y}
<1>1. \E x, y \in S : x # y
  <2>1. SUFFICES ASSUME \A x, y \in S : x = y PROVE FALSE
    OBVIOUS
  <2> QED BY <2>1, AtMostOne
<1> QED BY <1>1, TwoMembers

-----------------------------------------------------------------------------
(* The drawing order *)

\* Where a slot of the larger draw comes from in the draw of half its size.
LEMMA Halves ==
    ASSUME NEW n \in Nat, NEW i \in 1..(2 * n)
    PROVE  /\ i % 2 = 1 => (i + 1) \div 2 \in 1..n /\ i = 2 * ((i + 1) \div 2) - 1
           /\ i % 2 # 1 => i \div 2 \in 1..n /\ i = 2 * (i \div 2)
OBVIOUS

\* The two slots that come from one of the smaller draw.
LEMMA Doubles ==
    ASSUME NEW n \in Nat, NEW i \in 1..n
    PROVE  /\ 2 * i - 1 \in 1..(2 * n) /\ (2 * i - 1) % 2 = 1 /\ ((2 * i - 1) + 1) \div 2 = i
           /\ 2 * i \in 1..(2 * n) /\ (2 * i) % 2 # 1 /\ (2 * i) \div 2 = i
OBVIOUS

\* getBalancedSeedPositions, from r rounds to r + 1: next to each seed goes the one
\* that mirrors it.
LEMMA PositionsEquation ==
    /\ BalancedSeedPositions[0] = <<1>>
    /\ \A r \in Nat :
         BalancedSeedPositions[r + 1] =
            [i \in 1..Pow2[r + 1] |->
               IF i % 2 = 1 THEN BalancedSeedPositions[r][(i + 1) \div 2]
               ELSE Pow2[r + 1] + 1 - BalancedSeedPositions[r][i \div 2]]
<1> DEFINE Spread(half, r) == [i \in 1..Pow2[r] |-> IF i % 2 = 1 THEN half[(i + 1) \div 2]
                                                ELSE Pow2[r] + 1 - half[i \div 2]]
           Eqn(f) == f = [r \in Nat |-> IF r = 0 THEN <<1>> ELSE Spread(f[r - 1], r)]
           T == [r \in Nat |-> [1..Pow2[r] -> Int]]
           step == [r \in Nat |-> [x \in T[r - 1] |-> Spread(x, r)]]
<1>1. ASSUME NEW r \in Nat, NEW x \in [1..Pow2[r] -> Int]
      PROVE  Spread(x, r + 1) \in [1..Pow2[r + 1] -> Int]
  <2>1. ASSUME NEW i \in 1..Pow2[r + 1], i % 2 = 1 PROVE (i + 1) \div 2 \in 1..Pow2[r]
    BY <2>1, Pow2Facts, Halves
  <2>2. ASSUME NEW i \in 1..Pow2[r + 1], i % 2 # 1 PROVE i \div 2 \in 1..Pow2[r]
    BY <2>2, Pow2Facts, Halves
  <2>3. Pow2[r + 1] \in Nat
    BY Pow2Facts
  <2> QED BY <2>1, <2>2, <2>3
<1>2. \A n \in Nat : T[n] = [1..Pow2[n] -> Int]
  OBVIOUS
<1>3. <<1>> \in T[0]
  <2>1. <<1>> \in [1..1 -> Int]
    OBVIOUS
  <2> QED BY <1>2, <2>1, Pow2Facts
<1>4. \A k \in Nat \ {0} : \A x \in T[k - 1] : step[k][x] = Spread(x, k)
  OBVIOUS
<1>5. ASSUME NEW k \in Nat \ {0}, NEW x \in T[k - 1] PROVE step[k][x] \in T[k]
  <2>1. k - 1 \in Nat /\ k = (k - 1) + 1 /\ x \in [1..Pow2[k - 1] -> Int]
    BY <1>2
  <2>2. Spread(x, k) \in [1..Pow2[k] -> Int]
    BY <1>1, <2>1
  <2> HIDE DEF T, step, Spread
  <2> QED BY <1>2, <1>4, <2>2
<1> HIDE DEF T, step, Spread
<1>6. PICK h : /\ h = [n \in Nat |-> h[n]]
               /\ h[0] = <<1>>
               /\ \A n \in Nat : h[n] \in T[n]
               /\ \A n \in Nat \ {0} : h[n] = step[n][h[n - 1]]
  BY <1>3, <1>5, NatRecursion, SMTT(30)
<1>7. ASSUME NEW r \in Nat PROVE h[r] = IF r = 0 THEN <<1>> ELSE Spread(h[r - 1], r)
  <2>1. CASE r = 0
    BY <1>6, <2>1
  <2>2. CASE r # 0
    <3>1. r \in Nat \ {0} /\ h[r - 1] \in T[r - 1]
      BY <1>6, <2>2
    <3> QED BY <1>4, <1>6, <2>2, <3>1
  <2> QED BY <2>1, <2>2
<1>8. Eqn(h)
  BY <1>6, <1>7
<1>9. BalancedSeedPositions = CHOOSE f : Eqn(f)
  BY DEF BalancedSeedPositions, Spread
<1> HIDE DEF Eqn
<1>10. Eqn(BalancedSeedPositions)
  BY <1>8, <1>9
<1>11. BalancedSeedPositions[0] = <<1>>
  BY <1>10 DEF Eqn
<1>12. ASSUME NEW r \in Nat
       PROVE  BalancedSeedPositions[r + 1] = Spread(BalancedSeedPositions[r], r + 1)
  <2>1. r + 1 \in Nat /\ r + 1 # 0 /\ (r + 1) - 1 = r
    OBVIOUS
  <2> QED BY <1>10, <2>1 DEF Eqn
<1> QED BY <1>11, <1>12 DEF Spread

\* The seeds of a draw are numbers of its slots, and those of the first half keep their order.
LEMMA PositionsFacts ==
    ASSUME NEW r \in Nat
    PROVE  /\ BalancedSeedPositions[r] \in [1..Pow2[r] -> 1..Pow2[r]]
           /\ \A i \in 1..Pow2[r] :
                /\ BalancedSeedPositions[r + 1][2 * i - 1] = BalancedSeedPositions[r][i]
                /\ BalancedSeedPositions[r + 1][2 * i]
                     = Pow2[r + 1] + 1 - BalancedSeedPositions[r][i]
<1> DEFINE P == BalancedSeedPositions
           S == {n \in Nat : P[n] \in [1..Pow2[n] -> 1..Pow2[n]]}
<1> HIDE DEF P
<1>1. 0 \in S
  <2>1. <<1>> \in [1..1 -> 1..1]
    OBVIOUS
  <2>2. P[0] = <<1>>
    BY PositionsEquation DEF P
  <2> QED BY <2>1, <2>2, Pow2Facts
<1>2. ASSUME NEW n \in Nat
      PROVE  P[n + 1] = [i \in 1..Pow2[n + 1] |-> IF i % 2 = 1 THEN P[n][(i + 1) \div 2]
                                                  ELSE Pow2[n + 1] + 1 - P[n][i \div 2]]
  BY PositionsEquation DEF P
<1>3. ASSUME NEW n \in Nat, n \in S PROVE n + 1 \in S
  <2>1. Pow2[n] \in Nat /\ Pow2[n + 1] = 2 * Pow2[n] /\ Pow2[n + 1] \in Nat
    BY Pow2Facts
  <2>2. \A j \in 1..Pow2[n] : P[n][j] \in 1..Pow2[n]
    BY <1>3
  <2>3. ASSUME NEW i \in 1..Pow2[n + 1] PROVE P[n + 1][i] \in 1..Pow2[n + 1]
    <3>1. CASE i % 2 = 1
      <4>1. (i + 1) \div 2 \in 1..Pow2[n]
        BY <2>1, <3>1, Halves
      <4>2. P[n + 1][i] = P[n][(i + 1) \div 2]
        BY <1>2, <3>1
      <4>3. P[n][(i + 1) \div 2] \in 1..Pow2[n]
        BY <2>2, <4>1
      <4> QED BY <2>1, <4>2, <4>3
    <3>2. CASE i % 2 # 1
      <4>1. i \div 2 \in 1..Pow2[n]
        BY <2>1, <3>2, Halves
      <4>2. P[n + 1][i] = Pow2[n + 1] + 1 - P[n][i \div 2]
        BY <1>2, <3>2
      <4>3. P[n][i \div 2] \in 1..Pow2[n]
        BY <2>2, <4>1
      <4> QED BY <2>1, <4>2, <4>3
    <3> QED BY <3>1, <3>2
  <2>4. n + 1 \in Nat
    OBVIOUS
  <2>5. P[n + 1] = [i \in 1..Pow2[n + 1] |-> P[n + 1][i]]
    BY <1>2
  <2> QED BY <2>3, <2>4, <2>5
<1> HIDE DEF S
<1>4. r \in S
  BY <1>1, <1>3, NatSetInduction
<1>5. ASSUME NEW i \in 1..Pow2[r]
      PROVE  /\ P[r + 1][2 * i - 1] = P[r][i]
             /\ P[r + 1][2 * i] = Pow2[r + 1] + 1 - P[r][i]
  <2>1. Pow2[r] \in Nat /\ Pow2[r + 1] = 2 * Pow2[r]
    BY Pow2Facts
  <2>2. /\ 2 * i - 1 \in 1..Pow2[r + 1] /\ (2 * i - 1) % 2 = 1 /\ ((2 * i - 1) + 1) \div 2 = i
        /\ 2 * i \in 1..Pow2[r + 1] /\ (2 * i) % 2 # 1 /\ (2 * i) \div 2 = i
    BY <2>1, Doubles
  <2>3. \A j \in 1..Pow2[r + 1] : P[r + 1][j] = IF j % 2 = 1 THEN P[r][(j + 1) \div 2]
                                               ELSE Pow2[r + 1] + 1 - P[r][j \div 2]
    BY <1>2
  <2>4. P[r + 1][2 * i - 1] = P[r][((2 * i - 1) + 1) \div 2]
    BY <2>2, <2>3
  <2>5. P[r + 1][2 * i] = Pow2[r + 1] + 1 - P[r][(2 * i) \div 2]
    BY <2>2, <2>3
  <2> QED BY <2>2, <2>4, <2>5
<1> QED BY <1>4, <1>5 DEF P, S

\* No seed number is drawn twice.
LEMMA PositionsInjective ==
    ASSUME NEW r \in Nat
    PROVE  \A i, j \in 1..Pow2[r] :
              BalancedSeedPositions[r][i] = BalancedSeedPositions[r][j] => i = j
<1> DEFINE P == BalancedSeedPositions
           S == {n \in Nat : \A i, j \in 1..Pow2[n] : P[n][i] = P[n][j] => i = j}
<1> HIDE DEF P
<1>1. 0 \in S
  BY Pow2Facts
<1>2. ASSUME NEW n \in Nat, n \in S PROVE n + 1 \in S
  <2>1. Pow2[n] \in Nat /\ Pow2[n + 1] = 2 * Pow2[n] /\ n + 1 \in Nat
    BY Pow2Facts
  <2>2. \A i \in 1..Pow2[n] : /\ P[n][i] \in 1..Pow2[n]
                              /\ P[n + 1][2 * i - 1] = P[n][i]
                              /\ P[n + 1][2 * i] = Pow2[n + 1] + 1 - P[n][i]
    BY PositionsFacts DEF P
  <2>3. ASSUME NEW i \in 1..Pow2[n + 1]
        PROVE  \E x \in 1..Pow2[n] : i = 2 * x - 1 \/ i = 2 * x
    <3>1. CASE i % 2 = 1
      <4>1. (i + 1) \div 2 \in 1..Pow2[n] /\ i = 2 * ((i + 1) \div 2) - 1
        BY <2>1, <3>1, Halves
      <4> QED BY <4>1
    <3>2. CASE i % 2 # 1
      <4>1. i \div 2 \in 1..Pow2[n] /\ i = 2 * (i \div 2)
        BY <2>1, <3>2, Halves
      <4> QED BY <4>1
    <3> QED BY <3>1, <3>2
  <2>4. ASSUME NEW i \in 1..Pow2[n + 1], NEW j \in 1..Pow2[n + 1], P[n + 1][i] = P[n + 1][j]
        PROVE  i = j
    <3>1. PICK x \in 1..Pow2[n] : i = 2 * x - 1 \/ i = 2 * x
      BY <2>3
    <3>2. PICK y \in 1..Pow2[n] : j = 2 * y - 1 \/ j = 2 * y
      BY <2>3
    <3>3. P[n][x] \in 1..Pow2[n] /\ P[n][y] \in 1..Pow2[n] /\ (P[n][x] = P[n][y] => x = y)
      BY <1>2, <2>2
    <3>4. CASE i = 2 * x - 1 /\ j = 2 * y - 1
      BY <2>2, <2>4, <3>3, <3>4
    <3>5. CASE i = 2 * x /\ j = 2 * y
      <4>1. Pow2[n + 1] + 1 - P[n][x] = Pow2[n + 1] + 1 - P[n][y]
        BY <2>2, <2>4, <3>5
      <4> QED BY <2>1, <3>3, <3>5, <4>1
    <3>6. CASE i = 2 * x - 1 /\ j = 2 * y
      <4>1. P[n][x] = Pow2[n + 1] + 1 - P[n][y]
        BY <2>2, <2>4, <3>6
      <4> QED BY <2>1, <3>3, <4>1
    <3>7. CASE i = 2 * x /\ j = 2 * y - 1
      <4>1. Pow2[n + 1] + 1 - P[n][x] = P[n][y]
        BY <2>2, <2>4, <3>7
      <4> QED BY <2>1, <3>3, <4>1
    <3> QED BY <3>1, <3>2, <3>4, <3>5, <3>6, <3>7
  <2> QED BY <2>1, <2>4
<1> HIDE DEF S
<1>3. r \in S
  BY <1>1, <1>2, NatSetInduction
<1> QED BY <1>3 DEF S, P

\* Every seed number up to the number of slots is drawn.
LEMMA PositionsSurjective ==
    ASSUME NEW r \in Nat
    PROVE  \A v \in 1..Pow2[r] : \E i \in 1..Pow2[r] : BalancedSeedPositions[r][i] = v
<1> DEFINE P == BalancedSeedPositions
           S == {n \in Nat : \A v \in 1..Pow2[n] : \E i \in 1..Pow2[n] : P[n][i] = v}
<1> HIDE DEF P
<1>1. 0 \in S
  <2>1. Pow2[0] = 1 /\ P[0][1] = 1
    BY Pow2Facts, PositionsEquation DEF P
  <2> QED BY <2>1
<1>2. ASSUME NEW n \in Nat, n \in S PROVE n + 1 \in S
  <2>1. Pow2[n] \in Nat /\ Pow2[n + 1] = 2 * Pow2[n] /\ n + 1 \in Nat
    BY Pow2Facts
  <2>2. \A i \in 1..Pow2[n] : /\ P[n + 1][2 * i - 1] = P[n][i]
                              /\ P[n + 1][2 * i] = Pow2[n + 1] + 1 - P[n][i]
    BY PositionsFacts DEF P
  <2>3. \A i \in 1..Pow2[n] : 2 * i - 1 \in 1..Pow2[n + 1] /\ 2 * i \in 1..Pow2[n + 1]
    BY <2>1
  <2>4. ASSUME NEW v \in 1..Pow2[n + 1] PROVE \E i \in 1..Pow2[n + 1] : P[n + 1][i] = v
    <3>1. CASE v <= Pow2[n]
      <4>1. v \in 1..Pow2[n]
        BY <2>1, <3>1
      <4>2. PICK i \in 1..Pow2[n] : P[n][i] = v
        BY <1>2, <4>1
      <4> QED BY <2>2, <2>3, <4>2
    <3>2. CASE v > Pow2[n]
      <4>1. Pow2[n + 1] + 1 - v \in 1..Pow2[n]
        BY <2>1, <3>2
      <4>2. PICK i \in 1..Pow2[n] : P[n][i] = Pow2[n + 1] + 1 - v
        BY <1>2, <4>1
      <4>3. P[n + 1][2 * i] = v
        BY <2>1, <2>2, <4>2
      <4> QED BY <2>3, <4>3
    <3> QED BY <2>1, <3>1, <3>2
  <2> QED BY <2>1, <2>4
<1> HIDE DEF S
<1>3. r \in S
  BY <1>1, <1>2, NatSetInduction
<1> QED BY <1>3 DEF S, P

-----------------------------------------------------------------------------
(* Matches and links *)

\* A bracket as generateBracket may be asked for.
Elimination(d) ==
    /\ d.format \in {"single", "single_bronze", "double"}
    /\ d.size \in Nat
    /\ d.size >= 2

\* Its rounds.
R(d) == RoundsFor(d.size)

\* A bracket has a round.
LEMMA RoundsType ==
    ASSUME NEW d, Elimination(d)
    PROVE  R(d) \in Nat /\ R(d) >= 1
BY RoundsForFacts DEF Elimination, R

\* Match m is one of the winners' bracket of r rounds.
InWinners(r, m) == m[1] < r /\ m[2] < Pow2[r - 1 - m[1]]
\* Match m is one of the losers' bracket.
InLosers(r, m) ==
    r <= m[1] /\ m[1] < r + 2 * (r - 1) /\ m[2] < Pow2[r - 2 - ((m[1] - r) \div 2)]

\* The matches of a round, by their coordinates.
LEMMA RoundMembers ==
    ASSUME NEW index \in Nat, NEW count \in Nat, NEW m
    PROVE  m \in Round(index, count) <=> m \in Nat \X Nat /\ m[1] = index /\ m[2] < count
BY DEF Round

\* The matches of the winners' bracket, by theirs.
LEMMA WinnersMembers ==
    ASSUME NEW r \in Nat, NEW m
    PROVE  m \in WinnersMatches(r) <=> m \in Nat \X Nat /\ InWinners(r, m)
<1>1. m \in WinnersMatches(r) <=> \E k \in 0..(r - 1) : m \in Round(k, Pow2[r - 1 - k])
  BY DEF WinnersMatches
<1>2. ASSUME NEW k \in 0..(r - 1)
      PROVE  m \in Round(k, Pow2[r - 1 - k])
               <=> m \in Nat \X Nat /\ m[1] = k /\ m[2] < Pow2[r - 1 - k]
  <2>1. k \in Nat /\ r - 1 - k \in Nat
    OBVIOUS
  <2>2. Pow2[r - 1 - k] \in Nat
    BY <2>1, Pow2Facts
  <2> QED BY <2>1, <2>2, RoundMembers
<1> QED BY <1>1, <1>2 DEF InWinners

\* Those of the losers' bracket.
LEMMA LosersMembers ==
    ASSUME NEW r \in Nat, NEW m
    PROVE  m \in LosersMatches(r) <=> m \in Nat \X Nat /\ InLosers(r, m)
<1>1. m \in LosersMatches(r)
        <=> \E i \in 0..(2 * (r - 1) - 1) : m \in Round(r + i, Pow2[r - 2 - (i \div 2)])
  BY DEF LosersMatches, LosersRoundsCount
<1>2. ASSUME NEW i \in 0..(2 * (r - 1) - 1)
      PROVE  m \in Round(r + i, Pow2[r - 2 - (i \div 2)])
               <=> m \in Nat \X Nat /\ m[1] = r + i /\ m[2] < Pow2[r - 2 - (i \div 2)]
  <2>1. r + i \in Nat /\ r - 2 - (i \div 2) \in Nat
    OBVIOUS
  <2>2. Pow2[r - 2 - (i \div 2)] \in Nat
    BY <2>1, Pow2Facts
  <2> QED BY <2>1, <2>2, RoundMembers
<1>3. ASSUME m \in Nat \X Nat, InLosers(r, m) PROVE m \in LosersMatches(r)
  <2>1. m[1] - r \in 0..(2 * (r - 1) - 1) /\ m[1] = r + (m[1] - r)
    BY <1>3 DEF InLosers
  <2>2. m \in Round(r + (m[1] - r), Pow2[r - 2 - ((m[1] - r) \div 2)])
    BY <1>2, <1>3, <2>1 DEF InLosers
  <2> QED BY <1>1, <2>1, <2>2
<1>4. ASSUME m \in LosersMatches(r) PROVE m \in Nat \X Nat /\ InLosers(r, m)
  <2>1. PICK i \in 0..(2 * (r - 1) - 1) : m \in Round(r + i, Pow2[r - 2 - (i \div 2)])
    BY <1>1, <1>4
  <2>2. m \in Nat \X Nat /\ m[1] = r + i /\ m[2] < Pow2[r - 2 - (i \div 2)]
    BY <1>2, <2>1
  <2>3. m[1] - r = i /\ r <= m[1] /\ m[1] < r + 2 * (r - 1)
    BY <2>2
  <2> QED BY <2>2, <2>3 DEF InLosers
<1> QED BY <1>3, <1>4

\* All matches of a bracket, by their coordinates.
LEMMA MatchesMembers ==
    ASSUME NEW d, Elimination(d), NEW m
    PROVE  m \in MatchesOf(d) <=>
             /\ m \in Nat \X Nat
             /\ \/ InWinners(R(d), m)
                \/ d.format = "single_bronze" /\ R(d) >= 2 /\ m[1] = R(d) /\ m[2] = 0
                \/ d.format = "double" /\ InLosers(R(d), m)
                \/ d.format = "double" /\ m[1] = R(d) + 2 * (R(d) - 1) /\ m[2] = 0
<1> DEFINE r == RoundsFor(d.size)
<1>1. r \in Nat /\ r >= 1 /\ R(d) = r
  BY RoundsType DEF R
<1> HIDE DEF r
<1>2. m \in WinnersMatches(r) <=> m \in Nat \X Nat /\ InWinners(r, m)
  BY <1>1, WinnersMembers
<1>3. m \in LosersMatches(r) <=> m \in Nat \X Nat /\ InLosers(r, m)
  BY <1>1, LosersMembers
<1>4. m = <<r, 0>> <=> m \in Nat \X Nat /\ m[1] = r /\ m[2] = 0
  BY <1>1
<1>5. m = GrandFinal(r) <=> m \in Nat \X Nat /\ m[1] = r + 2 * (r - 1) /\ m[2] = 0
  BY <1>1 DEF GrandFinal, LosersRoundsCount
<1>6. CASE d.format = "single"
  <2>1. MatchesOf(d) = WinnersMatches(r)
    BY <1>6 DEF MatchesOf, r
  <2> QED BY <1>1, <1>2, <1>6, <2>1
<1>7. CASE d.format = "single_bronze"
  <2>1. MatchesOf(d) = WinnersMatches(r) \cup (IF r >= 2 THEN {<<r, 0>>} ELSE {})
    BY <1>7 DEF MatchesOf, BronzeMatch, r
  <2> QED BY <1>1, <1>2, <1>4, <1>7, <2>1
<1>8. CASE d.format = "double"
  <2>1. MatchesOf(d) = WinnersMatches(r) \cup LosersMatches(r) \cup {GrandFinal(r)}
    BY <1>8 DEF MatchesOf, r
  <2> QED BY <1>1, <1>2, <1>3, <1>5, <1>8, <2>1
<1> QED BY <1>6, <1>7, <1>8 DEF Elimination

\* Where the winner of m goes, and its loser, as pairs of numbers.
WinnerNext(d, m) ==
    IF m[1] < R(d) - 1 THEN <<m[1] + 1, m[2] \div 2>>
    ELSE IF m[1] = R(d) - 1 THEN <<R(d) + 2 * (R(d) - 1), 0>>
    ELSE <<m[1] + 1, IF (m[1] - R(d)) % 2 = 0 THEN m[2] ELSE m[2] \div 2>>

\* There is a next match for the winner: not after the final.
WinnerGoesOn(d, m) ==
    \/ m[1] < R(d) - 1
    \/ d.format = "double" /\ m[1] # R(d) + 2 * (R(d) - 1)

\* Where the loser goes.
LoserNext(d, m) ==
    IF d.format = "single_bronze" THEN <<R(d), 0>>
    ELSE IF m[1] = 0 THEN <<R(d), m[2] \div 2>>
    ELSE <<R(d) + 2 * m[1] - 1, m[2]>>

\* There is a next match for the loser: the semifinals' in a bracket with a bronze match,
\* everybody's of the winners' bracket in a double elimination.
LoserGoesOn(d, m) ==
    \/ d.format = "single_bronze" /\ m[1] + 2 = R(d)
    \/ d.format = "double" /\ m[1] < R(d)

\* The match a winner goes to is one of the bracket.
LEMMA WinnerLinkExists ==
    ASSUME NEW d, Elimination(d), NEW m \in MatchesOf(d), WinnerGoesOn(d, m)
    PROVE  WinnerNext(d, m) \in MatchesOf(d)
<1> DEFINE r == R(d)
           t == WinnerNext(d, m)
<1>1. r \in Nat /\ r >= 1
  BY RoundsType
<1>2. /\ m \in Nat \X Nat
      /\ \/ InWinners(r, m)
         \/ d.format = "single_bronze" /\ r >= 2 /\ m[1] = r /\ m[2] = 0
         \/ d.format = "double" /\ InLosers(r, m)
         \/ d.format = "double" /\ m[1] = r + 2 * (r - 1) /\ m[2] = 0
  BY MatchesMembers
<1>3. m[1] \in Nat /\ m[2] \in Nat
  BY <1>2
<1>4. CASE m[1] < r - 1
  <2>1. t = <<m[1] + 1, m[2] \div 2>>
    BY <1>4 DEF WinnerNext
  <2>2. r - 2 - m[1] \in Nat /\ r - 1 - m[1] = (r - 2 - m[1]) + 1
    BY <1>1, <1>3, <1>4
  <2>3. Pow2[r - 1 - m[1]] = 2 * Pow2[r - 2 - m[1]] /\ Pow2[r - 2 - m[1]] \in Nat
    BY <2>2, Pow2Facts
  <2>4. m[2] < Pow2[r - 1 - m[1]]
    BY <1>1, <1>2, <1>3, <1>4 DEF InWinners, InLosers
  <2>5. m[2] \div 2 \in Nat /\ m[2] \div 2 < Pow2[r - 2 - m[1]]
    BY <1>3, <2>3, <2>4
  <2>6. t \in Nat \X Nat /\ t[1] = m[1] + 1 /\ t[2] = m[2] \div 2 /\ r - 1 - t[1] = r - 2 - m[1]
    BY <1>1, <1>3, <2>1, <2>5
  <2>7. InWinners(r, t)
    BY <1>1, <1>3, <1>4, <2>5, <2>6 DEF InWinners
  <2> QED BY <2>6, <2>7, MatchesMembers
<1>5. CASE m[1] = r - 1
  <2>1. d.format = "double" /\ t = <<r + 2 * (r - 1), 0>>
    BY <1>1, <1>5 DEF WinnerNext, WinnerGoesOn
  <2>2. t \in Nat \X Nat /\ t[1] = r + 2 * (r - 1) /\ t[2] = 0
    BY <1>1, <2>1
  <2> QED BY <2>1, <2>2, MatchesMembers
<1>6. CASE m[1] >= r
  <2>1. d.format = "double" /\ m[1] # r + 2 * (r - 1)
    BY <1>1, <1>3, <1>6 DEF WinnerGoesOn
  <2>2. InLosers(r, m)
    BY <1>1, <1>2, <1>3, <1>6, <2>1 DEF InWinners
  <2> DEFINE i == m[1] - r
  <2>3. i \in Nat /\ i < 2 * (r - 1) /\ m[1] = r + i
    BY <1>1, <1>3, <1>6, <2>2 DEF InLosers
  <2>4. m[2] < Pow2[r - 2 - (i \div 2)]
    BY <2>2 DEF InLosers
  <2>5. t = <<m[1] + 1, IF i % 2 = 0 THEN m[2] ELSE m[2] \div 2>>
    BY <1>1, <1>3, <1>6 DEF WinnerNext
  <2> SUFFICES t \in MatchesOf(d)
    OBVIOUS
  <2> HIDE DEF i, t
  <2>6. t \in Nat \X Nat /\ t[1] = r + (i + 1) /\ t[2] = (IF i % 2 = 0 THEN m[2] ELSE m[2] \div 2)
    BY <1>1, <1>3, <2>3, <2>5
  <2>7. CASE i + 1 < 2 * (r - 1)
    <3>1. t[1] - r = i + 1 /\ r <= t[1] /\ t[1] < r + 2 * (r - 1)
      BY <1>1, <2>3, <2>6, <2>7
    <3>2. CASE i % 2 = 0
      <4>1. (i + 1) \div 2 = i \div 2
        BY <2>3, <3>2
      <4>2. t[2] < Pow2[r - 2 - ((t[1] - r) \div 2)]
        BY <2>4, <2>6, <3>1, <3>2, <4>1
      <4> QED BY <2>1, <2>6, <3>1, <4>2, MatchesMembers DEF InLosers
    <3>3. CASE i % 2 # 0
      <4>1. (i + 1) \div 2 = (i \div 2) + 1 /\ r - 3 - (i \div 2) \in Nat
        BY <1>1, <2>3, <2>7, <3>3
      <4>2. r - 2 - (i \div 2) = (r - 3 - (i \div 2)) + 1 /\ i \div 2 \in Nat
        BY <1>1, <2>3
      <4>3. /\ Pow2[r - 2 - (i \div 2)] = 2 * Pow2[r - 3 - (i \div 2)]
            /\ Pow2[r - 3 - (i \div 2)] \in Nat
        BY <4>1, <4>2, Pow2Facts
      <4>4. m[2] \div 2 < Pow2[r - 3 - (i \div 2)]
        BY <1>3, <2>4, <4>3
      <4>5. r - 2 - ((t[1] - r) \div 2) = r - 3 - (i \div 2)
        BY <1>1, <3>1, <4>1, <4>2
      <4>6. t[2] < Pow2[r - 2 - ((t[1] - r) \div 2)]
        BY <2>6, <3>3, <4>4, <4>5
      <4> QED BY <2>1, <2>6, <3>1, <4>6, MatchesMembers DEF InLosers
    <3> QED BY <3>2, <3>3
  <2>8. CASE i + 1 >= 2 * (r - 1)
    <3>1. i + 1 = 2 * (r - 1)
      BY <1>1, <2>3, <2>8
    <3>2. i \div 2 = r - 2 /\ i % 2 # 0 /\ r - 2 - (i \div 2) = 0
      BY <1>1, <2>3, <3>1
    <3>3. m[2] = 0
      BY <1>3, <2>4, <3>2, Pow2Facts
    <3>4. t[1] = r + 2 * (r - 1) /\ t[2] = 0
      BY <2>6, <3>1, <3>2, <3>3
    <3> QED BY <2>1, <2>6, <3>4, MatchesMembers
  <2> QED BY <1>1, <2>3, <2>7, <2>8
<1> QED BY <1>1, <1>3, <1>4, <1>5, <1>6

\* So is the match a loser goes to: "a link to a match that does not exist" never drops one
\* but in a draw of two.
LEMMA LoserLinkExists ==
    ASSUME NEW d, Elimination(d), NEW m \in MatchesOf(d), LoserGoesOn(d, m)
    PROVE  LoserNext(d, m) \in MatchesOf(d)
<1> DEFINE r == R(d)
           t == LoserNext(d, m)
<1>1. r \in Nat /\ r >= 1
  BY RoundsType
<1>2. /\ m \in Nat \X Nat
      /\ \/ InWinners(r, m)
         \/ d.format = "single_bronze" /\ r >= 2 /\ m[1] = r /\ m[2] = 0
         \/ d.format = "double" /\ InLosers(r, m)
         \/ d.format = "double" /\ m[1] = r + 2 * (r - 1) /\ m[2] = 0
  BY MatchesMembers
<1>3. m[1] \in Nat /\ m[2] \in Nat
  BY <1>2
<1>4. CASE d.format = "single_bronze" /\ m[1] + 2 = r
  <2>1. t \in Nat \X Nat /\ t[1] = r /\ t[2] = 0 /\ r >= 2
    BY <1>1, <1>3, <1>4 DEF LoserNext
  <2> QED BY <1>4, <2>1, MatchesMembers
<1>5. CASE d.format = "double" /\ m[1] < r
  <2>1. m[2] < Pow2[r - 1 - m[1]]
    BY <1>1, <1>2, <1>3, <1>5 DEF InWinners, InLosers
  <2>2. CASE m[1] = 0
    <3>1. t = <<r, m[2] \div 2>>
      BY <1>5, <2>2 DEF LoserNext
    <3>2. t \in Nat \X Nat /\ t[1] = r /\ t[2] = m[2] \div 2
      BY <1>1, <1>3, <3>1
    <3>3. CASE r = 1
      <4>1. m[2] < 1
        BY <2>1, <2>2, <3>3, Pow2Facts
      <4>2. t[2] = 0 /\ t[1] = r + 2 * (r - 1)
        BY <1>3, <3>2, <3>3, <4>1
      <4> QED BY <1>5, <3>2, <4>2, MatchesMembers
    <3>4. CASE r # 1
      <4>1. r - 2 \in Nat /\ r - 1 - m[1] = (r - 2) + 1 /\ (r - r) \div 2 = 0
        BY <1>1, <2>2, <3>4
      <4>2. Pow2[r - 1 - m[1]] = 2 * Pow2[r - 2] /\ Pow2[r - 2] \in Nat
        BY <4>1, Pow2Facts
      <4>3. t[2] < Pow2[r - 2]
        BY <1>3, <2>1, <3>2, <4>2
      <4>4. r - 2 - ((t[1] - r) \div 2) = r - 2 /\ r <= t[1] /\ t[1] < r + 2 * (r - 1)
        BY <1>1, <3>2, <3>4, <4>1
      <4>5. InLosers(r, t)
        BY <4>3, <4>4 DEF InLosers
      <4> QED BY <1>5, <3>2, <4>5, MatchesMembers
    <3> QED BY <3>3, <3>4
  <2>3. CASE m[1] # 0
    <3>1. t = <<r + 2 * m[1] - 1, m[2]>>
      BY <1>5, <2>3 DEF LoserNext
    <3>2. t \in Nat \X Nat /\ t[1] = r + 2 * m[1] - 1 /\ t[2] = m[2]
      BY <1>1, <1>3, <2>3, <3>1
    <3>3. (2 * m[1] - 1) \div 2 = m[1] - 1 /\ t[1] - r = 2 * m[1] - 1
      BY <1>1, <1>3, <2>3, <3>2
    <3>4. r - 2 - ((t[1] - r) \div 2) = r - 1 - m[1] /\ r <= t[1] /\ t[1] < r + 2 * (r - 1)
      BY <1>1, <1>3, <1>5, <2>3, <3>2, <3>3
    <3>5. InLosers(r, t)
      BY <2>1, <3>2, <3>4 DEF InLosers
    <3> QED BY <1>5, <3>2, <3>5, MatchesMembers
  <2> QED BY <2>2, <2>3
<1> QED BY <1>4, <1>5 DEF LoserGoesOn

\* The winner's link as numbers.
LEMMA WinnerToIs ==
    ASSUME NEW d, Elimination(d), NEW m \in MatchesOf(d)
    PROVE  WinnerTo(d, m) = IF WinnerGoesOn(d, m) THEN {WinnerNext(d, m)} ELSE {}
<1> DEFINE r == RoundsFor(d.size)
<1>1. r \in Nat /\ r >= 1 /\ R(d) = r
  BY RoundsType DEF R
<1> HIDE DEF r
<1>2. m \in Nat \X Nat /\ m[1] \in Nat /\ m[2] \in Nat /\ m = <<m[1], m[2]>>
  BY MatchesMembers
<1>3. GrandFinal(r) = <<r + 2 * (r - 1), 0>>
  BY DEF GrandFinal, LosersRoundsCount
<1>4. WinnerGoesOn(d, m) => Linked(d, WinnerNext(d, m)) = {WinnerNext(d, m)}
  BY WinnerLinkExists DEF Linked
<1>5. CASE m[1] < r - 1
  <2>0. m[1] # r - 1 /\ ~(m[1] >= r)
    BY <1>1, <1>2, <1>5
  <2>1. WinnerTo(d, m) = Linked(d, <<m[1] + 1, m[2] \div 2>>)
    BY <1>5, <2>0 DEF WinnerTo, r
  <2>2. WinnerGoesOn(d, m) /\ WinnerNext(d, m) = <<m[1] + 1, m[2] \div 2>>
    BY <1>1, <1>5 DEF WinnerGoesOn, WinnerNext
  <2> QED BY <1>4, <2>1, <2>2
<1>6. CASE m[1] = r - 1
  <2>1. ~(m[1] < r - 1) /\ m[1] # r + 2 * (r - 1) /\ ~(m[1] >= r)
    BY <1>1, <1>2, <1>6
  <2>2. WinnerTo(d, m) = IF d.format = "double" THEN Linked(d, GrandFinal(r)) ELSE {}
    BY <1>6, <2>1 DEF WinnerTo, r
  <2>3. WinnerGoesOn(d, m) <=> d.format = "double"
    BY <1>1, <1>6, <2>1 DEF WinnerGoesOn
  <2>4. WinnerNext(d, m) = GrandFinal(r)
    BY <1>1, <1>3, <1>6, <2>1 DEF WinnerNext
  <2> QED BY <1>4, <2>2, <2>3, <2>4
<1>7. CASE m[1] >= r
  <2>1. ~(m[1] < r - 1) /\ m[1] # r - 1
    BY <1>1, <1>2, <1>7
  <2>2. CASE d.format # "double" \/ m = GrandFinal(r)
    <3>1. WinnerTo(d, m) = {}
      BY <1>7, <2>1, <2>2 DEF WinnerTo, r
    <3>2. ~WinnerGoesOn(d, m)
      BY <1>1, <1>3, <2>1, <2>2 DEF WinnerGoesOn
    <3> QED BY <3>1, <3>2
  <2>3. CASE ~(d.format # "double" \/ m = GrandFinal(r))
    <3>1. WinnerTo(d, m)
            = Linked(d, <<m[1] + 1, IF (m[1] - r) % 2 = 0 THEN m[2] ELSE m[2] \div 2>>)
      BY <2>1, <2>3 DEF WinnerTo, r
    <3>2. WinnerNext(d, m) = <<m[1] + 1, IF (m[1] - r) % 2 = 0 THEN m[2] ELSE m[2] \div 2>>
      BY <1>1, <2>1 DEF WinnerNext
    <3>3. m[1] = r + 2 * (r - 1) => m[2] = 0
      BY <1>1, <1>2, <1>7, MatchesMembers DEF InWinners, InLosers
    <3>4. WinnerGoesOn(d, m)
      BY <1>1, <1>2, <1>3, <2>3, <3>3 DEF WinnerGoesOn
    <3> QED BY <1>4, <3>1, <3>2, <3>4
  <2> QED BY <2>2, <2>3
<1> QED BY <1>1, <1>2, <1>5, <1>6, <1>7

\* The loser's link as numbers.
LEMMA LoserToIs ==
    ASSUME NEW d, Elimination(d), NEW m \in MatchesOf(d)
    PROVE  LoserTo(d, m) = IF LoserGoesOn(d, m) THEN {LoserNext(d, m)} ELSE {}
<1> DEFINE r == RoundsFor(d.size)
<1>1. r \in Nat /\ r >= 1 /\ R(d) = r
  BY RoundsType DEF R
<1> HIDE DEF r
<1>2. m \in Nat \X Nat /\ m[1] \in Nat /\ m[2] \in Nat
  BY MatchesMembers
<1>3. LoserGoesOn(d, m) => Linked(d, LoserNext(d, m)) = {LoserNext(d, m)}
  BY LoserLinkExists DEF Linked
<1>4. CASE d.format = "single_bronze" /\ m[1] + 2 = r
  <2>1. LoserTo(d, m) = Linked(d, <<r, 0>>)
    BY <1>4 DEF LoserTo, BronzeMatch, r
  <2>2. LoserGoesOn(d, m) /\ LoserNext(d, m) = <<r, 0>>
    BY <1>1, <1>4 DEF LoserGoesOn, LoserNext
  <2> QED BY <1>3, <2>1, <2>2
<1>5. CASE d.format = "double" /\ m[1] < r
  <2>1. LoserTo(d, m)
          = Linked(d, <<r + LosersRound(m[1]), IF m[1] = 0 THEN m[2] \div 2 ELSE m[2]>>)
    BY <1>5 DEF LoserTo, r
  <2>2. LoserGoesOn(d, m)
    BY <1>1, <1>5 DEF LoserGoesOn
  <2>3. LoserNext(d, m) = <<r + LosersRound(m[1]), IF m[1] = 0 THEN m[2] \div 2 ELSE m[2]>>
    <3>1. r + LosersRound(m[1]) = IF m[1] = 0 THEN r ELSE r + 2 * m[1] - 1
      BY <1>1, <1>2 DEF LosersRound
    <3> QED BY <1>1, <1>5, <3>1 DEF LoserNext
  <2> QED BY <1>3, <2>1, <2>2, <2>3
<1>6. CASE ~LoserGoesOn(d, m)
  <2>1. ~(d.format = "single_bronze" /\ m[1] + 2 = r) /\ ~(d.format = "double" /\ m[1] < r)
    BY <1>1, <1>6 DEF LoserGoesOn
  <2>2. LoserTo(d, m) = {}
    BY <2>1 DEF LoserTo, r
  <2> QED BY <1>6, <2>2
<1> QED BY <1>1, <1>4, <1>5, <1>6 DEF LoserGoesOn

\* The two ways out of a match, in one notation.
Outcomes == {"winner", "loser"}

GoesOn(d, o, m) == IF o = "winner" THEN WinnerGoesOn(d, m) ELSE LoserGoesOn(d, m)
NextOf(d, o, m) == IF o = "winner" THEN WinnerNext(d, m) ELSE LoserNext(d, m)

\* Either link as numbers.
LEMMA TargetIs ==
    ASSUME NEW d, Elimination(d), NEW m \in MatchesOf(d), NEW o \in Outcomes
    PROVE  /\ Target(d, o, m) = IF GoesOn(d, o, m) THEN {NextOf(d, o, m)} ELSE {}
           /\ GoesOn(d, o, m) => NextOf(d, o, m) \in MatchesOf(d)
<1>1. CASE o = "winner"
  BY <1>1, WinnerToIs, WinnerLinkExists DEF Target, GoesOn, NextOf
<1>2. CASE o = "loser"
  BY <1>2, LoserToIs, LoserLinkExists DEF Target, GoesOn, NextOf
<1> QED BY <1>1, <1>2 DEF Outcomes

\* A link leads to one match, of a later round; a loser's out of the winners' bracket, and a
\* winner's out of it only to the grand final.
LEMMA TargetFacts ==
    ASSUME NEW d, Elimination(d), NEW m \in MatchesOf(d), NEW o \in Outcomes,
           NEW t \in Target(d, o, m)
    PROVE  /\ t \in MatchesOf(d)
           /\ \A u \in Target(d, o, m) : u = t
           /\ t[1] \in Nat /\ t[2] \in Nat /\ m[1] \in Nat /\ m[2] \in Nat
           /\ t[1] > m[1]
           /\ o = "loser" => m[1] < R(d) /\ t[1] >= R(d)
           /\ o = "winner" /\ m[1] < R(d) /\ t[1] >= R(d)
                => d.format = "double" /\ t = GrandFinal(R(d))
           /\ m[1] >= R(d) => d.format = "double"
<1> DEFINE r == R(d)
<1>1. r \in Nat /\ r >= 1
  BY RoundsType
<1>2. /\ GoesOn(d, o, m) /\ t = NextOf(d, o, m) /\ t \in MatchesOf(d)
      /\ \A u \in Target(d, o, m) : u = t
  BY TargetIs
<1>3. t[1] \in Nat /\ t[2] \in Nat /\ m[1] \in Nat /\ m[2] \in Nat /\ t = <<t[1], t[2]>>
  BY <1>2, MatchesMembers
<1> HIDE DEF r
<1>4. CASE o = "winner"
  <2>1. WinnerGoesOn(d, m) /\ t = WinnerNext(d, m)
    BY <1>2, <1>4 DEF GoesOn, NextOf
  <2>2. CASE m[1] < r - 1
    <3>1. t[1] = m[1] + 1
      BY <1>1, <2>1, <2>2 DEF WinnerNext, r
    <3> QED BY <1>1, <1>2, <1>3, <1>4, <2>2, <3>1 DEF r
  <2>3. CASE m[1] = r - 1
    <3>1. t = <<r + 2 * (r - 1), 0>> /\ d.format = "double"
      BY <1>1, <1>3, <2>1, <2>3 DEF WinnerNext, WinnerGoesOn, r
    <3>2. t[1] = r + 2 * (r - 1) /\ t = GrandFinal(r)
      BY <3>1 DEF GrandFinal, LosersRoundsCount
    <3> QED BY <1>1, <1>2, <1>3, <1>4, <2>3, <3>1, <3>2 DEF r
  <2>4. CASE m[1] >= r
    <3>1. t[1] = m[1] + 1 /\ d.format = "double"
      BY <1>1, <1>3, <2>1, <2>4 DEF WinnerNext, WinnerGoesOn, r
    <3> QED BY <1>1, <1>2, <1>3, <1>4, <2>4, <3>1 DEF r
  <2> QED BY <1>1, <1>3, <2>2, <2>3, <2>4
<1>5. CASE o = "loser"
  <2>1. LoserGoesOn(d, m) /\ t = LoserNext(d, m)
    BY <1>2, <1>5 DEF GoesOn, NextOf
  <2>2. m[1] < r
    BY <1>1, <1>3, <2>1 DEF LoserGoesOn, r
  <2>3. t[1] >= r
    BY <1>1, <1>3, <2>1 DEF LoserNext, r
  <2> QED BY <1>1, <1>2, <1>3, <1>5, <2>2, <2>3 DEF r
<1> QED BY <1>4, <1>5 DEF Outcomes

\* The two links that lead to t.
AreFeeders(d, t, f1, o1, f2, o2) ==
    /\ f1 \in MatchesOf(d) /\ f2 \in MatchesOf(d)
    /\ o1 \in Outcomes /\ o2 \in Outcomes
    /\ <<f1, o1>> # <<f2, o2>>
    /\ \A f \in MatchesOf(d), o \in Outcomes :
         t \in Target(d, o, f) <=> \/ f = f1 /\ o = o1
                                   \/ f = f2 /\ o = o2

\* A later match of the winners' bracket gets the winners of the two matches before it.
LEMMA WinnersFeeders ==
    ASSUME NEW d, Elimination(d), NEW t \in MatchesOf(d), t[1] # 0, InWinners(R(d), t)
    PROVE  AreFeeders(d, t, <<t[1] - 1, 2 * t[2]>>, "winner", <<t[1] - 1, 2 * t[2] + 1>>, "winner")
<1> DEFINE r == R(d)
           a == <<t[1] - 1, 2 * t[2]>>
           b == <<t[1] - 1, 2 * t[2] + 1>>
<1>1. r \in Nat /\ r >= 1
  BY RoundsType
<1>2. t[1] \in Nat /\ t[2] \in Nat /\ t = <<t[1], t[2]>> /\ t[1] >= 1 /\ t[1] < r
  BY MatchesMembers DEF InWinners
<1>3. t[2] < Pow2[r - 1 - t[1]]
  BY DEF InWinners
<1>4. Pow2[r - t[1]] = 2 * Pow2[r - 1 - t[1]] /\ Pow2[r - 1 - t[1]] \in Nat
  <2>1. r - 1 - t[1] \in Nat /\ r - t[1] = (r - 1 - t[1]) + 1
    BY <1>1, <1>2
  <2> QED BY <2>1, Pow2Facts
<1>5. r - 1 - (t[1] - 1) = r - t[1]
  BY <1>1, <1>2
<1> SUFFICES AreFeeders(d, t, a, "winner", b, "winner")
  OBVIOUS
<1>6. /\ a \in Nat \X Nat /\ b \in Nat \X Nat /\ a[1] = t[1] - 1 /\ b[1] = t[1] - 1
      /\ a[2] = 2 * t[2] /\ b[2] = 2 * t[2] + 1
  BY <1>2
<1> HIDE DEF r, a, b
<1>7. a \in MatchesOf(d) /\ b \in MatchesOf(d) /\ a # b
  <2>1. InWinners(r, a) /\ InWinners(r, b)
    BY <1>1, <1>2, <1>3, <1>4, <1>5, <1>6 DEF InWinners
  <2> QED BY <1>2, <1>6, <2>1, MatchesMembers DEF r
<1>8. ASSUME NEW f \in MatchesOf(d), NEW o \in Outcomes, t \in Target(d, o, f)
      PROVE  o = "winner" /\ (f = a \/ f = b)
  <2>1. o = "winner"
    BY <1>1, <1>2, <1>8, TargetFacts DEF r, Outcomes
  <2>2. /\ WinnerGoesOn(d, f) /\ t = WinnerNext(d, f)
        /\ f = <<f[1], f[2]>> /\ f[1] \in Nat /\ f[2] \in Nat
    BY <1>8, <2>1, TargetIs, MatchesMembers DEF GoesOn, NextOf
  <2>3. f[1] < r - 1
    BY <1>1, <1>2, <2>2 DEF WinnerNext, r
  <2>4. t[1] = f[1] + 1 /\ t[2] = f[2] \div 2
    BY <2>2, <2>3 DEF WinnerNext, r
  <2>5. f[2] = 2 * t[2] \/ f[2] = 2 * t[2] + 1
    BY <2>2, <2>4
  <2> QED BY <1>6, <2>1, <2>2, <2>4, <2>5 DEF a, b
<1>9. ASSUME NEW f \in {a, b}
      PROVE  t \in Target(d, "winner", f)
  <2>1. f[1] < r - 1 /\ f[1] + 1 = t[1] /\ f[2] \div 2 = t[2]
    BY <1>1, <1>2, <1>6
  <2>2. WinnerGoesOn(d, f) /\ WinnerNext(d, f) = t
    BY <1>2, <2>1 DEF WinnerGoesOn, WinnerNext, r
  <2> QED BY <1>7, <2>2, TargetIs DEF GoesOn, NextOf, Outcomes
<1> QED BY <1>7, <1>8, <1>9 DEF AreFeeders, Outcomes

\* The bronze match gets the losers of both semifinals.
LEMMA BronzeFeeders ==
    ASSUME NEW d, Elimination(d), NEW t \in MatchesOf(d),
           d.format = "single_bronze", R(d) >= 2, t[1] = R(d), t[2] = 0
    PROVE  AreFeeders(d, t, <<R(d) - 2, 0>>, "loser", <<R(d) - 2, 1>>, "loser")
<1> DEFINE r == R(d)
           a == <<r - 2, 0>>
           b == <<r - 2, 1>>
<1>1. r \in Nat /\ r >= 2
  BY RoundsType
<1>2. t = <<r, 0>>
  BY MatchesMembers
<1>3. Pow2[r - 1 - (r - 2)] = 2
  <2>1. Pow2[0 + 1] = 2
    BY Pow2Facts
  <2> QED BY <1>1, <2>1
<1> SUFFICES AreFeeders(d, t, a, "loser", b, "loser")
  OBVIOUS
<1>6. /\ a \in Nat \X Nat /\ b \in Nat \X Nat /\ a[1] = r - 2 /\ b[1] = r - 2
      /\ a[2] = 0 /\ b[2] = 1
  BY <1>1
<1> HIDE DEF r, a, b
<1>7. a \in MatchesOf(d) /\ b \in MatchesOf(d) /\ a # b
  <2>1. InWinners(r, a) /\ InWinners(r, b)
    BY <1>1, <1>3, <1>6 DEF InWinners
  <2> QED BY <1>6, <2>1, MatchesMembers DEF r
<1>8. ASSUME NEW f \in MatchesOf(d), NEW o \in Outcomes, t \in Target(d, o, f)
      PROVE  o = "loser" /\ (f = a \/ f = b)
  <2>0. f = <<f[1], f[2]>> /\ f[1] \in Nat /\ f[2] \in Nat
    BY MatchesMembers
  <2>1. o = "loser"
    <3>1. SUFFICES ASSUME o = "winner" PROVE FALSE
      BY DEF Outcomes
    <3>2. WinnerGoesOn(d, f) /\ t = WinnerNext(d, f)
      BY <1>8, <3>1, TargetIs DEF GoesOn, NextOf
    <3>3. f[1] < r - 1 /\ t[1] = f[1] + 1
      BY <2>0, <3>2 DEF WinnerGoesOn, WinnerNext, r
    <3> QED BY <1>1, <1>2, <2>0, <3>3
  <2>2. LoserGoesOn(d, f)
    BY <1>8, <2>1, TargetIs DEF GoesOn, NextOf
  <2>3. f[1] = r - 2
    BY <1>1, <2>0, <2>2 DEF LoserGoesOn, r
  <2>4. InWinners(r, f)
    BY <1>1, <2>0, <2>3, MatchesMembers DEF r
  <2>5. f[2] = 0 \/ f[2] = 1
    BY <1>1, <1>3, <2>0, <2>3, <2>4 DEF InWinners
  <2> QED BY <2>0, <2>1, <2>3, <2>5 DEF a, b
<1>9. ASSUME NEW f \in {a, b}
      PROVE  t \in Target(d, "loser", f)
  <2>1. f[1] + 2 = r
    BY <1>1, <1>6
  <2>2. LoserGoesOn(d, f) /\ LoserNext(d, f) = t
    BY <1>2, <2>1 DEF LoserGoesOn, LoserNext, r
  <2> QED BY <1>7, <2>2, TargetIs DEF GoesOn, NextOf, Outcomes
<1> QED BY <1>7, <1>8, <1>9 DEF AreFeeders, Outcomes

\* The feeders of the losers' round i: of the first, the losers of the first round; of an odd
\* one, those who drop in and those who stay; of another, those who stay.
LEMMA LosersFeeders ==
    ASSUME NEW d, Elimination(d), NEW t \in MatchesOf(d),
           d.format = "double", InLosers(R(d), t)
    PROVE  \E f1 \in MatchesOf(d), f2 \in MatchesOf(d), o1 \in Outcomes, o2 \in Outcomes :
             AreFeeders(d, t, f1, o1, f2, o2)
<1> DEFINE r == R(d)
           i == t[1] - r
<1>1. r \in Nat /\ r >= 1
  BY RoundsType
<1>2. t[1] \in Nat /\ t[2] \in Nat /\ t = <<t[1], t[2]>> /\ t[1] = r + i
  BY <1>1, MatchesMembers
<1>3. i \in Nat /\ i < 2 * (r - 1) /\ t[2] < Pow2[r - 2 - (i \div 2)] /\ r >= 2
  BY <1>1, <1>2 DEF InLosers
<1> HIDE DEF r, i
<1>4. ASSUME NEW f \in MatchesOf(d)
      PROVE  /\ f = <<f[1], f[2]>> /\ f[1] \in Nat /\ f[2] \in Nat
             /\ t \in Target(d, "winner", f)
                  <=> /\ f[1] >= r /\ f[1] + 1 = r + i
                      /\ t[2] = IF (f[1] - r) % 2 = 0 THEN f[2] ELSE f[2] \div 2
             /\ t \in Target(d, "loser", f)
                  <=> /\ f[1] < r
                      /\ r + i = IF f[1] = 0 THEN r ELSE r + 2 * f[1] - 1
                      /\ t[2] = IF f[1] = 0 THEN f[2] \div 2 ELSE f[2]
  <2>1. f = <<f[1], f[2]>> /\ f[1] \in Nat /\ f[2] \in Nat
    BY MatchesMembers
  <2>2. t \in Target(d, "winner", f) <=> WinnerGoesOn(d, f) /\ t = WinnerNext(d, f)
    BY TargetIs DEF GoesOn, NextOf, Outcomes
  <2>3. t \in Target(d, "loser", f) <=> LoserGoesOn(d, f) /\ t = LoserNext(d, f)
    BY TargetIs DEF GoesOn, NextOf, Outcomes
  <2>4. t = WinnerNext(d, f) <=> /\ t[1] = WinnerNext(d, f)[1]
                                 /\ t[2] = WinnerNext(d, f)[2]
    BY <1>2, <2>1 DEF WinnerNext
  <2>5. t = LoserNext(d, f) <=> /\ t[1] = LoserNext(d, f)[1]
                                /\ t[2] = LoserNext(d, f)[2]
    BY <1>2, <2>1 DEF LoserNext
  <2>6. t \in Target(d, "winner", f)
          <=> /\ f[1] >= r /\ f[1] + 1 = r + i
              /\ t[2] = IF (f[1] - r) % 2 = 0 THEN f[2] ELSE f[2] \div 2
    <3>1. CASE f[1] < r - 1
      <4>1. WinnerNext(d, f)[1] = f[1] + 1
        BY <3>1 DEF WinnerNext, r
      <4> QED BY <1>1, <1>2, <1>3, <2>1, <2>2, <2>4, <3>1, <4>1
    <3>2. CASE f[1] = r - 1
      <4>1. WinnerNext(d, f)[1] = r + 2 * (r - 1)
        BY <1>1, <3>2 DEF WinnerNext, r
      <4> QED BY <1>1, <1>2, <1>3, <2>1, <2>2, <2>4, <3>2, <4>1
    <3>3. CASE f[1] >= r
      <4>1. /\ WinnerNext(d, f)[1] = f[1] + 1
            /\ WinnerNext(d, f)[2] = IF (f[1] - r) % 2 = 0 THEN f[2] ELSE f[2] \div 2
        BY <1>1, <2>1, <3>3 DEF WinnerNext, r
      <4>2. WinnerGoesOn(d, f) <=> f[1] # r + 2 * (r - 1)
        BY <1>1, <2>1, <3>3 DEF WinnerGoesOn, r
      <4> QED BY <1>1, <1>2, <1>3, <2>1, <2>2, <2>4, <3>3, <4>1, <4>2
    <3> QED BY <1>1, <2>1, <3>1, <3>2, <3>3
  <2>7. LoserGoesOn(d, f) <=> f[1] < r
    BY DEF LoserGoesOn, r
  <2>8. /\ LoserNext(d, f)[1] = IF f[1] = 0 THEN r ELSE r + 2 * f[1] - 1
        /\ LoserNext(d, f)[2] = IF f[1] = 0 THEN f[2] \div 2 ELSE f[2]
    BY <2>1 DEF LoserNext, r
  <2> QED BY <1>2, <2>1, <2>3, <2>5, <2>6, <2>7, <2>8
<1>5. CASE i = 0
  <2> DEFINE a == <<0, 2 * t[2]>>
             b == <<0, 2 * t[2] + 1>>
  <2>1. Pow2[r - 1] = 2 * Pow2[r - 2] /\ Pow2[r - 2] \in Nat
    <3>1. r - 2 \in Nat /\ r - 1 = (r - 2) + 1
      BY <1>1, <1>3
    <3> QED BY <3>1, Pow2Facts
  <2>2. t[2] < Pow2[r - 2]
    <3>1. r - 2 - (i \div 2) = r - 2
      BY <1>1, <1>5
    <3> QED BY <1>3, <3>1
  <2>3. /\ a \in Nat \X Nat /\ b \in Nat \X Nat /\ a[1] = 0 /\ b[1] = 0
        /\ a[2] = 2 * t[2] /\ b[2] = 2 * t[2] + 1
    BY <1>2
  <2> HIDE DEF a, b
  <2>4. a \in MatchesOf(d) /\ b \in MatchesOf(d) /\ a # b
    <3>1. r - 1 - 0 = r - 1
      BY <1>1
    <3>2. InWinners(r, a) /\ InWinners(r, b)
      BY <1>1, <1>2, <2>1, <2>2, <2>3, <3>1 DEF InWinners
    <3> QED BY <1>2, <2>3, <3>2, MatchesMembers DEF r
  <2>5. AreFeeders(d, t, a, "loser", b, "loser")
    <3>1. ASSUME NEW f \in MatchesOf(d)
          PROVE  t \in Target(d, "loser", f) <=> f = a \/ f = b
      <4>1. t \in Target(d, "loser", f) <=> f[1] = 0 /\ t[2] = f[2] \div 2
        BY <1>1, <1>4, <1>5
      <4>2. t[2] = f[2] \div 2 <=> f[2] = 2 * t[2] \/ f[2] = 2 * t[2] + 1
        BY <1>2, <1>4
      <4> QED BY <1>4, <2>3, <4>1, <4>2 DEF a, b
    <3>2. ASSUME NEW f \in MatchesOf(d)
          PROVE  t \notin Target(d, "winner", f)
      BY <1>1, <1>4, <1>5
    <3> QED BY <2>4, <3>1, <3>2 DEF AreFeeders, Outcomes
  <2> QED BY <2>4, <2>5 DEF Outcomes
<1>6. CASE i % 2 = 1
  <2> DEFINE k == (i + 1) \div 2
             a == <<k, t[2]>>
             b == <<t[1] - 1, t[2]>>
  <2>1. k \in Nat /\ k >= 1 /\ k <= r - 1 /\ i = 2 * k - 1 /\ i \div 2 = k - 1
    BY <1>1, <1>3, <1>6
  <2> HIDE DEF k
  <2>2. t[2] < Pow2[r - 1 - k]
    <3>1. r - 2 - (i \div 2) = r - 1 - k
      BY <1>1, <2>1
    <3> QED BY <1>3, <3>1
  <2>3. /\ a \in Nat \X Nat /\ b \in Nat \X Nat /\ a[1] = k /\ b[1] = t[1] - 1
        /\ a[2] = t[2] /\ b[2] = t[2]
    BY <1>1, <1>2, <2>1
  <2> HIDE DEF a, b
  <2>4. a \in MatchesOf(d)
    <3>1. InWinners(r, a)
      BY <1>1, <2>1, <2>2, <2>3 DEF InWinners
    <3> QED BY <2>3, <3>1, MatchesMembers DEF r
  <2>5. b \in MatchesOf(d)
    <3>1. b[1] - r = 2 * (k - 1) /\ (b[1] - r) \div 2 = k - 1
      BY <1>1, <1>2, <2>1, <2>3
    <3>2. r - 2 - ((b[1] - r) \div 2) = r - 1 - k
      BY <1>1, <2>1, <3>1
    <3>3. InLosers(r, b)
      BY <1>1, <1>2, <2>1, <2>2, <2>3, <3>1, <3>2 DEF InLosers
    <3> QED BY <2>3, <3>3, MatchesMembers DEF r
  <2>6. AreFeeders(d, t, a, "loser", b, "winner")
    <3>1. ASSUME NEW f \in MatchesOf(d)
          PROVE  t \in Target(d, "loser", f) <=> f = a
      <4>1. t \in Target(d, "loser", f) <=> f[1] = k /\ t[2] = f[2]
        BY <1>1, <1>4, <2>1
      <4> QED BY <1>4, <2>3, <4>1 DEF a
    <3>2. ASSUME NEW f \in MatchesOf(d)
          PROVE  t \in Target(d, "winner", f) <=> f = b
      <4>1. f[1] >= r /\ f[1] + 1 = r + i => (f[1] - r) % 2 = 0
        BY <1>1, <1>4, <2>1
      <4>2. t \in Target(d, "winner", f) <=> f[1] + 1 = r + i /\ t[2] = f[2]
        BY <1>1, <1>4, <2>1, <4>1
      <4> QED BY <1>2, <1>4, <2>3, <4>2 DEF b
    <3> QED BY <2>4, <2>5, <3>1, <3>2 DEF AreFeeders, Outcomes
  <2> QED BY <2>4, <2>5, <2>6 DEF Outcomes
<1>7. CASE i # 0 /\ i % 2 = 0
  <2> DEFINE k == i \div 2
             a == <<t[1] - 1, 2 * t[2]>>
             b == <<t[1] - 1, 2 * t[2] + 1>>
  <2>1. k \in Nat /\ k >= 1 /\ k <= r - 2 /\ i = 2 * k
    BY <1>1, <1>3, <1>7
  <2>2. t[2] < Pow2[r - 2 - k]
    BY <1>3
  <2> HIDE DEF k
  <2>3. Pow2[r - 1 - k] = 2 * Pow2[r - 2 - k] /\ Pow2[r - 2 - k] \in Nat
    <3>1. r - 2 - k \in Nat /\ r - 1 - k = (r - 2 - k) + 1
      BY <1>1, <2>1
    <3> QED BY <3>1, Pow2Facts
  <2>4. /\ a \in Nat \X Nat /\ b \in Nat \X Nat /\ a[1] = t[1] - 1 /\ b[1] = t[1] - 1
        /\ a[2] = 2 * t[2] /\ b[2] = 2 * t[2] + 1
    BY <1>1, <1>2, <2>1
  <2> HIDE DEF a, b
  <2>5. a \in MatchesOf(d) /\ b \in MatchesOf(d) /\ a # b
    <3>1. t[1] - 1 - r = 2 * k - 1 /\ (t[1] - 1 - r) \div 2 = k - 1
      BY <1>1, <1>2, <2>1
    <3>2. r - 2 - ((t[1] - 1 - r) \div 2) = r - 1 - k
      BY <1>1, <2>1, <3>1
    <3>3. r <= t[1] - 1 /\ t[1] - 1 < r + 2 * (r - 1)
      BY <1>1, <1>2, <2>1
    <3>4. InLosers(r, a)
      BY <1>2, <2>2, <2>3, <2>4, <3>2, <3>3 DEF InLosers
    <3>5. InLosers(r, b)
      BY <1>2, <2>2, <2>3, <2>4, <3>2, <3>3 DEF InLosers
    <3> QED BY <1>2, <2>4, <3>4, <3>5, MatchesMembers DEF r
  <2>6. AreFeeders(d, t, a, "winner", b, "winner")
    <3>1. ASSUME NEW f \in MatchesOf(d)
          PROVE  t \in Target(d, "winner", f) <=> f = a \/ f = b
      <4>1. f[1] >= r /\ f[1] + 1 = r + i => (f[1] - r) % 2 # 0
        BY <1>1, <1>4, <2>1
      <4>2. t \in Target(d, "winner", f) <=> f[1] + 1 = r + i /\ t[2] = f[2] \div 2
        BY <1>1, <1>4, <2>1, <4>1
      <4>3. t[2] = f[2] \div 2 <=> f[2] = 2 * t[2] \/ f[2] = 2 * t[2] + 1
        BY <1>2, <1>4
      <4> QED BY <1>1, <1>2, <1>4, <2>4, <4>2, <4>3 DEF a, b
    <3>2. ASSUME NEW f \in MatchesOf(d)
          PROVE  t \notin Target(d, "loser", f)
      BY <1>1, <1>4, <2>1
    <3> QED BY <2>5, <3>1, <3>2 DEF AreFeeders, Outcomes
  <2> QED BY <2>5, <2>6 DEF Outcomes
<1> QED BY <1>3, <1>5, <1>6, <1>7

\* The grand final gets the winners of both brackets.
LEMMA FinalFeeders ==
    ASSUME NEW d, Elimination(d), NEW t \in MatchesOf(d),
           d.format = "double", t[1] = R(d) + 2 * (R(d) - 1), t[2] = 0
    PROVE  \E f1 \in MatchesOf(d), f2 \in MatchesOf(d), o1 \in Outcomes, o2 \in Outcomes :
             AreFeeders(d, t, f1, o1, f2, o2)
<1> DEFINE r == R(d)
           a == <<r - 1, 0>>
           b == IF r = 1 THEN a ELSE <<r + 2 * (r - 1) - 1, 0>>
           o == IF r = 1 THEN "loser" ELSE "winner"
<1>1. r \in Nat /\ r >= 1
  BY RoundsType
<1>2. t = <<r + 2 * (r - 1), 0>> /\ t[1] \in Nat
  BY MatchesMembers DEF r
<1> HIDE DEF r
<1>3. Pow2[0] = 1
  BY Pow2Facts
<1>4. a \in MatchesOf(d)
  <2>1. a \in Nat \X Nat /\ a[1] = r - 1 /\ a[2] = 0 /\ r - 1 - (r - 1) = 0
    BY <1>1
  <2>2. InWinners(r, a)
    BY <1>1, <1>3, <2>1 DEF InWinners
  <2> QED BY <2>1, <2>2, MatchesMembers DEF r
<1>5. b \in MatchesOf(d)
  <2>1. CASE r = 1
    BY <1>4, <2>1
  <2>2. CASE r # 1
    <3>1. b \in Nat \X Nat /\ b[1] = r + 2 * (r - 1) - 1 /\ b[2] = 0
      BY <1>1, <2>2
    <3>2. b[1] - r = 2 * (r - 1) - 1 /\ (b[1] - r) \div 2 = r - 2
      BY <1>1, <2>2, <3>1
    <3>3. r - 2 - ((b[1] - r) \div 2) = 0
      BY <1>1, <3>2
    <3>4. InLosers(r, b)
      BY <1>1, <1>3, <2>2, <3>1, <3>3 DEF InLosers
    <3> QED BY <3>1, <3>4, MatchesMembers DEF r
  <2> QED BY <2>1, <2>2
<1>6. <<a, "winner">> # <<b, o>>
  <2>1. CASE r = 1
    BY <2>1
  <2>2. CASE r # 1
    <3>1. a # b
      BY <1>1, <2>2
    <3> QED BY <3>1
  <2> QED BY <2>1, <2>2
<1>7. ASSUME NEW f \in MatchesOf(d)
      PROVE  /\ t \in Target(d, "winner", f) <=> f = a \/ (o = "winner" /\ f = b)
             /\ t \in Target(d, "loser", f) <=> o = "loser" /\ f = b
  <2>1. /\ f = <<f[1], f[2]>> /\ f[1] \in Nat /\ f[2] \in Nat
        /\ \/ InWinners(r, f)
           \/ InLosers(r, f)
           \/ f[1] = r + 2 * (r - 1) /\ f[2] = 0
    BY MatchesMembers DEF r
  <2>2. t \in Target(d, "winner", f) <=> WinnerGoesOn(d, f) /\ t = WinnerNext(d, f)
    BY TargetIs DEF GoesOn, NextOf, Outcomes
  <2>3. t \in Target(d, "loser", f) <=> LoserGoesOn(d, f) /\ t = LoserNext(d, f)
    BY TargetIs DEF GoesOn, NextOf, Outcomes
  <2>4. f = a <=> f[1] = r - 1
    <3>1. ASSUME f[1] = r - 1 PROVE f[2] = 0
      <4>1. InWinners(r, f)
        BY <1>1, <2>1, <3>1 DEF InLosers
      <4>2. r - 1 - f[1] = 0
        BY <1>1, <3>1
      <4> QED BY <1>3, <2>1, <4>1, <4>2 DEF InWinners
    <3> QED BY <2>1, <3>1
  <2>5. r # 1 => (f = b <=> f[1] = r + 2 * (r - 1) - 1)
    <3>1. ASSUME r # 1, f[1] = r + 2 * (r - 1) - 1 PROVE f[2] = 0
      <4>1. InLosers(r, f)
        BY <1>1, <2>1, <3>1 DEF InWinners
      <4>2. f[1] - r = 2 * (r - 1) - 1 /\ (f[1] - r) \div 2 = r - 2
        BY <1>1, <3>1
      <4>3. r - 2 - ((f[1] - r) \div 2) = 0
        BY <1>1, <4>2
      <4> QED BY <1>3, <2>1, <4>1, <4>3 DEF InLosers
    <3> QED BY <2>1, <3>1
  <2>6. t \in Target(d, "winner", f) <=> f[1] = r - 1 \/ (r # 1 /\ f[1] = r + 2 * (r - 1) - 1)
    <3>1. CASE f[1] < r - 1
      <4>1. WinnerNext(d, f) = <<f[1] + 1, f[2] \div 2>>
        BY <3>1 DEF WinnerNext, r
      <4> QED BY <1>1, <1>2, <2>1, <2>2, <3>1, <4>1
    <3>2. CASE f[1] = r - 1
      <4>1. WinnerNext(d, f) = t
        BY <1>1, <1>2, <3>2 DEF WinnerNext, r
      <4>2. WinnerGoesOn(d, f)
        BY <1>1, <3>2 DEF WinnerGoesOn, r
      <4> QED BY <2>2, <3>2, <4>1, <4>2
    <3>3. CASE f[1] >= r /\ f[1] = r + 2 * (r - 1)
      <4>1. ~WinnerGoesOn(d, f)
        BY <1>1, <3>3 DEF WinnerGoesOn, r
      <4> QED BY <1>1, <2>1, <2>2, <3>3, <4>1
    <3>4. CASE f[1] >= r /\ f[1] # r + 2 * (r - 1)
      <4>1. InLosers(r, f)
        BY <1>1, <2>1, <3>4 DEF InWinners
      <4>2. WinnerNext(d, f) = <<f[1] + 1, IF (f[1] - r) % 2 = 0 THEN f[2] ELSE f[2] \div 2>>
        BY <1>1, <2>1, <3>4 DEF WinnerNext, r
      <4>3. r # 1
        BY <1>1, <2>1, <4>1 DEF InLosers
      <4>4. ASSUME f[1] = r + 2 * (r - 1) - 1 PROVE f[2] = 0 /\ (f[1] - r) % 2 # 0
        BY <1>1, <2>1, <2>5, <4>3, <4>4
      <4>5. WinnerGoesOn(d, f)
        BY <3>4 DEF WinnerGoesOn, r
      <4>6. ASSUME f[1] = r + 2 * (r - 1) - 1 PROVE t = WinnerNext(d, f)
        BY <1>1, <1>2, <2>1, <4>2, <4>4, <4>6
      <4>7. ASSUME t = WinnerNext(d, f) PROVE f[1] = r + 2 * (r - 1) - 1
        BY <1>1, <1>2, <2>1, <4>2, <4>7
      <4> QED BY <1>1, <2>1, <2>2, <3>4, <4>3, <4>5, <4>6, <4>7
    <3> QED BY <1>1, <2>1, <3>1, <3>2, <3>3, <3>4
  <2>7. t \in Target(d, "loser", f) <=> r = 1 /\ f[1] = 0
    <3>1. ASSUME LoserGoesOn(d, f), t = LoserNext(d, f) PROVE r = 1 /\ f[1] = 0
      <4>1. f[1] < r
        BY <3>1 DEF LoserGoesOn, r
      <4>2. t[1] = IF f[1] = 0 THEN r ELSE r + 2 * f[1] - 1
        BY <2>1, <3>1 DEF LoserNext, r
      <4> QED BY <1>1, <1>2, <2>1, <4>1, <4>2
    <3>2. ASSUME r = 1, f[1] = 0 PROVE LoserGoesOn(d, f) /\ t = LoserNext(d, f)
      <4>1. f[2] = 0
        BY <2>1, <2>4, <3>2
      <4> QED BY <1>2, <3>2, <4>1 DEF LoserGoesOn, LoserNext, r
    <3> QED BY <2>3, <3>1, <3>2
  <2> QED BY <1>1, <2>1, <2>4, <2>5, <2>6, <2>7
<1> HIDE DEF a, b
<1>8. AreFeeders(d, t, a, "winner", b, o)
  BY <1>4, <1>5, <1>6, <1>7 DEF AreFeeders, Outcomes
<1> QED BY <1>4, <1>5, <1>8 DEF Outcomes

\* Whatever the format, a match of a later round is fed by two links, and no more.
LEMMA TwoFeeders ==
    ASSUME NEW d, Elimination(d), NEW t \in MatchesOf(d), t[1] # 0
    PROVE  \E f1 \in MatchesOf(d), f2 \in MatchesOf(d), o1 \in Outcomes, o2 \in Outcomes :
             AreFeeders(d, t, f1, o1, f2, o2)
<1>0. ASSUME NEW f1, NEW f2, NEW o1, NEW o2, AreFeeders(d, t, f1, o1, f2, o2)
      PROVE  \E g1 \in MatchesOf(d), g2 \in MatchesOf(d), p1 \in Outcomes, p2 \in Outcomes :
               AreFeeders(d, t, g1, p1, g2, p2)
  <2>1. f1 \in MatchesOf(d) /\ f2 \in MatchesOf(d) /\ o1 \in Outcomes /\ o2 \in Outcomes
    BY <1>0 DEF AreFeeders
  <2> QED BY <1>0, <2>1
<1>1. CASE InWinners(R(d), t)
  BY <1>0, <1>1, WinnersFeeders
<1>2. CASE d.format = "single_bronze" /\ R(d) >= 2 /\ t[1] = R(d) /\ t[2] = 0
  BY <1>0, <1>2, BronzeFeeders
<1>3. CASE d.format = "double" /\ InLosers(R(d), t)
  BY <1>3, LosersFeeders
<1>4. CASE d.format = "double" /\ t[1] = R(d) + 2 * (R(d) - 1) /\ t[2] = 0
  BY <1>4, FinalFeeders
<1> QED BY <1>1, <1>2, <1>3, <1>4, MatchesMembers

-----------------------------------------------------------------------------
(* The first round *)

\* The seeds of a stored bracket.
Seeds(d) ==
    /\ d.seeds \in [1..d.size -> Nat \ {0}]
    /\ \A e, f \in 1..d.size : d.seeds[e] = d.seeds[f] => e = f

\* The slot of a side of the first round is one of the draw.
LEMMA SlotFacts ==
    ASSUME NEW d, Elimination(d), NEW m \in MatchesOf(d), m[1] = 0, NEW p \in {1, 2}
    PROVE  /\ 2 * m[2] + p \in 1..Pow2[R(d)]
           /\ Slot(d, m, p) = BalancedSeedPositions[R(d)][2 * m[2] + p]
           /\ Slot(d, m, p) \in 1..Pow2[R(d)]
           /\ m = <<0, m[2]>> /\ m[2] \in Nat /\ m[2] < Pow2[R(d) - 1]
<1> DEFINE r == R(d)
<1>1. r \in Nat /\ r >= 1
  BY RoundsType
<1>2. m = <<0, m[2]>> /\ m[2] \in Nat /\ InWinners(r, m)
  BY <1>1, MatchesMembers DEF InLosers
<1>3. m[2] < Pow2[r - 1]
  <2>1. r - 1 - 0 = r - 1
    BY <1>1
  <2> QED BY <1>2, <2>1 DEF InWinners
<1>4. Pow2[r] = 2 * Pow2[r - 1] /\ Pow2[r - 1] \in Nat
  <2>1. r - 1 \in Nat /\ r = (r - 1) + 1
    BY <1>1
  <2> QED BY <2>1, Pow2Facts
<1>5. 2 * m[2] + p \in 1..Pow2[r]
  BY <1>2, <1>3, <1>4
<1>6. BalancedSeedPositions[r] \in [1..Pow2[r] -> 1..Pow2[r]]
  BY <1>1, PositionsFacts
<1>7. Slot(d, m, p) = BalancedSeedPositions[r][2 * m[2] + p]
  BY DEF Slot, R
<1> QED BY <1>2, <1>3, <1>5, <1>6, <1>7

\* Two sides of the first round take different slots.
LEMMA SlotsDiffer ==
    ASSUME NEW d, Elimination(d), NEW m \in MatchesOf(d), NEW n \in MatchesOf(d),
           m[1] = 0, n[1] = 0, NEW p \in {1, 2}, NEW q \in {1, 2}, Slot(d, m, p) = Slot(d, n, q)
    PROVE  m = n /\ p = q
<1>1. /\ 2 * m[2] + p \in 1..Pow2[R(d)]
      /\ Slot(d, m, p) = BalancedSeedPositions[R(d)][2 * m[2] + p]
      /\ m = <<0, m[2]>> /\ m[2] \in Nat
  BY SlotFacts
<1>2. /\ 2 * n[2] + q \in 1..Pow2[R(d)]
      /\ Slot(d, n, q) = BalancedSeedPositions[R(d)][2 * n[2] + q]
      /\ n = <<0, n[2]>> /\ n[2] \in Nat
  BY SlotFacts
<1>3. 2 * m[2] + p = 2 * n[2] + q
  BY <1>1, <1>2, RoundsType, PositionsInjective
<1>4. m[2] = n[2] /\ p = q
  BY <1>1, <1>2, <1>3
<1> QED BY <1>1, <1>2, <1>4

\* Who is in a match of the first round: the holder of one of its slots.
LEMMA FirstSidesAre ==
    ASSUME NEW d, Elimination(d), Seeds(d), NEW m \in MatchesOf(d), m[1] = 0, NEW s
    PROVE  s \in FirstSides(d, m)
             <=> /\ s \in [entry : 1..d.size, position : {1, 2}]
                 /\ d.seeds[s.entry] = Slot(d, m, s.position)
                 /\ s.position = 2 => Slot(d, m, 2) <= d.size
<1> DEFINE at(p) == {[entry |-> e, position |-> p] : e \in Seeded(d, Slot(d, m, p))}
<1>1. FirstSides(d, m) = at(1) \cup (IF Slot(d, m, 2) > d.size THEN {} ELSE at(2))
  BY DEF FirstSides
<1>2. Slot(d, m, 2) \in Nat /\ d.size \in Nat
  BY SlotFacts, Pow2Facts, RoundsType DEF Elimination
<1>3. ASSUME NEW p \in {1, 2}
      PROVE  s \in at(p) <=> /\ s \in [entry : 1..d.size, position : {1, 2}]
                             /\ s.position = p /\ d.seeds[s.entry] = Slot(d, m, p)
  BY DEF Seeded
<1> HIDE DEF at
<1>4. s \in FirstSides(d, m) <=> s \in at(1) \/ (Slot(d, m, 2) <= d.size /\ s \in at(2))
  BY <1>1, <1>2
<1> QED BY <1>3, <1>4

\* An entry is drawn into one match, in one place, and has the place for itself.
LEMMA FirstSidesFacts ==
    ASSUME NEW d, Elimination(d), Seeds(d), NEW m \in MatchesOf(d), m[1] = 0,
           NEW s \in FirstSides(d, m)
    PROVE  /\ s \in [entry : 1..d.size, position : {1, 2}]
           /\ \A n \in MatchesOf(d) : n[1] = 0 =>
                \A t \in FirstSides(d, n) : s.entry = t.entry => m = n /\ s = t
           /\ \A t \in FirstSides(d, m) : s.position = t.position => s = t
<1>1. /\ s \in [entry : 1..d.size, position : {1, 2}]
      /\ d.seeds[s.entry] = Slot(d, m, s.position)
  BY FirstSidesAre
<1>2. ASSUME NEW n \in MatchesOf(d), n[1] = 0, NEW t \in FirstSides(d, n), s.entry = t.entry
      PROVE  m = n /\ s = t
  <2>1. /\ t \in [entry : 1..d.size, position : {1, 2}]
        /\ d.seeds[t.entry] = Slot(d, n, t.position)
    BY <1>2, FirstSidesAre
  <2>2. m = n /\ s.position = t.position
    BY <1>1, <1>2, <2>1, SlotsDiffer
  <2> QED BY <1>1, <1>2, <2>1, <2>2
<1>3. ASSUME NEW t \in FirstSides(d, m), s.position = t.position
      PROVE  s = t
  <2>1. /\ t \in [entry : 1..d.size, position : {1, 2}]
        /\ d.seeds[t.entry] = Slot(d, m, t.position)
    BY <1>3, FirstSidesAre
  <2>2. s.entry = t.entry
    BY <1>1, <1>3, <2>1 DEF Seeds
  <2> QED BY <1>1, <1>3, <2>1, <2>2
<1> QED BY <1>1, <1>2, <1>3

\* Nobody is drawn into a later round.
LEMMA FirstSidesLater ==
    ASSUME NEW d, NEW m, m[1] # 0
    PROVE  FirstSides(d, m) = {}
BY DEF FirstSides

\* A match of the first round has two sides at most.
LEMMA FirstSidesFinite ==
    ASSUME NEW d, Elimination(d), Seeds(d), NEW m \in MatchesOf(d), m[1] = 0
    PROVE  IsFiniteSet(FirstSides(d, m)) /\ Cardinality(FirstSides(d, m)) <= 2
<1>1. ASSUME NEW p \in {1, 2}
      PROVE  \E x : {s \in FirstSides(d, m) : s.position = p} \subseteq {x}
  <2>1. CASE {s \in FirstSides(d, m) : s.position = p} = {}
    BY <2>1
  <2>2. CASE \E x : x \in {s \in FirstSides(d, m) : s.position = p}
    BY <2>2, FirstSidesFacts
  <2> QED BY <2>1, <2>2
<1>2. PICK x : {s \in FirstSides(d, m) : s.position = 1} \subseteq {x}
  BY <1>1
<1>3. PICK y : {s \in FirstSides(d, m) : s.position = 2} \subseteq {y}
  BY <1>1
<1>4. FirstSides(d, m) \subseteq {x, y}
  <2>1. \A s \in FirstSides(d, m) : s.position \in {1, 2}
    BY FirstSidesFacts
  <2> QED BY <1>2, <1>3, <2>1
<1> QED BY <1>4, AtMostTwo

\* Byes never meet: the first slot of a match of the first round is one of the better half.
LEMMA BetterHalf ==
    ASSUME NEW d, Elimination(d), NEW m \in MatchesOf(d), m[1] = 0
    PROVE  Slot(d, m, 1) < d.size
<1> DEFINE r == R(d)
<1>1. r \in Nat /\ r >= 1 /\ Pow2[r - 1] < d.size
  <2>1. d.size \in Nat /\ d.size >= 2
    BY DEF Elimination
  <2> QED BY <2>1, RoundsType, RoundsForFacts DEF R
<1> HIDE DEF r
<1>2. /\ Slot(d, m, 1) = BalancedSeedPositions[r][2 * m[2] + 1]
      /\ m[2] \in Nat /\ m[2] < Pow2[r - 1]
  BY SlotFacts DEF r
<1>3. r - 1 \in Nat /\ (r - 1) + 1 = r /\ Pow2[r - 1] \in Nat
  <2>1. r - 1 \in Nat /\ (r - 1) + 1 = r
    BY <1>1
  <2> QED BY <2>1, Pow2Facts
<1>4. m[2] + 1 \in 1..Pow2[r - 1] /\ 2 * (m[2] + 1) - 1 = 2 * m[2] + 1
  BY <1>2, <1>3
<1>5. BalancedSeedPositions[r][2 * (m[2] + 1) - 1] = BalancedSeedPositions[r - 1][m[2] + 1]
  BY <1>3, <1>4, PositionsFacts
<1>6. BalancedSeedPositions[r - 1][m[2] + 1] \in 1..Pow2[r - 1]
  BY <1>3, <1>4, PositionsFacts
<1> QED BY <1>1, <1>2, <1>3, <1>4, <1>5, <1>6 DEF Elimination

\* The seeds of a random draw.
Shuffled(d) == d.seeds = RandomSeeding(d.size)

\* A random draw numbers its entries without a gap.
LEMMA ShuffledSeeds ==
    ASSUME NEW d, Elimination(d), Shuffled(d)
    PROVE  Seeds(d) /\ \A e \in 1..d.size : d.seeds[e] = e
BY DEF Elimination, Shuffled, Seeds, RandomSeeding

\* In a random draw, each match of the first round has a side A.
LEMMA SomebodyInPlaceOne ==
    ASSUME NEW d, Elimination(d), Shuffled(d), NEW m \in MatchesOf(d), m[1] = 0
    PROVE  \E s \in FirstSides(d, m) : s.position = 1
<1>1. Slot(d, m, 1) \in 1..d.size
  <2>1. Slot(d, m, 1) \in 1..Pow2[R(d)]
    BY SlotFacts
  <2> QED BY <2>1, BetterHalf, RoundsType, Pow2Facts DEF Elimination
<1> DEFINE s == [entry |-> Slot(d, m, 1), position |-> 1]
<1>2. s \in [entry : 1..d.size, position : {1, 2}] /\ d.seeds[s.entry] = Slot(d, m, s.position)
  BY <1>1, ShuffledSeeds
<1>3. s \in FirstSides(d, m)
  BY <1>2, ShuffledSeeds, FirstSidesAre
<1> QED BY <1>3

\* With as many entries as slots, it has both.
LEMMA BothInFullDraw ==
    ASSUME NEW d, Elimination(d), Shuffled(d), d.size = Pow2[R(d)],
           NEW m \in MatchesOf(d), m[1] = 0, NEW p \in {1, 2}
    PROVE  \E s \in FirstSides(d, m) : s.position = p
<1>1. Slot(d, m, p) \in 1..d.size /\ Slot(d, m, 2) \in 1..d.size /\ d.size \in Nat
  BY SlotFacts DEF Elimination
<1> DEFINE s == [entry |-> Slot(d, m, p), position |-> p]
<1>2. s \in [entry : 1..d.size, position : {1, 2}] /\ d.seeds[s.entry] = Slot(d, m, s.position)
  BY <1>1, ShuffledSeeds
<1>3. s \in FirstSides(d, m)
  BY <1>1, <1>2, ShuffledSeeds, FirstSidesAre
<1> QED BY <1>3

\* In a random draw, each entry has a match of the first round.
LEMMA EveryEntryHasAMatch ==
    ASSUME NEW d, Elimination(d), Shuffled(d), NEW e \in 1..d.size
    PROVE  \E m \in MatchesOf(d) : m[1] = 0 /\ \E s \in FirstSides(d, m) : s.entry = e
<1> DEFINE r == R(d)
<1>1. r \in Nat /\ r >= 1 /\ d.size \in Nat /\ d.size <= Pow2[r] /\ Pow2[r] \in Nat
  <2>1. d.size \in Nat /\ d.size >= 2
    BY DEF Elimination
  <2> QED BY <2>1, RoundsType, RoundsForFacts, Pow2Facts DEF R
<1> HIDE DEF r
<1>2. e \in 1..Pow2[r]
  BY <1>1
<1>3. PICK i \in 1..Pow2[r] : BalancedSeedPositions[r][i] = e
  BY <1>1, <1>2, PositionsSurjective
<1>4. Pow2[r] = 2 * Pow2[r - 1] /\ Pow2[r - 1] \in Nat
  <2>1. r - 1 \in Nat /\ r = (r - 1) + 1
    BY <1>1
  <2> QED BY <2>1, Pow2Facts
<1> DEFINE k == (i - 1) \div 2
           p == i - 2 * k
           m == <<0, k>>
           s == [entry |-> e, position |-> p]
<1>5. k \in Nat /\ k < Pow2[r - 1] /\ p \in {1, 2} /\ 2 * k + p = i
  BY <1>1, <1>3, <1>4
<1> HIDE DEF k, p
<1>6. m \in Nat \X Nat /\ m[1] = 0 /\ m[2] = k
  BY <1>5
<1>7. m \in MatchesOf(d)
  <2>1. r - 1 - m[1] = r - 1
    BY <1>1, <1>6
  <2>2. InWinners(r, m)
    BY <1>1, <1>5, <1>6, <2>1 DEF InWinners
  <2> QED BY <1>6, <2>2, MatchesMembers DEF r
<1>8. Slot(d, m, p) = e
  BY <1>3, <1>5, <1>6 DEF Slot, R, r
<1>9. s \in FirstSides(d, m)
  <2>1. s \in [entry : 1..d.size, position : {1, 2}] /\ s.position = p /\ s.entry = e
    BY <1>5
  <2>2. d.seeds[s.entry] = Slot(d, m, s.position)
    BY <1>8, <2>1, ShuffledSeeds
  <2>3. s.position = 2 => Slot(d, m, 2) <= d.size
    BY <1>1, <1>8, <2>1
  <2> QED BY <1>6, <1>7, <2>1, <2>2, <2>3, ShuffledSeeds, FirstSidesAre
<1> QED BY <1>6, <1>7, <1>9

-----------------------------------------------------------------------------
(* The way to the final *)

\* The next match of the winners' bracket.
LEMMA NextInWinners ==
    ASSUME NEW d, Elimination(d), NEW m \in MatchesOf(d), m[1] < R(d) - 1
    PROVE  /\ (CHOOSE t \in WinnerTo(d, m) : TRUE) = <<m[1] + 1, m[2] \div 2>>
           /\ <<m[1] + 1, m[2] \div 2>> \in MatchesOf(d)
<1>1. WinnerGoesOn(d, m) /\ WinnerNext(d, m) = <<m[1] + 1, m[2] \div 2>>
  BY DEF WinnerGoesOn, WinnerNext
<1>2. WinnerTo(d, m) = {<<m[1] + 1, m[2] \div 2>>}
  BY <1>1, WinnerToIs
<1> QED BY <1>1, <1>2, WinnerLinkExists

\* The matches an entry goes through while it wins, round by round.
LEMMA PathIs ==
    ASSUME Elimination(draw), NEW m \in MatchesOf(draw), m[1] = 0
    PROVE  /\ Path(m)[0] = m
           /\ \A j \in 0..(R(draw) - 1) :
                Path(m)[j] \in MatchesOf(draw) /\ Path(m)[j][1] = j
           /\ \A j \in 1..(R(draw) - 1) :
                Path(m)[j] = <<j, Path(m)[j - 1][2] \div 2>>
<1> DEFINE r == RoundsFor(draw.size)
           M == MatchesOf(draw)
           Move(x) == CHOOSE t \in WinnerTo(draw, x) : TRUE
           After(x) == IF Move(x) \in M THEN Move(x) ELSE m
           step == [xk \in M \X (1..(r - 1)) |-> After(xk[1])]
           Eqn(f) == f = [k \in 0..(r - 1) |-> IF k = 0 THEN m ELSE Move(f[k - 1])]
<1>1. r \in Nat /\ r >= 1 /\ R(draw) = r /\ r - 1 \in Nat
  BY RoundsType DEF R
<1>2. Path(m) = CHOOSE f : Eqn(f)
  BY DEF Path
<1> HIDE DEF r, M
<1>3. ASSUME NEW x \in M, x[1] < r - 1
      PROVE  Move(x) = <<x[1] + 1, x[2] \div 2>> /\ Move(x) \in M
  BY <1>1, <1>3, NextInWinners DEF M
<1> HIDE DEF Move
<1>4. step \in [M \X (1..(r - 1)) -> M]
  <2>1. \A x : After(x) \in M
    BY DEF M
  <2> HIDE DEF After
  <2> QED BY <2>1
<1>5. \A x \in M, k \in 1..(r - 1) : step[<<x, k>>] = After(x)
  OBVIOUS
<1> HIDE DEF step
<1>6. PICK h : BuiltBy(h, r - 1, M, m, step)
  <2>1. m \in M
    BY DEF M
  <2> QED BY <1>1, <1>4, <2>1, RecursiveFunction, Zenon
<1>7. ASSUME NEW k \in 1..(r - 1)
      PROVE  k - 1 \in 0..(r - 1) /\ h[k - 1] \in M /\ h[k] = After(h[k - 1])
  <2>1. k - 1 \in 0..(r - 1)
    BY <1>1
  <2>2. h[k - 1] \in M /\ h[k] = step[<<h[k - 1], k>>]
    BY <1>6, <2>1 DEF BuiltBy
  <2> QED BY <1>5, <2>1, <2>2
<1> DEFINE S == {k \in 0..(r - 1) : h[k] \in M /\ h[k][1] = k}
<1>8. \A k \in 0..(r - 1) : k \in S
  <2>1. 0 \in S
    BY <1>1, <1>6 DEF BuiltBy, M
  <2>2. ASSUME NEW k \in 0..(r - 1 - 1), k \in S PROVE k + 1 \in S
    <3>1. k + 1 \in 1..(r - 1) /\ (k + 1) - 1 = k /\ k + 1 \in 0..(r - 1)
      BY <1>1
    <3>2. h[k + 1] = After(h[k]) /\ h[k] \in M /\ h[k][1] = k
      BY <1>7, <2>2, <3>1
    <3>3. h[k][1] < r - 1
      BY <1>1, <3>2
    <3>4. h[k + 1] = <<k + 1, h[k][2] \div 2>> /\ h[k + 1] \in M
      BY <1>3, <3>2, <3>3
    <3> QED BY <3>1, <3>4
  <2> HIDE DEF S
  <2> QED BY <1>1, <2>1, <2>2, UpToInduction
<1>9. ASSUME NEW k \in 1..(r - 1)
      PROVE  h[k] = Move(h[k - 1]) /\ h[k] = <<k, h[k - 1][2] \div 2>>
  <2>1. k - 1 \in 0..(r - 1) /\ h[k] = After(h[k - 1]) /\ h[k - 1] \in M /\ h[k - 1][1] = k - 1
    BY <1>7, <1>8
  <2>2. h[k - 1][1] < r - 1 /\ (k - 1) + 1 = k
    BY <1>1, <2>1
  <2>3. Move(h[k - 1]) = <<k, h[k - 1][2] \div 2>> /\ Move(h[k - 1]) \in M
    BY <1>3, <2>1, <2>2
  <2> QED BY <2>1, <2>3
<1>10. Eqn(h)
  <2>1. ASSUME NEW k \in 0..(r - 1)
        PROVE  h[k] = IF k = 0 THEN m ELSE Move(h[k - 1])
    <3>1. CASE k = 0
      BY <1>6, <3>1 DEF BuiltBy
    <3>2. CASE k # 0
      <4>1. k \in 1..(r - 1)
        BY <1>1, <3>2
      <4> QED BY <1>9, <3>2, <4>1
    <3> QED BY <3>1, <3>2
  <2>2. h = [k \in 0..(r - 1) |-> h[k]]
    BY <1>6 DEF BuiltBy
  <2> QED BY <2>1, <2>2
<1>11. Eqn(Path(m))
  <2> HIDE DEF Eqn
  <2> QED BY <1>2, <1>10
<1> DEFINE f == Path(m)
<1> HIDE DEF f
<1>12. \A k \in 0..(r - 1) : f[k] = IF k = 0 THEN m ELSE Move(f[k - 1])
  <2>1. f = [k \in 0..(r - 1) |-> IF k = 0 THEN m ELSE Move(f[k - 1])]
    BY <1>11 DEF f
  <2> QED BY <2>1
<1> DEFINE S2 == {k \in 0..(r - 1) : f[k] = h[k]}
<1>13. \A k \in 0..(r - 1) : k \in S2
  <2>1. 0 \in S2
    <3>1. 0 \in 0..(r - 1)
      BY <1>1
    <3> QED BY <1>6, <1>12, <3>1 DEF BuiltBy
  <2>2. ASSUME NEW k \in 0..(r - 1 - 1), k \in S2 PROVE k + 1 \in S2
    <3>1. k + 1 \in 1..(r - 1) /\ (k + 1) - 1 = k /\ k + 1 \in 0..(r - 1) /\ k + 1 # 0
      BY <1>1
    <3>2. f[k + 1] = Move(f[k])
      BY <1>12, <3>1
    <3>3. h[k + 1] = Move(h[k])
      BY <1>9, <3>1
    <3> QED BY <2>2, <3>1, <3>2, <3>3
  <2> HIDE DEF S2
  <2> QED BY <1>1, <2>1, <2>2, UpToInduction
<1>14. \A k \in 0..(r - 1) : f[k] = h[k] /\ f[k] \in M /\ f[k][1] = k
  BY <1>8, <1>13
<1>15. \A k \in 1..(r - 1) : f[k] = <<k, f[k - 1][2] \div 2>>
  <2> TAKE k \in 1..(r - 1)
  <2>1. k \in 0..(r - 1) /\ k - 1 \in 0..(r - 1)
    BY <1>1
  <2> QED BY <1>9, <1>14, <2>1
<1>16. f[0] = m
  <2>1. 0 \in 0..(r - 1)
    BY <1>1
  <2> QED BY <1>12, <2>1
<1> QED BY <1>1, <1>14, <1>15, <1>16 DEF f, M

\* A good seed keeps its place among fewer and fewer as the rounds go.
LEMMA SeedOnPath ==
    ASSUME Elimination(draw), NEW m \in MatchesOf(draw), m[1] = 0, NEW p \in {1, 2},
           NEW k \in 1..(R(draw) - 1), Slot(draw, m, p) <= Pow2[k]
    PROVE  \A j \in 0..(R(draw) - 1 - k) :
              Slot(draw, m, p) = BalancedSeedPositions[R(draw) - 1 - j][Path(m)[j][2] + 1]
<1> DEFINE r == R(draw)
           v == Slot(draw, m, p)
           P == BalancedSeedPositions
           x(j) == Path(m)[j][2]
           S == {j \in 0..(r - 1 - k) : v = P[r - 1 - j][x(j) + 1]}
<1>1. r \in Nat /\ r >= 1 /\ k \in Nat /\ k <= r - 1 /\ k >= 1
  BY RoundsType
<1>2. ASSUME NEW n \in Nat, k <= n, NEW i \in 1..Pow2[n + 1], v = P[n + 1][i]
      PROVE  i % 2 = 1 /\ (i - 1) \div 2 + 1 \in 1..Pow2[n] /\ v = P[n][(i - 1) \div 2 + 1]
  <2>1. Pow2[n + 1] = 2 * Pow2[n] /\ Pow2[n] \in Nat /\ Pow2[k] \in Nat /\ Pow2[k] <= Pow2[n]
    BY <1>1, <1>2, Pow2Facts, Pow2Monotone
  <2>2. v <= Pow2[k]
    OBVIOUS
  <2> HIDE DEF v, P
  <2>3. i % 2 = 1
    <3>1. SUFFICES ASSUME i % 2 # 1 PROVE FALSE
      OBVIOUS
    <3>2. i \div 2 \in 1..Pow2[n] /\ i = 2 * (i \div 2)
      BY <2>1, <3>1, Halves
    <3>3. v = Pow2[n + 1] + 1 - P[n][i \div 2] /\ P[n][i \div 2] \in 1..Pow2[n]
      BY <1>2, <3>2, PositionsFacts DEF P
    <3> QED BY <2>1, <2>2, <3>3
  <2>4. (i - 1) \div 2 + 1 \in 1..Pow2[n] /\ i = 2 * ((i - 1) \div 2 + 1) - 1
    BY <2>1, <2>3
  <2>5. P[n + 1][2 * ((i - 1) \div 2 + 1) - 1] = P[n][(i - 1) \div 2 + 1]
    BY <2>4, PositionsFacts DEF P
  <2> QED BY <1>2, <2>3, <2>4, <2>5
<1>3. /\ 2 * m[2] + p \in 1..Pow2[r] /\ v = P[r][2 * m[2] + p] /\ m[2] \in Nat
      /\ m[2] < Pow2[r - 1]
  BY SlotFacts
<1>4. ASSUME NEW j \in 0..(r - 1 - k)
      PROVE  /\ Path(m)[j] \in MatchesOf(draw) /\ x(j) \in Nat /\ x(j) + 1 \in 1..Pow2[r - 1 - j]
             /\ j # 0 => x(j) = x(j - 1) \div 2
  <2>1. j \in 0..(r - 1)
    BY <1>1
  <2>2. Path(m)[j] \in MatchesOf(draw) /\ Path(m)[j][1] = j
    BY <2>1, PathIs
  <2>3. x(j) \in Nat /\ InWinners(r, Path(m)[j])
    BY <1>1, <2>1, <2>2, MatchesMembers DEF InLosers
  <2>4. x(j) < Pow2[r - 1 - j]
    BY <2>2, <2>3 DEF InWinners
  <2>5. Pow2[r - 1 - j] \in Nat
    <3>1. r - 1 - j \in Nat
      BY <1>1
    <3> QED BY <3>1, Pow2Facts
  <2>6. j # 0 => x(j) = x(j - 1) \div 2
    <3>1. SUFFICES ASSUME j # 0 PROVE x(j) = x(j - 1) \div 2
      OBVIOUS
    <3>2. j \in 1..(r - 1)
      BY <2>1, <3>1
    <3>3. Path(m)[j] = <<j, Path(m)[j - 1][2] \div 2>>
      BY <3>2, PathIs
    <3> QED BY <3>3
  <2> QED BY <2>2, <2>3, <2>4, <2>5, <2>6
<1>5. x(0) = m[2]
  BY PathIs
<1> HIDE DEF v, P, x, r
<1>6. 0 \in S
  <2>1. r - 1 \in Nat /\ (r - 1) + 1 = r /\ k <= r - 1 /\ r - 1 - 0 = r - 1
    BY <1>1
  <2>2. (2 * m[2] + p) % 2 = 1 /\ v = P[r - 1][((2 * m[2] + p) - 1) \div 2 + 1]
    BY <1>2, <1>3, <2>1
  <2>3. ((2 * m[2] + p) - 1) \div 2 + 1 = m[2] + 1
    BY <1>3, <2>2
  <2>4. 0 \in 0..(r - 1 - k)
    BY <1>1
  <2> QED BY <1>5, <2>1, <2>2, <2>3, <2>4
<1>7. ASSUME NEW j \in 0..((r - 1 - k) - 1), j \in S PROVE j + 1 \in S
  <2>1. /\ j + 1 \in 0..(r - 1 - k) /\ j + 1 # 0 /\ (j + 1) - 1 = j /\ j \in 0..(r - 1 - k)
        /\ r - 1 - (j + 1) \in Nat /\ k <= r - 1 - (j + 1)
        /\ (r - 1 - (j + 1)) + 1 = r - 1 - j
    BY <1>1
  <2>2. x(j) + 1 \in 1..Pow2[r - 1 - j] /\ x(j) \in Nat /\ x(j + 1) = x(j) \div 2
    BY <1>4, <2>1
  <2>3. v = P[r - 1 - (j + 1)][((x(j) + 1) - 1) \div 2 + 1]
    BY <1>2, <1>7, <2>1, <2>2
  <2>4. ((x(j) + 1) - 1) \div 2 + 1 = x(j + 1) + 1
    BY <2>2
  <2> QED BY <2>1, <2>3, <2>4
<1>8. r - 1 - k \in Nat
  BY <1>1
<1> HIDE DEF S
<1>9. \A j \in 0..(r - 1 - k) : j \in S
  BY <1>6, <1>7, <1>8, UpToInduction
<1> QED BY <1>9 DEF S, v, P, x, r
=============================================================================
