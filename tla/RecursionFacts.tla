-------------------------- MODULE RecursionFacts --------------------------
(***************************************************************************)
(* Induction over the numbers up to a bound, and functions defined by      *)
(* recursion over them, in a form that quantifies over sets and functions  *)
(* only: matches are numbered, and several operators of the models go      *)
(* through them one after the other.                                       *)
(***************************************************************************)
EXTENDS Integers, WellFoundedInduction, TLAPS

\* A set of naturals that is not empty has a least element.
LEMMA LeastNatural ==
    ASSUME NEW S, S \subseteq Nat, S # {}
    PROVE  \E x \in S : \A y \in S : x <= y
<1> DEFINE R == {ss \in Nat \X Nat : ss[1] < ss[2]}
<1>1. IsWellFoundedOn(R, Nat)
  BY NatLessThanWellFounded DEF OpToRel
<1> HIDE DEF R
<1>2. PICK x \in S : \A y \in S : ~(<<y, x>> \in R)
  BY <1>1, WFMin
<1>3. \A y \in S : ~(y < x)
  BY <1>2 DEF R
<1> QED BY <1>3

\* A set with 0 that goes from each number to the next holds the numbers up to any bound.
LEMMA UpToInduction ==
    ASSUME NEW N \in Nat, NEW S, 0 \in S, \A n \in 0..(N - 1) : n \in S => n + 1 \in S
    PROVE  \A n \in 0..N : n \in S
<1>1. SUFFICES ASSUME (0..N) \ S # {} PROVE FALSE
  OBVIOUS
<1>2. PICK x \in (0..N) \ S : \A y \in (0..N) \ S : x <= y
  <2>1. (0..N) \ S \subseteq Nat
    OBVIOUS
  <2> QED BY <1>1, <2>1, LeastNatural
<1>3. x # 0
  OBVIOUS
<1>4. x - 1 \in 0..(N - 1) /\ ~(x <= x - 1)
  BY <1>3
<1>5. x - 1 \in S
  BY <1>2, <1>4
<1> QED BY <1>4, <1>5

\* h starts at base and goes on by step.
BuiltBy(h, N, T, base, step) ==
    /\ h \in [0..N -> T]
    /\ h[0] = base
    /\ \A k \in 1..N : h[k] = step[<<h[k - 1], k>>]

\* A function on 0..N may be given by its value at 0 and a step.
LEMMA RecursiveFunction ==
    ASSUME NEW N \in Nat, NEW T, NEW base \in T, NEW step \in [T \X (1..N) -> T]
    PROVE  \E h : BuiltBy(h, N, T, base, step)
<1> DEFINE Good(n, h) == /\ h \in [0..n -> T]
                         /\ h[0] = base
                         /\ \A k \in 1..n : h[k] = step[<<h[k - 1], k>>]
           S == {n \in 0..N : \E h : Good(n, h)}
<1>1. 0 \in S
  <2> DEFINE shortest == [k \in 0..0 |-> base]
  <2>1. shortest \in [0..0 -> T] /\ shortest[0] = base
    OBVIOUS
  <2>2. \A k \in 1..0 : FALSE
    OBVIOUS
  <2> HIDE DEF shortest
  <2>3. Good(0, shortest)
    BY <2>1, <2>2
  <2> QED BY <2>3
<1>2. ASSUME NEW n \in 0..(N - 1), n \in S PROVE n + 1 \in S
  <2>1. PICK h : Good(n, h)
    BY <1>2
  <2> DEFINE longer == [k \in 0..(n + 1) |-> IF k = n + 1 THEN step[<<h[n], n + 1>>] ELSE h[k]]
  <2>2. h[n] \in T /\ n + 1 \in 1..N /\ step[<<h[n], n + 1>>] \in T
    BY <2>1
  <2>3. longer \in [0..(n + 1) -> T] /\ longer[0] = base
    BY <2>1, <2>2
  <2>4. \A k \in 0..n : longer[k] = h[k]
    OBVIOUS
  <2>5. longer[n + 1] = step[<<h[n], n + 1>>]
    OBVIOUS
  <2> HIDE DEF longer
  <2>6. ASSUME NEW k \in 1..(n + 1) PROVE longer[k] = step[<<longer[k - 1], k>>]
    <3>1. k - 1 \in 0..n
      OBVIOUS
    <3>2. CASE k = n + 1
      BY <2>4, <2>5, <3>1, <3>2
    <3>3. CASE k # n + 1
      <4>1. k \in 1..n
        BY <3>3
      <4>2. longer[k] = h[k] /\ longer[k - 1] = h[k - 1]
        BY <2>4, <3>1, <4>1
      <4> QED BY <2>1, <4>1, <4>2
    <3> QED BY <3>2, <3>3
  <2> QED BY <2>3, <2>6
<1> HIDE DEF S
<1>3. N \in S
  BY <1>1, <1>2, UpToInduction
<1> QED BY <1>3 DEF S, BuiltBy

\* The same for the naturals without bound.
LEMMA NatSetInduction ==
    ASSUME NEW S, 0 \in S, \A n \in Nat : n \in S => n + 1 \in S
    PROVE  Nat \subseteq S
<1>1. ASSUME NEW n \in Nat PROVE n \in S
  <2>1. \A k \in 0..n : k \in S
    BY UpToInduction
  <2> QED BY <2>1
<1> QED BY <1>1

\* The first values of a function given by recursion, each in a set of its own.
Begins(h, n, T, base, step) ==
    /\ h = [k \in 0..n |-> h[k]]
    /\ h[0] = base
    /\ \A k \in 0..n : h[k] \in T[k]
    /\ \A k \in 1..n : h[k] = step[k][h[k - 1]]

\* Two of them agree as far as both go.
LEMMA BeginningsAgree ==
    ASSUME NEW T, NEW base, NEW step, NEW m \in Nat, NEW n \in Nat, m <= n, NEW g, NEW h,
           Begins(g, m, T, base, step), Begins(h, n, T, base, step)
    PROVE  \A k \in 0..m : g[k] = h[k]
<1> DEFINE S == {k \in 0..m : g[k] = h[k]}
<1>1. 0 \in S
  BY DEF Begins
<1>2. ASSUME NEW k \in 0..(m - 1), k \in S PROVE k + 1 \in S
  <2>1. k + 1 \in 1..m /\ k + 1 \in 1..n /\ (k + 1) - 1 = k
    OBVIOUS
  <2>2. g[k + 1] = step[k + 1][g[k]] /\ h[k + 1] = step[k + 1][h[k]]
    BY <2>1 DEF Begins
  <2> QED BY <1>2, <2>1, <2>2
<1> HIDE DEF S
<1>3. \A k \in 0..m : k \in S
  BY <1>1, <1>2, UpToInduction
<1> QED BY <1>3 DEF S

\* There are such values as far as one wants.
LEMMA BeginningsExist ==
    ASSUME NEW T, NEW base \in T[0], NEW step,
           \A k \in Nat \ {0} : \A x \in T[k - 1] : step[k][x] \in T[k]
    PROVE  \A n \in Nat : \E h : Begins(h, n, T, base, step)
<1> DEFINE S == {n \in Nat : \E h : Begins(h, n, T, base, step)}
<1>1. 0 \in S
  <2> DEFINE shortest == [k \in 0..0 |-> base]
  <2>1. shortest = [k \in 0..0 |-> shortest[k]] /\ shortest[0] = base /\ \A k \in 0..0 : k = 0
    OBVIOUS
  <2>2. \A k \in 1..0 : FALSE
    OBVIOUS
  <2> HIDE DEF shortest
  <2>3. Begins(shortest, 0, T, base, step)
    BY <2>1, <2>2 DEF Begins
  <2> QED BY <2>3
<1>2. ASSUME NEW n \in Nat, n \in S PROVE n + 1 \in S
  <2>1. PICK h : Begins(h, n, T, base, step)
    BY <1>2
  <2> DEFINE longer == [k \in 0..(n + 1) |-> IF k = n + 1 THEN step[n + 1][h[n]] ELSE h[k]]
  <2>2. h[n] \in T[n]
    BY <2>1 DEF Begins
  <2>3. n + 1 \in Nat \ {0} /\ (n + 1) - 1 = n
    OBVIOUS
  <2>4. step[n + 1][h[n]] \in T[n + 1]
    BY <2>2, <2>3
  <2>5. longer = [k \in 0..(n + 1) |-> longer[k]]
    OBVIOUS
  <2>6. \A k \in 0..n : longer[k] = h[k]
    OBVIOUS
  <2>7. longer[n + 1] = step[n + 1][h[n]]
    OBVIOUS
  <2> HIDE DEF longer
  <2>8. ASSUME NEW k \in 0..(n + 1) PROVE longer[k] \in T[k]
    <3>1. k = n + 1 \/ k \in 0..n
      OBVIOUS
    <3> QED BY <2>1, <2>4, <2>6, <2>7, <3>1 DEF Begins
  <2>9. ASSUME NEW k \in 1..(n + 1) PROVE longer[k] = step[k][longer[k - 1]]
    <3>1. k - 1 \in 0..n
      OBVIOUS
    <3>2. CASE k = n + 1
      BY <2>3, <2>6, <2>7, <3>1, <3>2
    <3>3. CASE k # n + 1
      <4>1. k \in 1..n /\ k \in 0..n
        BY <3>3
      <4>2. longer[k] = h[k] /\ longer[k - 1] = h[k - 1]
        BY <2>6, <3>1, <4>1
      <4> QED BY <2>1, <4>1, <4>2 DEF Begins
    <3> QED BY <3>2, <3>3
  <2>10. longer[0] = base
    BY <2>1, <2>6 DEF Begins
  <2>11. Begins(longer, n + 1, T, base, step)
    BY <2>5, <2>8, <2>9, <2>10 DEF Begins
  <2> QED BY <2>11
<1> HIDE DEF S
<1>3. Nat \subseteq S
  BY <1>1, <1>2, NatSetInduction
<1> QED BY <1>3 DEF S

\* Together they are a function on the naturals.
LEMMA NatRecursion ==
    ASSUME NEW T, NEW base \in T[0], NEW step,
           \A k \in Nat \ {0} : \A x \in T[k - 1] : step[k][x] \in T[k]
    PROVE  \E h : /\ h = [n \in Nat |-> h[n]]
                  /\ h[0] = base
                  /\ \A n \in Nat : h[n] \in T[n]
                  /\ \A n \in Nat \ {0} : h[n] = step[n][h[n - 1]]
<1> DEFINE first == [n \in Nat |-> CHOOSE h : Begins(h, n, T, base, step)]
           whole == [n \in Nat |-> first[n][n]]
<1>1. \A n \in Nat : Begins(first[n], n, T, base, step)
  <2>1. \A n \in Nat : \E h : Begins(h, n, T, base, step)
    BY BeginningsExist
  <2> QED BY <2>1
<1>2. \A n \in Nat : whole[n] = first[n][n]
  OBVIOUS
<1>3. whole = [n \in Nat |-> whole[n]]
  OBVIOUS
<1> HIDE DEF first, whole
<1>4. whole[0] = base
  BY <1>1, <1>2 DEF Begins
<1>5. ASSUME NEW n \in Nat PROVE whole[n] \in T[n]
  <2>1. Begins(first[n], n, T, base, step)
    BY <1>1
  <2>2. \A k \in 0..n : first[n][k] \in T[k]
    BY <2>1, Zenon DEF Begins
  <2>3. n \in 0..n
    OBVIOUS
  <2>4. first[n][n] \in T[n]
    BY <2>2, <2>3, Zenon
  <2> QED BY <1>2, <2>4
<1>6. ASSUME NEW n \in Nat \ {0} PROVE whole[n] = step[n][whole[n - 1]]
  <2>1. n \in Nat /\ n - 1 \in Nat /\ n - 1 <= n /\ n - 1 \in 0..(n - 1) /\ n \in 1..n
    OBVIOUS
  <2>2. Begins(first[n - 1], n - 1, T, base, step) /\ Begins(first[n], n, T, base, step)
    BY <1>1, <2>1
  <2> DEFINE m == n - 1
  <2>3. m \in Nat /\ m <= n /\ n \in Nat /\ Begins(first[m], m, T, base, step)
    BY <2>1, <2>2
  <2> HIDE DEF m
  <2>4. ASSUME NEW g, NEW h, Begins(g, m, T, base, step), Begins(h, n, T, base, step)
        PROVE  \A k \in 0..m : g[k] = h[k]
    BY <2>3, <2>4, BeginningsAgree, SMTT(30)
  <2>5. \A k \in 0..m : first[m][k] = first[n][k]
    BY <2>2, <2>3, <2>4, Zenon
  <2>6. \A k \in 0..(n - 1) : first[n - 1][k] = first[n][k]
    BY <2>5 DEF m
  <2>7. first[n][n] = step[n][first[n][n - 1]]
    BY <2>1, <2>2 DEF Begins
  <2> QED BY <1>2, <2>1, <2>6, <2>7
<1> QED BY <1>3, <1>4, <1>5, <1>6
=============================================================================
