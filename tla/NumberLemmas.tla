---------------------------- MODULE NumberLemmas ----------------------------
(***************************************************************************)
(* Facts about numbers that the proofs about the containers share:         *)
(* induction over the natural numbers in the form the provers can use,     *)
(* remainders, powers of two, and sequences that grow by an element.       *)
(***************************************************************************)
EXTENDS PowersOfTwo, Integers, Sequences, TLAPS, NaturalsInduction,
        WellFoundedInduction

\* Every set of natural numbers with an element has a least one.
LEMMA LeastElement ==
  ASSUME NEW T \in SUBSET Nat, T # {}
  PROVE  \E x \in T : \A y \in T : x <= y
<1> DEFINE R == OpToRel(<, Nat)
<1>1. IsWellFoundedOn(R, Nat)
  BY NatLessThanWellFounded
<1>2. \A x, y \in Nat : y < x => <<y, x>> \in R
  <2> TAKE x, y \in Nat
  <2> HAVE y < x
  <2> DEFINE p == <<y, x>>
  <2>3. p \in Nat \X Nat /\ p[1] < p[2]
    OBVIOUS
  <2> HIDE DEF p
  <2>4. p \in {ss \in Nat \X Nat : ss[1] < ss[2]}
    BY <2>3
  <2> QED
    BY <2>4 DEF OpToRel, p
<1> HIDE DEF R
<1>3. PICK x \in T : \A y \in T : ~ (<<y, x>> \in R)
  BY <1>1, WFMin
<1>4. ASSUME NEW y \in T PROVE x <= y
  <2>1. ~ (y < x)
    BY <1>2, <1>3
  <2> QED
    BY <2>1
<1> QED
  BY <1>4

\* Induction: the numbers of which a fact holds are a set here.
LEMMA SetInduction ==
  ASSUME NEW T \in SUBSET Nat, 0 \in T, \A n \in T : n + 1 \in T
  PROVE  T = Nat
<1>1. SUFFICES ASSUME Nat \ T # {} PROVE FALSE
  OBVIOUS
<1>2. PICK x \in Nat \ T : \A y \in Nat \ T : x <= y
  <2> DEFINE U == Nat \ T
  <2>1. U \in SUBSET Nat /\ U # {}
    BY <1>1
  <2> HIDE DEF U
  <2>2. \E x \in U : \A y \in U : x <= y
    BY <2>1, LeastElement
  <2> QED
    BY <2>2 DEF U
<1>3. x # 0
  OBVIOUS
<1>4. x - 1 \in Nat
  BY <1>3
<1>5. x - 1 \in T
  BY <1>2, <1>4
<1>6. (x - 1) + 1 \in T
  BY <1>5
<1> QED
  BY <1>6, <1>2

-----------------------------------------------------------------------------
(* Remainders *)

LEMMA RemainderBound ==
  ASSUME NEW x \in Nat, NEW n \in Nat, n > 0
  PROVE  x % n \in Nat /\ x % n < n
  OBVIOUS

LEMMA SmallRemainder ==
  ASSUME NEW x \in Nat, NEW n \in Nat, x < n
  PROVE  x % n = x
  OBVIOUS

LEMMA Quotient ==
  ASSUME NEW x \in Nat, NEW n \in Nat, n > 0
  PROVE  \E q \in Nat : x = q * n + (x % n)
  OBVIOUS

LEMMA Remainder ==
  ASSUME NEW x \in Nat, NEW n \in Nat, NEW q \in Nat, NEW r \in Nat,
         r < n, x = q * n + r
  PROVE  x % n = r
  OBVIOUS

\* A summand of n does not change the remainder.
LEMMA RemainderPeriod ==
  ASSUME NEW x \in Nat, NEW n \in Nat, n > 0
  PROVE  (x + n) % n = x % n
<1> DEFINE r == x % n
           y == x + n
<1>1. r \in Nat /\ r < n
  BY RemainderBound
<1>2. PICK q \in Nat : x = q * n + r
  BY Quotient
<1>3. y \in Nat
  OBVIOUS
<1> HIDE DEF r
<1>4. y = (q + 1) * n + r
  BY <1>1, <1>2
<1> DEFINE p == q + 1
<1>5. p \in Nat /\ y = p * n + r
  BY <1>4
<1> HIDE DEF y, p
<1>6. y % n = r
  BY <1>1, <1>3, <1>5, Remainder
<1> QED
  BY <1>6 DEF r, y

\* Nor does it matter when the remainder of a summand is taken.
LEMMA RemainderOfSum ==
  ASSUME NEW x \in Nat, NEW y \in Nat, NEW n \in Nat, n > 0
  PROVE  ((x % n) + y) % n = (x + y) % n
<1> DEFINE r == x % n
           z == r + y
           s == z % n
           w == x + y
<1>1. r \in Nat /\ r < n
  BY RemainderBound
<1>2. PICK q \in Nat : x = q * n + r
  BY Quotient
<1>3. z \in Nat /\ w \in Nat
  BY <1>1
<1> HIDE DEF r
<1>4. s \in Nat /\ s < n
  BY <1>3, RemainderBound
<1>5. PICK p \in Nat : z = p * n + s
  BY <1>3, Quotient
<1> HIDE DEF s
<1>6. w = (p + q) * n + s
  BY <1>1, <1>2, <1>4, <1>5
<1> DEFINE k == p + q
<1>7. k \in Nat /\ w = k * n + s
  BY <1>6
<1> HIDE DEF w, k
<1>8. w % n = s
  BY <1>3, <1>4, <1>7, Remainder
<1> QED
  BY <1>8 DEF r, z, s, w

\* A summand can be taken off again, below zero too.
LEMMA RemainderWithout ==
  ASSUME NEW x \in Nat, NEW y \in Nat, NEW n \in Nat, n > 0
  PROVE  (((x + y) % n) - x) % n = y % n
<1> DEFINE z == x + y
           r == z % n
           s == y % n
           w == r - x
<1>1. z \in Nat /\ r \in Nat /\ s \in Nat /\ s < n
  BY RemainderBound
<1>2. PICK p \in Nat : z = p * n + r
  BY <1>1, Quotient
<1>3. PICK q \in Nat : y = q * n + s
  BY Quotient
<1>4. z = x + y /\ w = r - x
  OBVIOUS
<1> HIDE DEF z, r, s, w
<1>5. w = q * n - p * n + s
  BY <1>1, <1>2, <1>3, <1>4
<1> DEFINE k == q - p
<1>6. k \in Int /\ w = k * n + s
  BY <1>1, <1>5
<1> HIDE DEF k
<1>7. w \in Int
  BY <1>1, <1>6
<1>8. w % n = s
  BY <1>1, <1>6, <1>7
<1> QED
  BY <1>8 DEF w, s, r, z

\* Places less than n apart have different remainders.
LEMMA RemainderApart ==
  ASSUME NEW x \in Nat, NEW y \in Nat, NEW n \in Nat,
         x < y, y - x < n
  PROVE  x % n # y % n
<1> DEFINE r == x % n
<1>1. n > 0
  OBVIOUS
<1>2. r \in Nat /\ r < n
  BY <1>1, RemainderBound
<1>3. SUFFICES ASSUME y % n = r PROVE FALSE
  OBVIOUS
<1>4. PICK q \in Nat : x = q * n + r
  BY <1>1, Quotient
<1>5. PICK p \in Nat : y = p * n + r
  BY <1>1, <1>3, Quotient, ZenonT(60)
<1> HIDE DEF r
<1>6. y - x = (p - q) * n
  BY <1>2, <1>4, <1>5
<1>7. p > q
  <2>1. SUFFICES ASSUME p <= q PROVE FALSE
    OBVIOUS
  <2>2. (p - q) * n <= 0
    BY <2>1, <1>1
  <2> QED
    BY <2>2, <1>6
<1>8. (p - q) * n >= n
  BY <1>7, <1>1
<1> QED
  BY <1>6, <1>8
-----------------------------------------------------------------------------
(* Powers of two *)

LEMMA PowersPositive ==
  ASSUME NEW p \in Powers
  PROVE  p \in Nat /\ p > 0
  BY DEF Powers

LEMMA PowerDoubled ==
  ASSUME NEW p \in Powers
  PROVE  2 * p \in Powers
<1>1. SUFFICES ASSUME NEW d \in 2 .. 2 * p, (2 * p) % d = 0, d % 2 # 0
               PROVE  FALSE
  BY DEF Powers
<1>2. d \in Nat /\ d > 1 /\ d > 0 /\ p \in Nat /\ p > 0 /\ 2 * p \in Nat
  BY DEF Powers
<1>3. PICK m \in Nat : 2 * p = m * d
  <2> DEFINE y == 2 * p
  <2>1. y \in Nat /\ y % d = 0
    BY <1>1, <1>2
  <2> HIDE DEF y
  <2>2. PICK m \in Nat : y = m * d + (y % d)
    BY <1>2, <2>1, Quotient
  <2>3. m * d \in Nat
    BY <1>2
  <2>4. y = m * d
    BY <2>1, <2>2, <2>3
  <2> QED
    BY <2>4 DEF y
<1>4. PICK k \in Nat : d = 2 * k + 1
  <2>1. PICK k \in Nat : d = k * 2 + (d % 2)
    BY <1>2, Quotient
  <2>2. d % 2 \in Nat /\ d % 2 < 2
    BY <1>2, RemainderBound
  <2>3. d % 2 = 1
    BY <1>1, <2>2
  <2> QED
    BY <2>1, <2>3
<1> DEFINE h == p - m * k
<1>5. h \in Int /\ m = 2 * h
  BY <1>2, <1>3, <1>4
<1> HIDE DEF h
<1>6. h \in Nat
  BY <1>5
<1>7. p = h * d
  <2>1. 2 * p = (2 * h) * d
    BY <1>3, <1>5
  <2>2. (2 * h) * d = 2 * (h * d)
    BY <1>2, <1>6
  <2>3. h * d \in Nat
    BY <1>2, <1>6
  <2> QED
    BY <1>2, <2>1, <2>2, <2>3
<1>8. p % d = 0
  BY <1>2, <1>6, <1>7, Remainder
<1>9. d <= p
  <2>1. h >= 1
    BY <1>2, <1>6, <1>7
  <2>2. h * d >= d
    BY <2>1, <1>2, <1>6
  <2> QED
    BY <2>2, <1>7
<1> QED
  BY <1>1, <1>2, <1>8, <1>9 DEF Powers

\* There is one between n and 2n - 1.
LEMMA PowerExists ==
  ASSUME NEW n \in Nat, n > 0
  PROVE  \E p \in n .. 2 * n - 1 : p \in Powers
<1> DEFINE T == {m \in Nat : \E p \in m + 1 .. 2 * m + 1 : p \in Powers}
<1>1. 0 \in T
  BY DEF Powers
<1>2. ASSUME NEW m \in T PROVE m + 1 \in T
  <2>1. PICK p \in m + 1 .. 2 * m + 1 : p \in Powers
    OBVIOUS
  <2>2. CASE p = m + 1
    <3>1. 2 * p \in Powers
      BY <2>1, PowerDoubled
    <3>2. 2 * p \in (m + 1) + 1 .. 2 * (m + 1) + 1
      BY <2>2
    <3> QED
      BY <3>1, <3>2
  <2>3. CASE p # m + 1
    <3>1. p \in (m + 1) + 1 .. 2 * (m + 1) + 1
      BY <2>3
    <3> QED
      BY <2>1, <3>1
  <2> QED
    BY <2>2, <2>3
<1>3. T \in SUBSET Nat
  OBVIOUS
<1> HIDE DEF T
<1>4. T = Nat
  BY <1>1, <1>2, <1>3, SetInduction
<1>5. n - 1 \in T
  BY <1>4
<1>6. PICK p \in (n - 1) + 1 .. 2 * (n - 1) + 1 : p \in Powers
  BY <1>5 DEF T
<1> QED
  BY <1>6

LEMMA PowerAtLeastFits ==
  ASSUME NEW n \in Nat, n > 0
  PROVE  /\ PowerAtLeast(n) \in n .. 2 * n - 1
         /\ PowerAtLeast(n) \in Powers
  BY PowerExists DEF PowerAtLeast

-----------------------------------------------------------------------------
(* Recursive functions *)

\* A recursive function over 0 .. N with values in S, whose step i is g[i].
Steps(N, S) == [1 .. N -> [S -> S]]
Follows(f, N, S, a, g) ==
  /\ f \in [0 .. N -> S]
  /\ f[0] = a
  /\ \A i \in 1 .. N : f[i] = g[i][f[i - 1]]

\* A function that is defined step by step exists.
LEMMA StepwiseFunction ==
  ASSUME NEW N \in Nat, NEW S, NEW a \in S, NEW g \in Steps(N, S)
  PROVE  \E f : Follows(f, N, S, a, g)
<1> DEFINE Upto(n) == \E f \in [0 .. n -> S] :
                        /\ f[0] = a
                        /\ \A i \in 1 .. n : f[i] = g[i][f[i - 1]]
           T == {n \in Nat : n <= N => Upto(n)}
<1>0. g \in [1 .. N -> [S -> S]]
  BY DEF Steps
<1>1. 0 \in T
  <2> DEFINE f == [j \in 0 .. 0 |-> a]
  <2>1. f \in [0 .. 0 -> S] /\ f[0] = a /\ \A i \in 1 .. 0 : FALSE
    OBVIOUS
  <2> HIDE DEF f
  <2> QED
    BY <2>1
<1>2. ASSUME NEW n \in T PROVE n + 1 \in T
  <2>1. SUFFICES ASSUME n + 1 <= N PROVE Upto(n + 1)
    BY SMTT(60)
  <2>2. PICK f \in [0 .. n -> S] : /\ f[0] = a
                                  /\ \A i \in 1 .. n : f[i] = g[i][f[i - 1]]
    BY <2>1
  <2> DEFINE h == [j \in 0 .. n + 1 |-> IF j <= n THEN f[j] ELSE g[n + 1][f[n]]]
  <2>3. n + 1 \in 1 .. N /\ f[n] \in S
    BY <2>1
  <2>4. g[n + 1] \in [S -> S]
    BY <1>0, <2>3
  <2>5. g[n + 1][f[n]] \in S
    BY <2>3, <2>4
  <2>6. h \in [0 .. n + 1 -> S]
    BY <2>5
  <2>7. h[0] = a
    BY <2>2
  <2>8. ASSUME NEW i \in 1 .. n + 1 PROVE h[i] = g[i][h[i - 1]]
    <3>1. CASE i = n + 1
      BY <3>1
    <3>2. CASE i # n + 1
      <4>1. i \in 1 .. n /\ i - 1 \in 0 .. n
        BY <3>2
      <4>2. h[i] = f[i] /\ h[i - 1] = f[i - 1]
        BY <4>1
      <4> QED
        BY <2>2, <4>1, <4>2
    <3> QED
      BY <3>1, <3>2
  <2> HIDE DEF h
  <2> QED
    BY <2>6, <2>7, <2>8, SMTT(60)
<1>3. T \in SUBSET Nat
  OBVIOUS
<1> HIDE DEF T
<1>4. T = Nat
  BY <1>1, <1>2, <1>3, SetInduction
<1>5. Upto(N)
  <2>1. N \in T
    BY <1>4
  <2> HIDE DEF Upto
  <2> QED
    BY <2>1 DEF T
<1> QED
  BY <1>5 DEF Follows

\* A sequence that has one element more.
LEMMA AppendForm ==
  ASSUME NEW V, NEW s \in Seq(V), NEW v \in V, NEW n \in Nat, Len(s) = n,
         NEW t \in [1 .. n + 1 -> V], \A i \in 1 .. n : t[i] = s[i], t[n + 1] = v
  PROVE  t = Append(s, v)
<1> DEFINE u == Append(s, v)
<1>1. /\ u \in Seq(V) /\ Len(u) = n + 1
      /\ \A i \in 1 .. n : u[i] = s[i]
      /\ u[n + 1] = v
  OBVIOUS
<1> HIDE DEF u
<1>2. u \in [1 .. n + 1 -> V]
  BY <1>1
<1>3. \A i \in 1 .. n + 1 : t[i] = u[i]
  <2> TAKE i \in 1 .. n + 1
  <2>1. CASE i = n + 1
    BY <1>1, <2>1
  <2>2. CASE i # n + 1
    <3>1. i \in 1 .. n
      BY <2>2
    <3> QED
      BY <1>1, <3>1
  <2> QED
    BY <2>1, <2>2
<1>4. t = u
  BY <1>2, <1>3
<1> QED
  BY <1>4 DEF u
=============================================================================
