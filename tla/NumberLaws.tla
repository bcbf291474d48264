----------------------------- MODULE NumberLaws -----------------------------
(***************************************************************************)
(* Laws of natural numbers that the proofs about the components share:     *)
(* least numbers, remainders, and sums of sequences.  What a recursive     *)
(* definition computes is shown by taking the least number at which it     *)
(* would go wrong: that subsets of a finite set are well-founded gives     *)
(* that least number.                                                      *)
(***************************************************************************)
EXTENDS Sums, FiniteSets, FiniteSetsExt, FiniteSetTheorems, WellFoundedInduction, TLAPS

(* A set of numbers that is not empty has a least one. *)
LEMMA LeastNumber ==
  ASSUME NEW W \in SUBSET Nat, W # {}
  PROVE  \E b \in W : \A c \in W : b <= c
<1>1. PICK m \in W : TRUE
  OBVIOUS
<1> DEFINE B == 0 .. m
           Below(b) == 0 .. b
           T == {Below(b) : b \in W \cap B}
           R == StrictSubsetOrdering(B)
<1>2. IsFiniteSet(B)
  BY FS_Interval
<1>3. IsWellFoundedOn(R, SUBSET B)
  BY <1>2, FS_StrictSubsetOrderingWellFounded, FS_FiniteSubsetsOfFinite
<1>4. T \subseteq SUBSET B /\ T # {}
  <2>1. \A b \in W \cap B : Below(b) \subseteq B
    OBVIOUS
  <2>2. \E b \in W \cap B : Below(b) \in T
    OBVIOUS
  <2> HIDE DEF Below
  <2> QED
    BY <2>1, <2>2
<1>5. PICK x \in T : \A y \in T : ~(<<y, x>> \in R)
  <2> HIDE DEF T, R
  <2> QED
    BY <1>3, <1>4, WFMin
<1>6. PICK b \in W \cap B : x = Below(b)
  OBVIOUS
<1>7. ASSUME NEW c \in W, c < b
      PROVE  FALSE
  <2>1. c \in W \cap B /\ Below(c) \in T
    BY <1>7
  <2>2. Below(c) \subseteq Below(b) /\ Below(c) # Below(b)
    <3>1. b \in Below(b) /\ b \notin Below(c)
      BY <1>7
    <3>2. Below(c) \subseteq Below(b)
      BY <1>7
    <3> QED
      BY <3>1, <3>2
  <2>3. <<Below(c), Below(b)>> \in R
    <3>1. Below(c) \in SUBSET B /\ Below(b) \in SUBSET B
      BY <1>4, <1>6, <2>1
    <3> HIDE DEF Below, B
    <3> QED
      BY <2>2, <3>1 DEF StrictSubsetOrdering
  <2> QED
    BY <1>5, <1>6, <2>1, <2>3
<1> QED
  BY <1>7

(* Induction, with a set for the property: what holds of 0 and of the next
   number whenever it holds of a number holds up to N. *)
LEMMA UpTo ==
  ASSUME NEW N \in Nat, NEW W, 0 \in W, \A n \in 0 .. N : n \in W /\ n < N => n + 1 \in W
  PROVE  0 .. N \subseteq W
<1> DEFINE Out == {n \in 0 .. N : n \notin W}
<1> SUFFICES ASSUME Out # {} PROVE FALSE
  OBVIOUS
<1>1. PICK b \in Out : \A c \in Out : b <= c
  <2>1. Out \in SUBSET Nat
    OBVIOUS
  <2> HIDE DEF Out
  <2> QED
    BY <2>1, LeastNumber
<1>2. b \in 1 .. N /\ b - 1 \notin Out
  BY <1>1
<1>3. b - 1 \in 0 .. N /\ b - 1 \in W /\ b - 1 < N
  BY <1>2
<1>4. b - 1 + 1 \in W
  BY <1>3
<1> QED
  BY <1>2, <1>4

(* Min of the community modules is a least number. *)
LEMMA MinIsLeast ==
  ASSUME NEW W \in SUBSET Nat, W # {}
  PROVE  Min(W) \in W /\ \A c \in W : Min(W) <= c
  BY LeastNumber DEF Min

-----------------------------------------------------------------------------
(* Division with rest, and that the rest is unique. *)
LEMMA DivisionWithRest ==
  ASSUME NEW m \in Nat \ {0}, NEW a \in Int
  PROVE  /\ a = m * (a \div m) + (a % m)
         /\ a % m \in 0 .. m - 1
         /\ a \div m \in Int
  OBVIOUS

LEMMA AtLeastOnce ==
  ASSUME NEW m \in Nat \ {0}, NEW q \in Int, q >= 1
  PROVE  m * q >= m
  OBVIOUS

LEMMA OnlyRest ==
  ASSUME NEW m \in Nat \ {0}, NEW p \in Int, NEW q \in Int,
         NEW r \in 0 .. m - 1, NEW s \in 0 .. m - 1,
         m * p + r = m * q + s
  PROVE  r = s
<1>1. m * (p - q) = s - r
  OBVIOUS
<1>2. CASE p - q >= 1
  BY <1>1, <1>2, AtLeastOnce
<1>3. CASE q - p >= 1
  <2>1. m * (q - p) = r - s
    OBVIOUS
  <2> QED
    BY <2>1, <1>3, AtLeastOnce
<1> QED
  BY <1>2, <1>3

LEMMA RestOf ==
  ASSUME NEW m \in Nat \ {0}, NEW q \in Int, NEW r \in 0 .. m - 1
  PROVE  (m * q + r) % m = r
<1> DEFINE a == m * q + r
<1>1. a \in Int
  OBVIOUS
<1>2. a = m * (a \div m) + (a % m) /\ a % m \in 0 .. m - 1 /\ a \div m \in Int
  BY <1>1, DivisionWithRest
<1> QED
  BY <1>2, OnlyRest

LEMMA RestOfSum ==
  ASSUME NEW m \in Nat \ {0}, NEW a \in Int, NEW b \in Int
  PROVE  ((a % m) + b) % m = (a + b) % m
<1> DEFINE q == a \div m
           c == (a % m) + b
           p == c \div m
           r == c % m
<1>1. a = m * q + (a % m) /\ a % m \in 0 .. m - 1 /\ q \in Int
  BY DivisionWithRest
<1>2. c \in Int
  BY <1>1
<1>3. c = m * p + r /\ r \in 0 .. m - 1 /\ p \in Int
  <2> HIDE DEF c
  <2> QED
    BY <1>2, DivisionWithRest
<1> HIDE DEF q, p, r
<1>4. a + b = m * q + c
  BY <1>1
<1> HIDE DEF c
<1>5. q + p \in Int /\ a + b = m * (q + p) + r
  BY <1>1, <1>2, <1>3, <1>4
<1>6. (m * (q + p) + r) % m = r
  BY <1>3, <1>5, RestOf
<1> QED
  BY <1>5, <1>6 DEF c, r

LEMMA SmallRest ==
  ASSUME NEW m \in Nat \ {0}, NEW a \in 0 .. m - 1
  PROVE  a % m = a
<1> DEFINE q == a \div m
<1>1. a = m * q + (a % m) /\ a % m \in 0 .. m - 1 /\ q \in Int
  BY DivisionWithRest
<1> HIDE DEF q
<1>2. m * q \in Int /\ m * q < m /\ m * q > 0 - m
  BY <1>1
<1>3. q = 0
  <2>1. q >= 1 => m * q >= m
    BY <1>1
  <2>2. q <= 0 - 1 => m * q <= 0 - m
    BY <1>1
  <2> QED
    BY <1>1, <1>2, <2>1, <2>2
<1> QED
  BY <1>1, <1>3

(* A step of less than a turn that ends where it began is none. *)
LEMMA LessThanATurn ==
  ASSUME NEW m \in Nat \ {0}, NEW r \in 0 .. m - 1, NEW d \in 0 .. m - 1, (r + d) % m = r
  PROVE  d = 0
<1>1. CASE r + d < m
  <2>1. r + d \in 0 .. m - 1
    BY <1>1
  <2>2. (r + d) % m = r + d
    BY <2>1, SmallRest
  <2> QED
    BY <2>2
<1>2. CASE r + d >= m
  <2>1. PICK c \in 0 .. m - 1 : r + d = m * 1 + c
    BY <1>2
  <2>2. (m * 1 + c) % m = c
    BY <2>1, RestOf
  <2>3. c = r
    BY <2>1, <2>2
  <2> QED
    BY <2>1, <2>3
<1> QED
  BY <1>1, <1>2

-----------------------------------------------------------------------------
(* A recursion over 0 .. N whose step is a function has a solution. *)
Recurs(f, N, S, start, step) ==
  /\ f \in [0 .. N -> S]
  /\ f[0] = start
  /\ \A k \in 1 .. N : f[k] = step[k][f[k - 1]]

LEMMA Recursion ==
  ASSUME NEW N \in Nat, NEW S, NEW start \in S, NEW step \in [1 .. N -> [S -> S]]
  PROVE  \E f : Recurs(f, N, S, start, step)
<1> DEFINE Solves(f, n) == /\ f \in [0 .. n -> S]
                           /\ f[0] = start
                           /\ \A k \in 1 .. n : f[k] = step[k][f[k - 1]]
           W == {n \in 0 .. N : \E f : Solves(f, n)}
<1>1. 0 \in W
  <2> DEFINE f == [k \in 0 .. 0 |-> start]
  <2>1. Solves(f, 0)
    OBVIOUS
  <2> HIDE DEF f, Solves
  <2> QED
    BY <2>1
<1>2. ASSUME NEW n \in 0 .. N, n \in W, n < N
      PROVE  n + 1 \in W
  <2>1. PICK f : Solves(f, n)
    BY <1>2
  <2> DEFINE g == [k \in 0 .. n + 1 |-> IF k = n + 1 THEN step[k][f[n]] ELSE f[k]]
  <2>2. step[n + 1][f[n]] \in S
    <3>1. f[n] \in S /\ n + 1 \in 1 .. N
      BY <1>2, <2>1
    <3> QED
      BY <3>1
  <2>3. g \in [0 .. n + 1 -> S] /\ g[0] = start
    BY <1>2, <2>1, <2>2
  <2>4. ASSUME NEW k \in 1 .. n + 1 PROVE g[k] = step[k][g[k - 1]]
    <3>1. CASE k = n + 1
      <4>1. g[k] = step[k][f[n]] /\ k - 1 = n /\ g[n] = f[n]
        BY <1>2, <3>1
      <4> HIDE DEF g
      <4> QED
        BY <4>1
    <3>2. CASE k # n + 1
      <4>1. k \in 1 .. n /\ k - 1 \in 0 .. n /\ k - 1 # n + 1
        BY <1>2, <3>2
      <4>2. g[k] = f[k] /\ g[k - 1] = f[k - 1]
        BY <3>2, <4>1, <1>2
      <4> QED
        BY <2>1, <4>1, <4>2
    <3> QED
      BY <3>1, <3>2
  <2>5. Solves(g, n + 1)
    BY <2>3, <2>4
  <2> HIDE DEF g, Solves
  <2> QED
    BY <1>2, <2>5
<1>3. N \in W
  <2>1. \A n \in 0 .. N : n \in W /\ n < N => n + 1 \in W
    BY <1>2
  <2>2. 0 \in W
    BY <1>1
  <2> HIDE DEF W
  <2>3. 0 .. N \subseteq W
    BY <2>1, <2>2, UpTo
  <2> QED
    BY <2>3
<1> QED
  BY <1>3 DEF Recurs

(* The sums exist: the recursion has a solution, which is a function to Int. *)
LEMMA SumsAre ==
  ASSUME NEW s \in Seq(Int)
  PROVE  /\ Sums(s) \in [0 .. Len(s) -> Int]
         /\ Sums(s)[0] = 0
         /\ \A n \in 1 .. Len(s) : Sums(s)[n] = Sums(s)[n - 1] + s[n]
<1> DEFINE N == Len(s)
           Solves(f, n) == /\ f \in [0 .. n -> Int]
                           /\ f[0] = 0
                           /\ \A k \in 1 .. n : f[k] = f[k - 1] + s[k]
<1>1. N \in Nat /\ \A n \in 1 .. N : s[n] \in Int
  OBVIOUS
<1>5. PICK f : Solves(f, N)
  <2> DEFINE add == [k \in 1 .. N |-> [x \in Int |-> x + s[k]]]
  <2>1. add \in [1 .. N -> [Int -> Int]]
    BY <1>1
  <2>2. \A k \in 1 .. N, x \in Int : add[k][x] = x + s[k]
    OBVIOUS
  <2> HIDE DEF add, N
  <2>3. N \in Nat /\ 0 \in Int
    BY <1>1
  <2>4. PICK f : Recurs(f, N, Int, 0, add)
    BY <2>1, <2>3, Recursion
  <2>5. ASSUME NEW k \in 1 .. N PROVE f[k] = f[k - 1] + s[k]
    <3>1. f[k - 1] \in Int
      BY <2>3, <2>4 DEF Recurs
    <3> QED
      BY <2>2, <2>4, <3>1 DEF Recurs
  <2> QED
    BY <2>4, <2>5 DEF N, Recurs
<1> DEFINE Step(g) == [n \in 0 .. N |-> IF n = 0 THEN 0 ELSE g[n - 1] + s[n]]
<1>6. f = Step(f)
  <2>1. \A n \in 0 .. N : f[n] = IF n = 0 THEN 0 ELSE f[n - 1] + s[n]
    BY <1>1, <1>5
  <2> QED
    BY <1>5, <2>1
<1>7. Sums(s) = Step(Sums(s))
  <2>1. Sums(s) = CHOOSE g : g = Step(g)
    BY DEF Sums
  <2> HIDE DEF Step
  <2> QED
    BY <1>6, <2>1
<1> DEFINE h == Sums(s)
<1>8. /\ h[0] = 0
      /\ \A n \in 1 .. N : h[n] = h[n - 1] + s[n]
      /\ h = [n \in 0 .. N |-> h[n]]
  <2> HIDE DEF h
  <2>1. h = Step(h)
    BY <1>7 DEF h
  <2> QED
    BY <1>1, <2>1
<1>9. \A n \in 0 .. N : h[n] \in Int
  <2> DEFINE V == {n \in 0 .. N : h[n] \in Int}
  <2> HIDE DEF h
  <2>1. 0 \in V
    BY <1>1, <1>8
  <2>2. ASSUME NEW n \in 0 .. N, n \in V, n < N PROVE n + 1 \in V
    <3>1. n + 1 \in 1 .. N /\ n + 1 - 1 = n
      BY <2>2, <1>1
    <3>2. PICK m \in 1 .. N : m = n + 1 /\ m - 1 = n
      BY <3>1
    <3>3. h[m] = h[m - 1] + s[m] /\ s[m] \in Int
      BY <1>1, <1>8
    <3>4. h[m] \in Int
      BY <2>2, <3>2, <3>3
    <3> QED
      BY <1>1, <3>1, <3>2, <3>4
  <2> HIDE DEF V
  <2>3. 0 .. N \subseteq V
    BY <1>1, <2>1, <2>2, UpTo
  <2> QED
    BY <2>3 DEF V
<1> QED
  <2> HIDE DEF h
  <2>1. h \in [0 .. N -> Int]
    BY <1>8, <1>9
  <2> QED
    BY <1>8, <2>1 DEF h
-----------------------------------------------------------------------------
(* The recurrence, from n to n + 1. *)
LEMMA SumsStep ==
  ASSUME NEW s \in Seq(Int), NEW n \in 0 .. Len(s), n < Len(s)
  PROVE  Sums(s)[n + 1] = Sums(s)[n] + s[n + 1]
<1>1. PICK m \in 1 .. Len(s) : m = n + 1 /\ m - 1 = n
  OBVIOUS
<1>2. Sums(s)[m] = Sums(s)[m - 1] + s[m]
  BY SumsAre
<1> QED
  BY <1>1, <1>2

LEMMA SeqSumType ==
  ASSUME NEW s \in Seq(Int)
  PROVE  SeqSum(s) \in Int
  BY SumsAre DEF SeqSum

LEMMA SumOfNone ==
  ASSUME NEW s \in Seq(Int), Len(s) = 0
  PROVE  SeqSum(s) = 0
  BY SumsAre DEF SeqSum

(* A sum of positive numbers is at least as large as they are many. *)
LEMMA SumAtLeastLength ==
  ASSUME NEW s \in Seq(Nat \ {0})
  PROVE  SeqSum(s) \in Nat /\ SeqSum(s) >= Len(s)
<1> DEFINE N == Len(s)
           f == Sums(s)
           W == {n \in 0 .. N : f[n] \in Nat /\ f[n] >= n}
<1>1. s \in Seq(Int) /\ N \in Nat /\ \A n \in 1 .. N : s[n] \in Nat /\ s[n] >= 1
  OBVIOUS
<1>2. /\ f[0] = 0
      /\ \A n \in 0 .. N : n < N => f[n + 1] = f[n] + s[n + 1]
  BY <1>1, SumsAre, SumsStep
<1>3. SeqSum(s) = f[N]
  BY DEF SeqSum
<1> HIDE DEF N, f
<1>4. 0 \in W
  BY <1>1, <1>2
<1>5. ASSUME NEW n \in 0 .. N, n \in W, n < N PROVE n + 1 \in W
  <2>1. n + 1 \in 1 .. N
    BY <1>1, <1>5
  <2> QED
    BY <1>1, <1>2, <1>5, <2>1
<1>6. N \in W
  <2> HIDE DEF W
  <2>1. 0 .. N \subseteq W
    BY <1>1, <1>4, <1>5, UpTo
  <2> QED
    BY <1>1, <2>1
<1> QED
  BY <1>3, <1>6 DEF N

(* A sum of numbers none of which is negative is not negative. *)
LEMMA SumIsNatural ==
  ASSUME NEW s \in Seq(Nat)
  PROVE  SeqSum(s) \in Nat
<1> DEFINE N == Len(s)
           f == Sums(s)
           W == {n \in 0 .. N : f[n] \in Nat}
<1>1. s \in Seq(Int) /\ N \in Nat /\ \A n \in 1 .. N : s[n] \in Nat
  OBVIOUS
<1>2. /\ f[0] = 0
      /\ \A n \in 0 .. N : n < N => f[n + 1] = f[n] + s[n + 1]
  BY <1>1, SumsAre, SumsStep
<1>3. SeqSum(s) = f[N]
  BY DEF SeqSum
<1> HIDE DEF N, f
<1>4. 0 \in W
  BY <1>1, <1>2
<1>5. ASSUME NEW n \in 0 .. N, n \in W, n < N PROVE n + 1 \in W
  <2>1. n + 1 \in 1 .. N
    BY <1>1, <1>5
  <2> QED
    BY <1>1, <1>2, <1>5, <2>1
<1>6. N \in W
  <2> HIDE DEF W
  <2>1. 0 .. N \subseteq W
    BY <1>1, <1>4, <1>5, UpTo
  <2> QED
    BY <1>1, <2>1
<1> QED
  BY <1>3, <1>6

(* A sum of zeros is zero. *)
LEMMA SumOfZeros ==
  ASSUME NEW s \in Seq(Int), \A k \in 1 .. Len(s) : s[k] = 0
  PROVE  SeqSum(s) = 0
<1> DEFINE N == Len(s)
           f == Sums(s)
           W == {n \in 0 .. N : f[n] = 0}
<1>1. N \in Nat /\ \A n \in 1 .. N : s[n] = 0
  OBVIOUS
<1>2. /\ f[0] = 0
      /\ \A n \in 0 .. N : n < N => f[n + 1] = f[n] + s[n + 1]
  BY SumsAre, SumsStep
<1>3. SeqSum(s) = f[N]
  BY DEF SeqSum
<1> HIDE DEF N, f
<1>4. 0 \in W
  BY <1>1, <1>2
<1>5. ASSUME NEW n \in 0 .. N, n \in W, n < N PROVE n + 1 \in W
  <2>1. n + 1 \in 1 .. N
    BY <1>1, <1>5
  <2> QED
    BY <1>1, <1>2, <1>5, <2>1
<1>6. N \in W
  <2> HIDE DEF W
  <2>1. 0 .. N \subseteq W
    BY <1>1, <1>4, <1>5, UpTo
  <2> QED
    BY <1>1, <2>1
<1> QED
  BY <1>3, <1>6

(* Two sequences that differ in one place, by d. *)
LEMMA SumsChanged ==
  ASSUME NEW s \in Seq(Int), NEW t \in Seq(Int), Len(s) = Len(t), NEW i \in 1 .. Len(s),
         \A k \in 1 .. Len(s) : k # i => s[k] = t[k]
  PROVE  SeqSum(t) = SeqSum(s) - s[i] + t[i]
<1> DEFINE N == Len(s)
           f == Sums(s)
           g == Sums(t)
           W == {n \in 0 .. N : g[n] = f[n] + IF n < i THEN 0 ELSE t[i] - s[i]}
<1>1. /\ N \in Nat /\ i \in 1 .. N /\ s[i] \in Int /\ t[i] \in Int
      /\ \A k \in 1 .. N : s[k] \in Int /\ t[k] \in Int /\ (k # i => s[k] = t[k])
  OBVIOUS
<1>2. /\ f \in [0 .. N -> Int] /\ g \in [0 .. N -> Int] /\ f[0] = 0 /\ g[0] = 0
      /\ \A n \in 0 .. N : n < N => f[n + 1] = f[n] + s[n + 1] /\ g[n + 1] = g[n] + t[n + 1]
  BY SumsAre, SumsStep
<1>3. SeqSum(s) = f[N] /\ SeqSum(t) = g[N]
  BY DEF SeqSum
<1> HIDE DEF N, f, g
<1>4. 0 \in W
  BY <1>1, <1>2
<1>5. ASSUME NEW n \in 0 .. N, n \in W, n < N PROVE n + 1 \in W
  <2>1. n + 1 \in 1 .. N
    BY <1>1, <1>5
  <2>2. f[n + 1] = f[n] + s[n + 1] /\ g[n + 1] = g[n] + t[n + 1]
    BY <1>2, <1>5
  <2>3. f[n] \in Int /\ g[n] = f[n] + IF n < i THEN 0 ELSE t[i] - s[i]
    BY <1>2, <1>5
  <2>4. CASE n + 1 = i
    BY <1>1, <2>1, <2>2, <2>3, <2>4
  <2>5. CASE n + 1 # i
    <3>1. s[n + 1] = t[n + 1] /\ s[n + 1] \in Int /\ (n < i <=> n + 1 < i)
      BY <1>1, <1>5, <2>1, <2>5
    <3> QED
      BY <1>1, <2>1, <2>2, <2>3, <3>1
  <2> QED
    BY <2>4, <2>5
<1>6. N \in W
  <2> HIDE DEF W
  <2>1. 0 .. N \subseteq W
    BY <1>1, <1>4, <1>5, UpTo
  <2> QED
    BY <1>1, <2>1
<1>7. g[N] = f[N] + (t[i] - s[i]) /\ f[N] \in Int
  <2>1. ~(N < i) /\ N \in 0 .. N
    BY <1>1
  <2> QED
    BY <1>2, <1>6, <2>1
<1> QED
  BY <1>1, <1>3, <1>7

(* A prefix has the same sums. *)
LEMMA SumsOfPrefix ==
  ASSUME NEW s \in Seq(Int), NEW t \in Seq(Int), Len(t) <= Len(s),
         \A k \in 1 .. Len(t) : s[k] = t[k]
  PROVE  SeqSum(t) = Sums(s)[Len(t)]
<1> DEFINE N == Len(t)
           f == Sums(s)
           g == Sums(t)
           W == {n \in 0 .. N : g[n] = f[n]}
<1>1. /\ N \in Nat
      /\ \A n \in 1 .. N : s[n] = t[n]
  OBVIOUS
<1>2. /\ g[0] = f[0]
      /\ \A n \in 0 .. N : n < N => f[n + 1] = f[n] + s[n + 1] /\ g[n + 1] = g[n] + t[n + 1]
  BY SumsAre, SumsStep
<1>3. SeqSum(t) = g[N]
  BY DEF SeqSum
<1> HIDE DEF N, f, g
<1>4. 0 \in W
  BY <1>1, <1>2
<1>5. ASSUME NEW n \in 0 .. N, n \in W, n < N PROVE n + 1 \in W
  <2>1. n + 1 \in 1 .. N
    BY <1>1, <1>5
  <2> QED
    BY <1>1, <1>2, <1>5, <2>1
<1>6. N \in W
  <2> HIDE DEF W
  <2>1. 0 .. N \subseteq W
    BY <1>1, <1>4, <1>5, UpTo
  <2> QED
    BY <1>1, <2>1
<1> QED
  BY <1>3, <1>6 DEF N, f

LEMMA SumOfAppend ==
  ASSUME NEW s \in Seq(Int), NEW x \in Int
  PROVE  SeqSum(Append(s, x)) = SeqSum(s) + x
<1> DEFINE t == Append(s, x)
<1>1. /\ t \in Seq(Int) /\ Len(t) = Len(s) + 1 /\ t[Len(s) + 1] = x
      /\ \A k \in 1 .. Len(s) : t[k] = s[k]
      /\ Len(s) \in Nat
  OBVIOUS
<1> HIDE DEF t
<1>2. SeqSum(s) = Sums(t)[Len(s)]
  BY <1>1, SumsOfPrefix
<1>3. SeqSum(t) = Sums(t)[Len(s) + 1]
  BY <1>1 DEF SeqSum
<1>4. Sums(t)[Len(s) + 1] = Sums(t)[Len(s)] + t[Len(s) + 1]
  <2>1. PICK n \in 0 .. Len(t) : n = Len(s) /\ n < Len(t)
    BY <1>1
  <2>2. Sums(t)[n + 1] = Sums(t)[n] + t[n + 1]
    BY <1>1, <2>1, SumsStep
  <2> QED
    BY <2>1, <2>2
<1> QED
  BY <1>1, <1>2, <1>3, <1>4 DEF t

(* The last element, taken off. *)
LEMMA SumWithoutLast ==
  ASSUME NEW s \in Seq(Int), NEW t \in Seq(Int), Len(s) > 0, Len(t) = Len(s) - 1,
         \A k \in 1 .. Len(t) : s[k] = t[k]
  PROVE  SeqSum(t) = SeqSum(s) - s[Len(s)]
<1>1. PICK n \in 0 .. Len(s) : n = Len(t) /\ n + 1 = Len(s) /\ n < Len(s)
  OBVIOUS
<1>2. SeqSum(t) = Sums(s)[n]
  <2>1. Len(t) <= Len(s)
    BY <1>1
  <2> QED
    BY <1>1, <2>1, SumsOfPrefix
<1>3. Sums(s)[n + 1] = Sums(s)[n] + s[n + 1]
  BY <1>1, SumsStep
<1>4. Sums(s)[n] \in Int
  BY <1>1, SumsAre
<1>5. s[n + 1] \in Int
  BY <1>1
<1> QED
  BY <1>1, <1>2, <1>3, <1>4, <1>5 DEF SeqSum

(* The first element, taken off. *)
LEMMA SumOfTail ==
  ASSUME NEW s \in Seq(Int), s # << >>
  PROVE  SeqSum(s) = Head(s) + SeqSum(Tail(s))
<1> DEFINE t == Tail(s)
           N == Len(t)
           f == Sums(s)
           g == Sums(t)
           W == {n \in 0 .. N : f[n + 1] = s[1] + g[n]}
<1>1. /\ t \in Seq(Int) /\ N \in Nat /\ Len(s) = N + 1 /\ Head(s) = s[1] /\ s[1] \in Int
      /\ \A n \in 1 .. N : t[n] = s[n + 1] /\ t[n] \in Int
  OBVIOUS
<1>2. /\ f[0] = 0 /\ g[0] = 0
      /\ f \in [0 .. N + 1 -> Int] /\ g \in [0 .. N -> Int]
      /\ \A n \in 0 .. N + 1 : n < N + 1 => f[n + 1] = f[n] + s[n + 1]
      /\ \A n \in 0 .. N : n < N => g[n + 1] = g[n] + t[n + 1]
  BY <1>1, SumsAre, SumsStep
<1>3. SeqSum(s) = f[N + 1] /\ SeqSum(t) = g[N]
  BY <1>1 DEF SeqSum
<1> HIDE DEF t, N, f, g
<1>4. 0 \in W
  BY <1>1, <1>2
<1>5. ASSUME NEW n \in 0 .. N, n \in W, n < N PROVE n + 1 \in W
  <2>1. PICK m \in 1 .. N : m = n + 1 /\ m \in 0 .. N + 1 /\ m < N + 1
    BY <1>1, <1>5
  <2>2. f[m + 1] = f[m] + s[m + 1] /\ g[m] = g[n] + t[m] /\ t[m] = s[m + 1] /\ t[m] \in Int
    BY <1>1, <1>2, <1>5, <2>1
  <2>3. f[m] = s[1] + g[n] /\ g[n] \in Int
    BY <1>2, <1>5, <2>1
  <2>4. f[m + 1] = s[1] + g[m]
    BY <1>1, <2>2, <2>3
  <2> QED
    BY <2>1, <2>4
<1>6. N \in W
  <2> HIDE DEF W
  <2>1. 0 .. N \subseteq W
    BY <1>1, <1>4, <1>5, UpTo
  <2> QED
    BY <1>1, <2>1
<1> QED
  BY <1>1, <1>3, <1>6 DEF t
==============================================================================
