--------------------------- MODULE QuorumsProofs ---------------------------
(***************************************************************************)
(* Proofs about quorums and certificates, for every prime modulus, every   *)
(* configuration and all coins.                                            *)
(***************************************************************************)
EXTENDS Quorums, FiniteSetTheorems, SequenceTheorems, WellFoundedInduction, TLAPS

-----------------------------------------------------------------------------
(* Induction over a set of naturals, and the functions that recur on them. *)

\* A non-empty set of naturals has a least element.
LEMMA LeastNatural ==
  ASSUME NEW T \in SUBSET Nat, T # {}
  PROVE  \E m \in T : \A k \in T : m <= k
<1> DEFINE R == {p \in Nat \X Nat : p[1] < p[2]}
<1>1. IsWellFoundedOn(R, Nat)
  BY NatLessThanWellFounded DEF OpToRel
<1>2. PICK m \in T : \A k \in T : ~(<<k, m>> \in R)
  <2> HIDE DEF R
  <2> QED BY <1>1, WFMin
<1>3. ASSUME NEW k \in T PROVE m <= k
  <2>1. k \in Nat /\ m \in Nat
    OBVIOUS
  <2>2. <<k, m>> \in Nat \X Nat /\ <<k, m>>[1] = k /\ <<k, m>>[2] = m
    BY <2>1
  <2>3. ~(k < m)
    BY <1>2, <2>2
  <2> QED BY <2>1, <2>3
<1> QED BY <1>3

\* What holds of 0 and is handed on holds of every natural number.
LEMMA InductionOnNat ==
  ASSUME NEW S, 0 \in S, \A m \in Nat : m \in S => m + 1 \in S
  PROVE  \A m \in Nat : m \in S
<1> DEFINE T == Nat \ S
<1> SUFFICES ASSUME T # {} PROVE FALSE
  OBVIOUS
<1>1. PICK m \in T : \A k \in T : m <= k
  <2>1. T \in SUBSET Nat
    OBVIOUS
  <2> HIDE DEF T
  <2> QED BY <2>1, LeastNatural
<1>2. m # 0 /\ m - 1 \in Nat /\ m - 1 \notin T
  BY <1>1
<1> QED BY <1>1, <1>2

\* The function that Total is read from.
IsTotal(f, n, s) == s = [i \in 0..n |-> IF i = 0 THEN 0 ELSE s[i - 1] + f[i]]

LEMMA TotalExists ==
  ASSUME NEW f
  PROVE  \A n \in Nat : \E s : IsTotal(f, n, s)
<1> DEFINE S == {m \in Nat : \E s : IsTotal(f, m, s)}
<1>1. 0 \in S
  <2> DEFINE t == [i \in 0..0 |-> 0]
  <2>1. IsTotal(f, 0, t)
    BY DEF IsTotal
  <2> QED BY <2>1
<1>2. ASSUME NEW m \in Nat, m \in S PROVE m + 1 \in S
  <2>1. PICK s : IsTotal(f, m, s)
    BY <1>2
  <2> DEFINE t == [i \in 0..(m + 1) |-> IF i = m + 1 THEN s[m] + f[m + 1] ELSE s[i]]
  <2>2. ASSUME NEW i \in 0..(m + 1) PROVE t[i] = IF i = 0 THEN 0 ELSE t[i - 1] + f[i]
    BY <2>1 DEF IsTotal
  <2>3. IsTotal(f, m + 1, t)
    BY <2>2 DEF IsTotal
  <2> QED BY <2>3
<1> HIDE DEF S
<1>3. \A m \in Nat : m \in S
  BY <1>1, <1>2, InductionOnNat
<1> QED BY <1>3 DEF S

\* Two of these functions agree where both are defined.
LEMMA TotalUnique ==
  ASSUME NEW f, NEW n \in Nat, NEW k \in 0..n, NEW s, NEW t, IsTotal(f, n, s), IsTotal(f, k, t)
  PROVE  \A i \in 0..k : s[i] = t[i]
<1> DEFINE S == {i \in Nat : i \in 0..k => s[i] = t[i]}
<1>1. 0 \in S
  BY DEF IsTotal
<1>2. ASSUME NEW i \in Nat, i \in S PROVE i + 1 \in S
  BY <1>2 DEF IsTotal
<1> HIDE DEF S
<1>3. \A i \in Nat : i \in S
  BY <1>1, <1>2, InductionOnNat
<1> QED BY <1>3 DEF S

-----------------------------------------------------------------------------
(* Sums. *)

LEMMA TotalStep ==
  ASSUME NEW f
  PROVE  /\ Total(f, 0) = 0
         /\ \A n \in Nat : Total(f, n + 1) = Total(f, n) + f[n + 1]
<1> DEFINE s(n) == CHOOSE t : IsTotal(f, n, t)
<1>1. ASSUME NEW n \in Nat
      PROVE  Total(f, n) = s(n)[n] /\ IsTotal(f, n, s(n))
  <2>1. Total(f, n) = s(n)[n]
    BY DEF Total, IsTotal
  <2>2. \E t : IsTotal(f, n, t)
    BY TotalExists
  <2>3. IsTotal(f, n, s(n))
    BY <2>2
  <2> QED BY <2>1, <2>3
<1> HIDE DEF s
<1>2. Total(f, 0) = 0
  BY <1>1 DEF IsTotal
<1>3. ASSUME NEW n \in Nat
      PROVE  Total(f, n + 1) = Total(f, n) + f[n + 1]
  <2>1. n + 1 \in Nat /\ n \in 0..(n + 1) /\ n \in 0..n
    OBVIOUS
  <2>2. s(n + 1)[n] = s(n)[n]
    <3>1. IsTotal(f, n + 1, s(n + 1)) /\ IsTotal(f, n, s(n))
      BY <1>1, <2>1
    <3>2. \A i \in 0..n : s(n + 1)[i] = s(n)[i]
      BY <2>1, <3>1, TotalUnique
    <3> QED BY <2>1, <3>2
  <2>3. s(n + 1)[n + 1] = s(n + 1)[n] + f[n + 1]
    BY <1>1, <2>1 DEF IsTotal
  <2> QED BY <1>1, <2>1, <2>2, <2>3
<1> QED BY <1>2, <1>3

LEMMA TotalInt ==
  ASSUME NEW f, NEW n \in Nat, \A i \in 1..n : f[i] \in Int
  PROVE  \A i \in 0..n : Total(f, i) \in Int
<1> DEFINE S == {i \in Nat : i \in 0..n => Total(f, i) \in Int}
<1>1. 0 \in S
  BY TotalStep
<1>2. ASSUME NEW i \in Nat, i \in S PROVE i + 1 \in S
  BY <1>2, TotalStep
<1> HIDE DEF S
<1>3. \A i \in Nat : i \in S
  BY <1>1, <1>2, InductionOnNat
<1> QED BY <1>3 DEF S

\* A sum depends on its terms only.
LEMMA TotalEqual ==
  ASSUME NEW f, NEW g, NEW n \in Nat, \A i \in 1..n : f[i] = g[i]
  PROVE  Total(f, n) = Total(g, n)
<1> DEFINE S == {i \in Nat : i \in 0..n => Total(f, i) = Total(g, i)}
<1>1. 0 \in S
  BY TotalStep
<1>2. ASSUME NEW i \in Nat, i \in S PROVE i + 1 \in S
  BY <1>2, TotalStep
<1> HIDE DEF S
<1>3. \A i \in Nat : i \in S
  BY <1>1, <1>2, InductionOnNat
<1> QED BY <1>3 DEF S

\* Terms that are 0 add nothing.
LEMMA TotalZeros ==
  ASSUME NEW f, NEW k \in Nat, NEW n \in Nat, k <= n,
         Total(f, k) \in Int, \A i \in (k + 1)..n : f[i] = 0
  PROVE  Total(f, n) = Total(f, k)
<1> DEFINE S == {i \in Nat : i \in k..n => Total(f, i) = Total(f, k)}
<1>1. 0 \in S
  BY TotalStep
<1>2. ASSUME NEW i \in Nat, i \in S PROVE i + 1 \in S
  BY <1>2, TotalStep
<1> HIDE DEF S
<1>3. \A i \in Nat : i \in S
  BY <1>1, <1>2, InductionOnNat
<1> QED BY <1>3 DEF S

\* Of the terms after the first k only one is not 0, if any.
LEMMA TotalSingle ==
  ASSUME NEW f, NEW k \in Nat, NEW n \in Nat, k <= n,
         NEW i \in Nat, i <= n,
         \A q \in 1..n : f[q] \in Int,
         \A q \in (k + 1)..n : q # i => f[q] = 0
  PROVE  Total(f, n) = Total(f, k) + IF i > k THEN f[i] ELSE 0
<1>1. \A q \in 0..n : Total(f, q) \in Int
  BY TotalInt
<1>2. CASE i <= k
  <2>1. \A q \in (k + 1)..n : f[q] = 0
    BY <1>2
  <2>2. Total(f, n) = Total(f, k)
    BY <1>1, <2>1, TotalZeros
  <2> QED BY <1>1, <1>2, <2>2
<1>3. CASE i > k
  <2>1. i - 1 \in Nat /\ k <= i - 1 /\ (i - 1) + 1 = i
    BY <1>3
  <2>2. Total(f, i - 1) = Total(f, k)
    BY <1>1, <1>3, <2>1, TotalZeros
  <2>3. Total(f, i) = Total(f, i - 1) + f[i]
    BY <2>1, TotalStep
  <2>4. Total(f, n) = Total(f, i)
    BY <1>1, <1>3, TotalZeros
  <2> QED BY <1>3, <2>2, <2>3, <2>4
<1> QED BY <1>2, <1>3
-----------------------------------------------------------------------------
(* The field. *)

LEMMA Division ==
  ASSUME NEW p \in Nat, p > 0, NEW a \in Int
  PROVE  a % p \in 0..(p - 1) /\ a \div p \in Int /\ a = p * (a \div p) + (a % p)
<1>1. a % p \in 0..(p - 1)
  OBVIOUS
<1>2. a \div p \in Int
  OBVIOUS
<1>3. a = p * (a \div p) + (a % p)
  OBVIOUS
<1> QED BY <1>1, <1>2, <1>3

LEMMA RemainderUnique ==
  ASSUME NEW p \in Nat, p > 0, NEW q \in Int, NEW r \in 0..(p - 1),
         NEW t \in Int, NEW u \in 0..(p - 1), p * q + r = p * t + u
  PROVE  r = u /\ q = t
<1>1. p * (q - t) = u - r
  OBVIOUS
<1>2. CASE q = t
  BY <1>1, <1>2
<1>3. CASE q > t
  <2>1. p * (q - t) >= p
    BY <1>3
  <2> QED BY <1>1, <2>1
<1>4. CASE q < t
  <2>1. p * (q - t) <= -p
    BY <1>4
  <2> QED BY <1>1, <2>1
<1> QED BY <1>2, <1>3, <1>4

LEMMA ModulusFacts ==
  /\ P \in Nat /\ P > 1
  /\ Field \subseteq Nat /\ Field \subseteq Int
  /\ 0 \in Field /\ 1 \in Field
BY ModulusAssumption DEF Field

\* Equal modulo P.
Congruent(a, b) == \E k \in Int : a = b + P * k

LEMMA ModInField ==
  ASSUME NEW a \in Int
  PROVE  a % P \in Field /\ Congruent(a % P, a) /\ Congruent(a, a % P)
<1>1. a % P \in 0..(P - 1) /\ a \div P \in Int /\ a = P * (a \div P) + (a % P)
  BY ModulusFacts, Division
<1>2. a % P = a + P * (-(a \div P)) /\ -(a \div P) \in Int
  BY <1>1, ModulusFacts
<1>3. a = (a % P) + P * (a \div P)
  BY <1>1, ModulusFacts
<1> QED BY <1>1, <1>2, <1>3 DEF Field, Congruent

LEMMA CongruentRefl ==
  ASSUME NEW a \in Int
  PROVE  Congruent(a, a)
<1>1. a = a + P * 0
  BY ModulusFacts
<1> QED BY <1>1 DEF Congruent

LEMMA CongruentSym ==
  ASSUME NEW a \in Int, NEW b \in Int, Congruent(a, b)
  PROVE  Congruent(b, a)
<1>1. PICK k \in Int : a = b + P * k
  BY DEF Congruent
<1>2. b = a + P * (-k) /\ -k \in Int
  BY <1>1, ModulusFacts
<1> QED BY <1>2 DEF Congruent

LEMMA CongruentTrans ==
  ASSUME NEW a \in Int, NEW b \in Int, NEW c \in Int, Congruent(a, b), Congruent(b, c)
  PROVE  Congruent(a, c)
<1>1. PICK k \in Int : a = b + P * k
  BY DEF Congruent
<1>2. PICK l \in Int : b = c + P * l
  BY DEF Congruent
<1>3. a = c + P * (k + l) /\ k + l \in Int
  BY <1>1, <1>2, ModulusFacts
<1> QED BY <1>3 DEF Congruent

LEMMA CongruentAdd ==
  ASSUME NEW a \in Int, NEW b \in Int, NEW c \in Int, NEW d \in Int,
         Congruent(a, b), Congruent(c, d)
  PROVE  Congruent(a + c, b + d)
<1>1. PICK k \in Int : a = b + P * k
  BY DEF Congruent
<1>2. PICK l \in Int : c = d + P * l
  BY DEF Congruent
<1>3. a + c = (b + d) + P * (k + l) /\ k + l \in Int
  BY <1>1, <1>2, ModulusFacts
<1> QED BY <1>3 DEF Congruent

LEMMA CongruentTimes ==
  ASSUME NEW a \in Int, NEW b \in Int, NEW c \in Int, Congruent(a, b)
  PROVE  Congruent(a * c, b * c) /\ Congruent(c * a, c * b)
<1>1. PICK k \in Int : a = b + P * k
  BY DEF Congruent
<1>2. k * c \in Int
  OBVIOUS
<1>3. a * c = b * c + P * (k * c)
  <2>1. a * c = (b + P * k) * c
    BY <1>1
  <2>2. (b + P * k) * c = b * c + (P * k) * c
    BY ModulusFacts
  <2>3. (P * k) * c = P * (k * c)
    BY ModulusFacts
  <2> QED BY <2>1, <2>2, <2>3
<1>4. c * a = a * c /\ c * b = b * c
  OBVIOUS
<1> QED BY <1>2, <1>3, <1>4 DEF Congruent

LEMMA CongruentMod ==
  ASSUME NEW a \in Int, NEW b \in Int, Congruent(a, b)
  PROVE  a % P = b % P
<1>1. PICK k \in Int : a = b + P * k
  BY DEF Congruent
<1>2. PICK q \in Int, r \in 0..(P - 1) : a = P * q + r /\ a % P = r
  BY ModulusFacts, Division
<1>3. PICK t \in Int, u \in 0..(P - 1) : b = P * t + u /\ b % P = u
  BY ModulusFacts, Division
<1>4. P * q + r = P * (t + k) + u /\ t + k \in Int
  BY <1>1, <1>2, <1>3, ModulusFacts
<1>5. r = u
  BY <1>4, ModulusFacts, RemainderUnique
<1> QED BY <1>2, <1>3, <1>5

LEMMA ModOfField ==
  ASSUME NEW a \in Field
  PROVE  a % P = a
<1>1. a \in 0..(P - 1) /\ a \in Int
  BY ModulusFacts DEF Field
<1>2. a % P \in 0..(P - 1) /\ a \div P \in Int /\ a = P * (a \div P) + (a % P)
  BY <1>1, ModulusFacts, Division
<1>3. P * 0 + a = P * (a \div P) + (a % P)
  BY <1>1, <1>2, ModulusFacts
<1> QED BY <1>1, <1>2, <1>3, ModulusFacts, RemainderUnique

\* Congruent elements of the field are equal.
LEMMA CongruentField ==
  ASSUME NEW a \in Field, NEW b \in Field, Congruent(a, b)
  PROVE  a = b
<1>1. a \in Int /\ b \in Int
  BY ModulusFacts
<1>2. a % P = b % P
  BY <1>1, CongruentMod
<1> QED BY <1>2, ModOfField

LEMMA NegativeFacts ==
  ASSUME NEW a \in Field
  PROVE  Negative(a) \in Field /\ Congruent(Negative(a), -a)
<1>1. a \in Int /\ P - a \in Int /\ -a \in Int
  BY ModulusFacts
<1>2. Negative(a) \in Field /\ Congruent(Negative(a), P - a)
  BY <1>1, ModInField DEF Negative
<1>3. Congruent(P - a, -a)
  <2>1. P - a = -a + P * 1
    BY <1>1, ModulusFacts
  <2> QED BY <2>1 DEF Congruent
<1>4. Negative(a) \in Int
  BY <1>2, ModulusFacts
<1> QED BY <1>1, <1>2, <1>3, <1>4, CongruentTrans

\* What is not 0 has an inverse, P being prime: the least positive number of the
\* form a * x + P * k divides a and P.
LEMMA InverseFacts ==
  ASSUME NEW a \in Field, a # 0
  PROVE  InvMod(a) \in Field /\ Congruent(a * InvMod(a), 1)
<1>0. a \in Nat /\ a > 0 /\ a < P /\ P \in Nat /\ P > 1
  BY ModulusFacts DEF Field
<1> DEFINE T == {m \in Nat : m > 0 /\ \E x \in Int, k \in Int : m = a * x + P * k}
<1>1. a \in T /\ P \in T
  <2>1. a = a * 1 + P * 0 /\ P = a * 0 + P * 1
    BY <1>0
  <2>2. 0 \in Int /\ 1 \in Int
    OBVIOUS
  <2>3. a \in T
    BY <1>0, <2>1, <2>2
  <2>4. P \in T
    BY <1>0, <2>1, <2>2
  <2> QED BY <2>3, <2>4
<1>2. PICK m \in T : \A k \in T : m <= k
  <2>1. T \in SUBSET Nat /\ T # {}
    BY <1>1
  <2> HIDE DEF T
  <2> QED BY <2>1, LeastNatural
<1>3. PICK x \in Int, k \in Int : m = a * x + P * k
  OBVIOUS
<1>4. ASSUME NEW b \in T PROVE b % m = 0
  <2>1. PICK y \in Int, l \in Int : b = a * y + P * l
    OBVIOUS
  <2>2. m \in Nat /\ m > 0 /\ b \in Int
    OBVIOUS
  <2>3. b % m \in 0..(m - 1) /\ b \div m \in Int /\ b = m * (b \div m) + (b % m)
    BY <2>2, Division
  <2> DEFINE q == b \div m
  <2> HIDE DEF T
  <2>4. b % m = a * (y - x * q) + P * (l - k * q)
    <3>1. q \in Int /\ b % m = b - m * q
      BY <2>2, <2>3
    <3> HIDE DEF q
    <3>2. m * q = a * (x * q) + P * (k * q)
      <4>1. m * q = (a * x) * q + (P * k) * q
        BY <1>0, <1>3, <3>1
      <4>2. (a * x) * q = a * (x * q) /\ (P * k) * q = P * (k * q)
        BY <1>0, <3>1
      <4> QED BY <4>1, <4>2
    <3>3. x * q \in Int /\ k * q \in Int
      BY <3>1
    <3>4. /\ a * (y - x * q) = a * y - a * (x * q)
          /\ P * (l - k * q) = P * l - P * (k * q)
      BY <1>0, <3>3
    <3> QED BY <1>0, <2>1, <2>2, <3>1, <3>2, <3>3, <3>4
  <2>5. y - x * q \in Int /\ l - k * q \in Int
    BY <2>3
  <2> HIDE DEF q
  <2>6. b % m > 0 => b % m \in T
    BY <2>3, <2>4, <2>5 DEF T
  <2>7. b % m \in T => m <= b % m
    BY <1>2
  <2> QED BY <2>2, <2>3, <2>6, <2>7
<1>5. m = 1
  <2>1. P % m = 0
    BY <1>1, <1>4
  <2>2. m <= a /\ m \in Nat /\ m > 0
    BY <1>1, <1>2
  <2> HIDE DEF T
  <2>3. m \notin 2..(P - 1)
    BY <2>1, ModulusAssumption
  <2> QED BY <1>0, <2>2, <2>3
<1> DEFINE b == x % P
<1>6. b \in Field /\ Congruent(b, x) /\ b \in Int
  BY ModInField, ModulusFacts
<1> HIDE DEF b, T
<1>7. Congruent(a * b, 1)
  <2>1. a * x = 1 + P * (-k) /\ -k \in Int /\ a * x \in Int
    BY <1>0, <1>3, <1>5
  <2>2. Congruent(a * x, 1)
    BY <2>1 DEF Congruent
  <2>3. Congruent(a * b, a * x)
    BY <1>0, <1>6, CongruentTimes
  <2>4. a * b \in Int
    BY <1>0, <1>6
  <2> QED BY <2>1, <2>2, <2>3, <2>4, CongruentTrans
<1>8. (a * b) % P = 1
  <2>1. a * b \in Int
    BY <1>0, <1>6
  <2>2. (a * b) % P = 1 % P
    BY <1>7, <2>1, CongruentMod
  <2> QED BY <2>2, ModulusFacts, ModOfField
<1>9. InvMod(a) \in Field /\ (a * InvMod(a)) % P = 1
  BY <1>6, <1>8 DEF InvMod
<1>10. a * InvMod(a) \in Int
  <2>1. InvMod(a) \in Int
    BY <1>9, ModulusFacts
  <2> HIDE DEF InvMod
  <2> QED BY <1>0, <2>1
<1>11. Congruent(a * InvMod(a), (a * InvMod(a)) % P)
  BY <1>10, ModInField
<1> QED BY <1>9, <1>11
-----------------------------------------------------------------------------
(* Matrices. *)

Matrix(n, m) == [1..n -> [1..m -> Field]]

LEMMA FunctionIsSeq ==
  ASSUME NEW n \in Nat, NEW S, NEW f \in [1..n -> S]
  PROVE  f \in Seq(S) /\ Len(f) = n /\ DOMAIN f = 1..n
OBVIOUS

LEMMA FieldTimes ==
  ASSUME NEW a \in Int, NEW b \in Int
  PROVE  a * b \in Int
OBVIOUS

\* The products that add up to entry i, j of the product of A and B.
Terms(A, B, n, i, j) == [q \in 1..n |-> B[q][j] * A[i][q]]

LEMMA TermsInt ==
  ASSUME NEW n \in Nat, NEW m \in Nat, NEW r \in Nat,
         NEW A \in Matrix(n, r), NEW B \in Matrix(r, m), NEW i \in 1..n, NEW j \in 1..m
  PROVE  /\ \A q \in 1..r : /\ Terms(A, B, r, i, j)[q] = B[q][j] * A[i][q]
                            /\ B[q][j] \in Field /\ A[i][q] \in Field
                            /\ Terms(A, B, r, i, j)[q] \in Int
         /\ \A q \in 0..r : Total(Terms(A, B, r, i, j), q) \in Int
<1> DEFINE f == Terms(A, B, r, i, j)
<1>1. ASSUME NEW q \in 1..r
      PROVE  f[q] = B[q][j] * A[i][q] /\ B[q][j] \in Field /\ A[i][q] \in Field /\ f[q] \in Int
  <2>1. f[q] = B[q][j] * A[i][q]
    BY DEF Terms
  <2>2. B[q][j] \in Field /\ A[i][q] \in Field
    BY DEF Matrix
  <2>3. B[q][j] \in Int /\ A[i][q] \in Int
    BY <2>2, ModulusFacts
  <2> QED BY <2>1, <2>2, <2>3, FieldTimes
<1> HIDE DEF f
<1>2. \A q \in 0..r : Total(f, q) \in Int
  BY <1>1, TotalInt
<1> QED BY <1>1, <1>2 DEF f

LEMMA TransposeFacts ==
  ASSUME NEW n \in Nat, NEW m \in Nat, n >= 1, NEW A \in Matrix(n, m)
  PROVE  /\ Transpose(A) \in Matrix(m, n)
         /\ \A i \in 1..n, j \in 1..m : Transpose(A)[j][i] = A[i][j]
BY DEF Transpose, Matrix

LEMMA TimesEntry ==
  ASSUME NEW n \in Nat, NEW m \in Nat, NEW r \in Nat, r >= 1,
         NEW A \in Matrix(n, r), NEW B \in Matrix(r, m)
  PROVE  Times(A, B) = [i \in 1..n |-> [j \in 1..m |-> Total(Terms(A, B, r, i, j), r) % P]]
<1> DEFINE NT == Transpose(B)
<1>1. /\ NT \in Matrix(m, r)
      /\ \A q \in 1..r, j \in 1..m : NT[j][q] = B[q][j]
  BY TransposeFacts
<1>2. /\ DOMAIN NT = 1..m /\ DOMAIN A = 1..n
      /\ \A j \in 1..m : DOMAIN NT[j] = 1..r /\ Len(NT[j]) = r
  <2> HIDE DEF NT
  <2>1. \A j \in 1..m : NT[j] \in [1..r -> Field]
    BY <1>1 DEF Matrix
  <2> QED BY <1>1, <2>1, FunctionIsSeq DEF Matrix
<1>3. Times(A, B) = [i \in DOMAIN A |-> [j \in DOMAIN NT |-> Dot(NT[j], A[i])]]
  BY DEF Times, TimesVector
<1>4. ASSUME NEW i \in 1..n, NEW j \in 1..m
      PROVE  Dot(NT[j], A[i]) = Total(Terms(A, B, r, i, j), r) % P
  <2>1. [q \in DOMAIN NT[j] |-> NT[j][q] * A[i][q]] = Terms(A, B, r, i, j)
    <3> HIDE DEF NT
    <3> QED BY <1>1, <1>2 DEF Terms
  <2> HIDE DEF NT
  <2> QED BY <1>2, <2>1 DEF Dot
<1> HIDE DEF NT
<1> QED BY <1>2, <1>3, <1>4

LEMMA IdentityFacts ==
  ASSUME NEW n \in Nat
  PROVE  /\ Identity(n) \in Matrix(n, n)
         /\ \A i \in 1..n, j \in 1..n : Identity(n)[i][j] = IF i = j THEN 1 ELSE 0
BY ModulusFacts DEF Identity, Matrix

\* Where the swap of i and j gets its element k from.
Other(i, j, k) == IF k = i THEN j ELSE IF k = j THEN i ELSE k

LEMMA SwapFacts ==
  ASSUME NEW n \in Nat, NEW i \in 1..n, NEW j \in 1..n
  PROVE  /\ \A s : DOMAIN s = 1..n => Swap(s, i, j) = [k \in 1..n |-> s[Other(i, j, k)]]
         /\ \A k \in 1..n : Other(i, j, k) \in 1..n
<1>1. ASSUME NEW s, DOMAIN s = 1..n, s = [k \in 1..n |-> s[k]]
      PROVE  Swap(s, i, j) = [k \in 1..n |-> s[Other(i, j, k)]]
  BY <1>1 DEF Swap, Other
<1>2. \A k \in 1..n : Other(i, j, k) \in 1..n
  BY DEF Other
<1>3. ASSUME NEW s, DOMAIN s = 1..n
      PROVE  Swap(s, i, j) = [k \in 1..n |-> s[Other(i, j, k)]]
  BY <1>3 DEF Swap, Other
<1> QED BY <1>2, <1>3

LEMMA SwapFactorsFacts ==
  ASSUME NEW n \in Nat, NEW A \in Matrix(n, n), NEW i \in 1..n, NEW j \in 1..n
  PROVE  /\ SwapFactors(A, i, j) \in Matrix(n, n)
         /\ \A k, l \in 1..n : SwapFactors(A, i, j)[k][l] = A[Other(i, j, k)][Other(i, j, l)]
<1> DEFINE S == Swap(A, i, j)
<1>1. /\ DOMAIN A = 1..n
      /\ \A k \in 1..n : A[k] \in [1..n -> Field] /\ DOMAIN A[k] = 1..n
  BY DEF Matrix
<1>0. /\ \A s : DOMAIN s = 1..n => Swap(s, i, j) = [k \in 1..n |-> s[Other(i, j, k)]]
      /\ \A k \in 1..n : Other(i, j, k) \in 1..n
  BY SwapFacts
<1>2. S = [k \in 1..n |-> A[Other(i, j, k)]]
  BY <1>0, <1>1
<1>3. SwapFactors(A, i, j) = [k \in DOMAIN S |-> Swap(S[k], i, j)]
  BY DEF SwapFactors
<1> HIDE DEF S
<1>4. ASSUME NEW k \in 1..n
      PROVE  Swap(S[k], i, j) = [l \in 1..n |-> A[Other(i, j, k)][Other(i, j, l)]]
  <2>1. Other(i, j, k) \in 1..n /\ S[k] = A[Other(i, j, k)]
    BY <1>2, <1>0
  <2>2. DOMAIN S[k] = 1..n
    BY <1>1, <2>1
  <2>3. Swap(S[k], i, j) = [l \in 1..n |-> S[k][Other(i, j, l)]]
    BY <2>2, <1>0
  <2> QED BY <2>1, <2>3
<1>5. SwapFactors(A, i, j) = [k \in 1..n |-> [l \in 1..n |-> A[Other(i, j, k)][Other(i, j, l)]]]
  BY <1>2, <1>3, <1>4
<1>6. \A k, l \in 1..n : A[Other(i, j, k)][Other(i, j, l)] \in Field
  BY <1>1, <1>0
<1> QED BY <1>5, <1>6 DEF Matrix
-----------------------------------------------------------------------------
(* The elimination keeps the product. *)

\* With l pivots: the rows of A in the order of Q are L times the rows of U that
\* have a pivot, and what is left of the other rows.
FactoredBy(A, n, m, U, Q, L, l) ==
  /\ U \in Matrix(n, m) /\ Q \in Matrix(n, n) /\ L \in Matrix(n, n) /\ l \in 0..n
  /\ \A i, j \in 1..n : i < j \/ j > l => L[i][j] = IF i = j THEN 1 ELSE 0
  /\ \A i \in 1..n : L[i][i] = 1
  /\ \A i \in 1..n, j \in 1..m :
       Congruent(Total(Terms(Q, A, n, i, j), n),
                 Total(Terms(L, U, n, i, j), l) + (IF i > l THEN U[i][j] ELSE 0))

LEMMA FactoredInit ==
  ASSUME NEW n \in Nat, NEW m \in Nat, NEW A \in Matrix(n, m)
  PROVE  FactoredBy(A, n, m, A, Identity(n), Identity(n), 0)
<1> DEFINE E == Identity(n)
<1>1. E \in Matrix(n, n) /\ \A i \in 1..n, j \in 1..n : E[i][j] = IF i = j THEN 1 ELSE 0
  BY IdentityFacts
<1> HIDE DEF E
<1>2. ASSUME NEW i \in 1..n, NEW j \in 1..m
      PROVE  Congruent(Total(Terms(E, A, n, i, j), n),
                       Total(Terms(E, A, n, i, j), 0) + (IF i > 0 THEN A[i][j] ELSE 0))
  <2> DEFINE f == Terms(E, A, n, i, j)
  <2>1. \A q \in 1..n : /\ f[q] = A[q][j] * E[i][q]
                        /\ A[q][j] \in Field /\ E[i][q] \in Field /\ f[q] \in Int
    BY <1>1, TermsInt
  <2> HIDE DEF f
  <2>2. \A q \in 1..n : A[q][j] \in Int
    BY <2>1, ModulusFacts
  <2>3. \A q \in 1..n : q # i => f[q] = 0
    BY <1>1, <2>1, <2>2
  <2>4. f[i] = A[i][j]
    BY <1>1, <2>1, <2>2
  <2>5. Total(f, n) = Total(f, 0) + IF i > 0 THEN f[i] ELSE 0
    <3>1. 0 \in Nat /\ 0 <= n /\ i \in Nat /\ i <= n /\ \A q \in (0 + 1)..n : q # i => f[q] = 0
      BY <2>3
    <3>2. \A q \in 1..n : f[q] \in Int
      BY <2>1
    <3> QED BY <3>1, <3>2, TotalSingle
  <2>6. Total(f, n) = A[i][j] /\ Total(f, 0) + (IF i > 0 THEN A[i][j] ELSE 0) = A[i][j]
    BY <2>2, <2>4, <2>5, TotalStep
  <2>7. Congruent(A[i][j], A[i][j])
    BY <2>2, CongruentRefl
  <2>8. Congruent(Total(f, n), Total(f, 0) + (IF i > 0 THEN A[i][j] ELSE 0))
    BY <2>6, <2>7
  <2> QED BY <2>8 DEF f
<1>3. 0 \in 0..n
  OBVIOUS
<1> QED BY <1>1, <1>2, <1>3 DEF FactoredBy, E

LEMMA FactoredSwap ==
  ASSUME NEW n \in Nat, NEW m \in Nat, NEW A \in Matrix(n, m), NEW U, NEW Q, NEW L, NEW l,
         FactoredBy(A, n, m, U, Q, L, l), NEW a \in (l + 1)..n, NEW b \in (l + 1)..n
  PROVE  FactoredBy(A, n, m, Swap(U, a, b), Swap(Q, a, b), SwapFactors(L, a, b), l)
<1> DEFINE U1 == Swap(U, a, b)
           Q1 == Swap(Q, a, b)
           L1 == SwapFactors(L, a, b)
           o(i) == Other(a, b, i)
<1>1. /\ U \in Matrix(n, m) /\ Q \in Matrix(n, n) /\ L \in Matrix(n, n) /\ l \in 0..n
      /\ a \in 1..n /\ b \in 1..n
  BY DEF FactoredBy
<1>2. /\ \A s : DOMAIN s = 1..n => Swap(s, a, b) = [k \in 1..n |-> s[Other(a, b, k)]]
      /\ \A i \in 1..n : Other(a, b, i) \in 1..n
  BY <1>1, SwapFacts
<1>3. /\ \A i \in 1..n : o(i) \in 1..n /\ (i > l <=> o(i) > l) /\ (i <= l => o(i) = i)
      /\ \A i, j \in 1..n : o(i) = o(j) <=> i = j
  BY <1>1 DEF Other
<1>4. U1 = [i \in 1..n |-> U[o(i)]] /\ Q1 = [i \in 1..n |-> Q[o(i)]]
  <2>1. DOMAIN U = 1..n /\ DOMAIN Q = 1..n
    BY <1>1 DEF Matrix
  <2> QED BY <1>2, <2>1
<1>5. L1 \in Matrix(n, n) /\ \A i, j \in 1..n : L1[i][j] = L[o(i)][o(j)]
  BY <1>1, SwapFactorsFacts
<1> HIDE DEF U1, Q1, L1, o
<1>6. U1 \in Matrix(n, m) /\ Q1 \in Matrix(n, n)
  BY <1>1, <1>3, <1>4 DEF Matrix
<1>7. ASSUME NEW i \in 1..n, NEW j \in 1..n, i < j \/ j > l
      PROVE  L1[i][j] = IF i = j THEN 1 ELSE 0
  <2>1. o(i) < o(j) \/ o(j) > l
    BY <1>1, <1>3, <1>7
  <2>2. L[o(i)][o(j)] = IF o(i) = o(j) THEN 1 ELSE 0
    BY <1>3, <2>1 DEF FactoredBy
  <2> QED BY <1>3, <1>5, <2>2
<1>8. \A i \in 1..n : L1[i][i] = 1
  BY <1>3, <1>5 DEF FactoredBy
<1>9. ASSUME NEW i \in 1..n, NEW j \in 1..m
      PROVE  Congruent(Total(Terms(Q1, A, n, i, j), n),
                       Total(Terms(L1, U1, n, i, j), l) + (IF i > l THEN U1[i][j] ELSE 0))
  <2>1. Terms(Q1, A, n, i, j) = Terms(Q, A, n, o(i), j)
    BY <1>4 DEF Terms
  <2>2. Total(Terms(L1, U1, n, i, j), l) = Total(Terms(L, U, n, o(i), j), l)
    <3>1. \A q \in 1..l : q \in 1..n /\ o(q) = q
      BY <1>1, <1>3
    <3>2. \A q \in 1..l : U1[q][j] * L1[i][q] = U[q][j] * L[o(i)][q]
      BY <1>4, <1>5, <3>1
    <3>3. \A q \in 1..l : Terms(L1, U1, n, i, j)[q] = Terms(L, U, n, o(i), j)[q]
      BY <3>1, <3>2 DEF Terms
    <3>4. l \in Nat
      BY <1>1
    <3> QED BY <3>3, <3>4, TotalEqual
  <2>3. (IF i > l THEN U1[i][j] ELSE 0) = (IF o(i) > l THEN U[o(i)][j] ELSE 0)
    BY <1>3, <1>4
  <2>4. Congruent(Total(Terms(Q, A, n, o(i), j), n),
                  Total(Terms(L, U, n, o(i), j), l) + (IF o(i) > l THEN U[o(i)][j] ELSE 0))
    BY <1>3 DEF FactoredBy
  <2> QED BY <2>1, <2>2, <2>3, <2>4
<1>10. FactoredBy(A, n, m, U1, Q1, L1, l)
  BY <1>1, <1>5, <1>6, <1>7, <1>8, <1>9 DEF FactoredBy
<1> QED BY <1>10 DEF U1, Q1, L1

\* What ClearBelow makes of U and L when it takes row r times f[i] from row i.
Cleared(U, n, m, r, f) ==
  [i \in 1..n |-> [j \in 1..m |->
    IF i <= r THEN U[i][j] ELSE (U[i][j] + U[r][j] * Negative(f[i])) % P]]

WithFactors(L, n, r, f) ==
  [i \in 1..n |-> [j \in 1..n |-> IF i > r /\ j = r THEN f[i] ELSE L[i][j]]]

\* Row l + 1 clears the ones below it; what it is taken times goes into L.
LEMMA FactoredClear ==
  ASSUME NEW n \in Nat, NEW m \in Nat, NEW A \in Matrix(n, m), NEW U, NEW Q, NEW L, NEW l,
         FactoredBy(A, n, m, U, Q, L, l), l < n,
         NEW f, \A i \in 1..n : f[i] \in Field
  PROVE  FactoredBy(A, n, m, Cleared(U, n, m, l + 1, f), Q, WithFactors(L, n, l + 1, f), l + 1)
<1> DEFINE r  == l + 1
           U1 == Cleared(U, n, m, r, f)
           L1 == WithFactors(L, n, r, f)
<1>1. /\ U \in Matrix(n, m) /\ Q \in Matrix(n, n) /\ L \in Matrix(n, n) /\ l \in 0..n
      /\ r \in 1..n /\ l \in Nat
  BY DEF FactoredBy
<1>2. ASSUME NEW i \in 1..n, NEW j \in 1..m
      PROVE  /\ U[i][j] \in Field /\ U[r][j] \in Field
             /\ U[i][j] \in Int /\ U[r][j] \in Int
             /\ f[i] \in Field /\ f[i] \in Int
             /\ Negative(f[i]) \in Int /\ Congruent(Negative(f[i]), -f[i])
             /\ U[i][j] + U[r][j] * Negative(f[i]) \in Int
  <2>1. U[i][j] \in Field /\ U[r][j] \in Field /\ f[i] \in Field
    BY <1>1 DEF Matrix
  <2>2. U[i][j] \in Int /\ U[r][j] \in Int /\ f[i] \in Int
    BY <2>1, ModulusFacts
  <2>3. Negative(f[i]) \in Int /\ Congruent(Negative(f[i]), -f[i])
    BY <2>1, NegativeFacts, ModulusFacts
  <2>4. U[r][j] * Negative(f[i]) \in Int
    BY <2>2, <2>3, FieldTimes
  <2> QED BY <2>1, <2>2, <2>3, <2>4
<1>3. /\ \A i \in 1..n, j \in 1..m :
           /\ i <= r => U1[i][j] = U[i][j]
           /\ i > r => U1[i][j] = (U[i][j] + U[r][j] * Negative(f[i])) % P
      /\ \A i \in 1..n, j \in 1..n : L1[i][j] = IF i > r /\ j = r THEN f[i] ELSE L[i][j]
      /\ U1 = [i \in 1..n |-> [j \in 1..m |-> U1[i][j]]]
      /\ L1 = [i \in 1..n |-> [j \in 1..n |-> L1[i][j]]]
  BY <1>1 DEF Cleared, WithFactors
<1> HIDE DEF U1, L1
<1>4. U1 \in Matrix(n, m)
  <2>1. \A i \in 1..n, j \in 1..m : U1[i][j] \in Field
    <3> TAKE i \in 1..n, j \in 1..m
    <3>1. CASE i <= r
      BY <1>2, <1>3, <3>1
    <3>2. CASE i > r
      BY <1>2, <1>3, <3>2, ModInField
    <3> QED BY <1>1, <3>1, <3>2
  <2> QED BY <1>3, <2>1 DEF Matrix
<1>5. L1 \in Matrix(n, n)
  <2>1. \A i \in 1..n, j \in 1..n : L1[i][j] \in Field
    BY <1>1, <1>3 DEF Matrix
  <2> QED BY <1>3, <2>1 DEF Matrix
<1> HIDE DEF r
<1>6. r = l + 1
  BY DEF r
<1>7. ASSUME NEW i \in 1..n, NEW j \in 1..n, i < j \/ j > r
      PROVE  L1[i][j] = IF i = j THEN 1 ELSE 0
  BY <1>1, <1>3, <1>6, <1>7 DEF FactoredBy
<1>8. \A i \in 1..n : L1[i][i] = 1
  <2>1. \A i \in 1..n : L1[i][i] = L[i][i]
    BY <1>1, <1>3
  <2> QED BY <2>1 DEF FactoredBy
<1>9. ASSUME NEW i \in 1..n, NEW j \in 1..m
      PROVE  Congruent(Total(Terms(Q, A, n, i, j), n),
                       Total(Terms(L1, U1, n, i, j), r) + (IF i > r THEN U1[i][j] ELSE 0))
  <2> DEFINE T0 == Terms(L, U, n, i, j)
             T1 == Terms(L1, U1, n, i, j)
             rest == IF i > l THEN U[i][j] ELSE 0
             last == U1[r][j] * L1[i][r]
             more == IF i > r THEN U1[i][j] ELSE 0
  <2>1. \A q \in 1..l : q \in 1..n /\ q # r /\ q <= r
    BY <1>1, <1>6
  <2>2. Total(T1, l) = Total(T0, l)
    <3>1. \A q \in 1..l : U1[q][j] * L1[i][q] = U[q][j] * L[i][q]
      BY <1>3, <2>1
    <3>2. \A q \in 1..l : T1[q] = T0[q]
      BY <2>1, <3>1 DEF Terms
    <3> QED BY <1>1, <3>2, TotalEqual
  <2>3. Total(T1, r) = Total(T0, l) + last
    <3>1. T1[r] = last
      BY <1>1 DEF Terms
    <3>2. Total(T1, r) = Total(T1, l) + T1[r]
      BY <1>1, <1>6, TotalStep
    <3> QED BY <2>2, <3>1, <3>2
  <2>4. Total(T0, l) \in Int
    <3>1. \A q \in 0..n : Total(T0, q) \in Int
      BY <1>1, TermsInt
    <3> QED BY <1>1, <3>1
  <2>5. Total(Terms(Q, A, n, i, j), n) \in Int
    BY <1>1, TermsInt
  <2>6. Congruent(Total(Terms(Q, A, n, i, j), n), Total(T0, l) + rest)
    BY DEF FactoredBy
  <2>7. U1[r][j] = U[r][j] /\ U1[i][j] \in Field /\ L1[i][r] \in Field
    BY <1>1, <1>3, <1>4, <1>5, <1>6 DEF Matrix
  <2>8. rest \in Int /\ last \in Int /\ more \in Int
    <3>1. rest \in Int
      BY <1>2
    <3>2. U1[r][j] \in Int /\ L1[i][r] \in Int /\ U1[i][j] \in Int
      BY <1>2, <2>7, ModulusFacts
    <3>3. last \in Int
      BY <3>2, FieldTimes
    <3> QED BY <3>1, <3>2, <3>3
  <2>9. Congruent(rest, last + more)
    <3>1. CASE i <= l
      <4>1. rest = 0 /\ more = 0 /\ L1[i][r] = 0 /\ U[r][j] \in Int
        BY <1>1, <1>2, <1>6, <1>7, <3>1
      <4>2. last + more = 0
        BY <2>7, <4>1
      <4> QED BY <4>1, <4>2, CongruentRefl
    <3>2. CASE i = r
      <4>1. rest = U[r][j] /\ more = 0 /\ L1[i][r] = 1 /\ U[r][j] \in Int
        BY <1>1, <1>2, <1>6, <1>8, <3>2
      <4>2. last + more = rest
        BY <2>7, <4>1
      <4> QED BY <4>1, <4>2, CongruentRefl
    <3>3. CASE i > r
      <4> DEFINE u == U[r][j]
                 g == Negative(f[i])
                 x == U[i][j]
      <4>1. rest = x /\ more = (x + u * g) % P /\ L1[i][r] = f[i]
        BY <1>1, <1>3, <1>6, <3>3
      <4>2. u \in Int /\ x \in Int /\ f[i] \in Int /\ g \in Int /\ Congruent(g, -f[i])
            /\ x + u * g \in Int
        BY <1>2
      <4>3. last = u * f[i] /\ u * f[i] \in Int /\ u * g \in Int /\ u * (-f[i]) \in Int
            /\ -f[i] \in Int
        <5>1. -f[i] \in Int
          BY <4>2
        <5> HIDE DEF u, g, x
        <5> QED BY <2>7, <4>1, <4>2, <5>1, FieldTimes DEF u
      <4> HIDE DEF u, g, x
      <4>4. Congruent(u * g, u * (-f[i]))
        BY <4>2, <4>3, CongruentTimes
      <4>5. Congruent(more, x + u * g) /\ more \in Int
        BY <4>1, <4>2, <2>8, ModInField
      <4>6. Congruent(x + u * g, x + u * (-f[i]))
        BY <4>2, <4>3, <4>4, CongruentRefl, CongruentAdd
      <4>7. Congruent(more, x + u * (-f[i])) /\ x + u * (-f[i]) \in Int
        <5> DEFINE v == x + u * (-f[i])
                   w == x + u * g
        <5>1. v \in Int
          BY <4>2, <4>3
        <5>2. w \in Int /\ Congruent(more, w) /\ Congruent(w, v) /\ more \in Int
          BY <4>2, <4>5, <4>6
        <5> HIDE DEF v, w
        <5>3. Congruent(more, v)
          BY <5>1, <5>2, CongruentTrans
        <5> QED BY <5>1, <5>3 DEF v
      <4>8. Congruent(last + more, last + (x + u * (-f[i])))
        BY <2>8, <4>5, <4>7, CongruentRefl, CongruentAdd
      <4>9. last + (x + u * (-f[i])) = x
        <5>1. u * (-f[i]) = -(u * f[i])
          BY <4>2
        <5> QED BY <4>2, <4>3, <5>1
      <4>10. Congruent(last + more, rest)
        BY <4>1, <4>8, <4>9
      <4>11. last + more \in Int
        BY <2>8
      <4> QED BY <2>8, <4>10, <4>11, CongruentSym
    <3> QED BY <1>1, <1>6, <3>1, <3>2, <3>3
  <2> HIDE DEF T0, T1, rest, last, more
  <2>10. Congruent(Total(T0, l) + rest, Total(T0, l) + (last + more))
    <3>1. last + more \in Int
      BY <2>8
    <3> QED BY <2>4, <2>8, <2>9, <3>1, CongruentRefl, CongruentAdd
  <2>11. Total(T1, r) + more = Total(T0, l) + (last + more)
    BY <2>3, <2>4, <2>8
  <2>12. Congruent(Total(Terms(Q, A, n, i, j), n), Total(T1, r) + more)
    <3>1. Total(T0, l) + rest \in Int /\ Total(T0, l) + (last + more) \in Int
      BY <2>4, <2>8
    <3> QED BY <2>5, <2>6, <2>10, <2>11, <3>1, CongruentTrans
  <2> QED BY <2>12 DEF T1, more
<1>10. r \in 0..n
  BY <1>1
<1>11. FactoredBy(A, n, m, U1, Q, L1, r)
  BY <1>1, <1>4, <1>5, <1>7, <1>8, <1>9, <1>10 DEF FactoredBy
<1> QED BY <1>11 DEF r, U1, L1

\* The states of an elimination of an n by m matrix.
ElimStates(n, m) ==
  [M : Matrix(n, m), Perm : Matrix(n, n), L : Matrix(n, n), pivots : Seq(1..m)]

\* What ClearBelow takes row r times from the others.
Factors(U, n, r, k) == [i \in 1..n |-> (U[i][k] * InvMod(U[r][k])) % P]

LEMMA MatrixRows ==
  ASSUME NEW n \in Nat, NEW m \in Nat, NEW A \in Matrix(n, m)
  PROVE  /\ DOMAIN A = 1..n /\ Len(A) = n
         /\ \A i \in 1..n : DOMAIN A[i] = 1..m /\ A[i] = [j \in 1..m |-> A[i][j]]
         /\ \A i \in 1..n, j \in 1..m : A[i][j] \in Field /\ A[i][j] \in Int
<1>1. /\ DOMAIN A = 1..n
      /\ \A i \in 1..n : DOMAIN A[i] = 1..m /\ A[i] = [j \in 1..m |-> A[i][j]]
      /\ \A i \in 1..n, j \in 1..m : A[i][j] \in Field
  BY DEF Matrix
<1>2. Len(A) = n
  BY DEF Matrix
<1> QED BY <1>1, <1>2, ModulusFacts

LEMMA FactorsInField ==
  ASSUME NEW n \in Nat, NEW m \in Nat, NEW U \in Matrix(n, m), NEW r \in 1..n, NEW k \in 1..m,
         U[r][k] # 0
  PROVE  /\ InvMod(U[r][k]) \in Field /\ InvMod(U[r][k]) \in Int
         /\ \A i \in 1..n : /\ Factors(U, n, r, k)[i] = (U[i][k] * InvMod(U[r][k])) % P
                            /\ Factors(U, n, r, k)[i] \in Field
<1>1. \A i \in 1..n : U[i][k] \in Field /\ U[i][k] \in Int
  BY MatrixRows
<1>2. InvMod(U[r][k]) \in Field
  BY <1>1, InverseFacts
<1> DEFINE v == InvMod(U[r][k])
<1>3. v \in Int
  BY <1>2, ModulusFacts
<1> HIDE DEF v
<1>4. \A i \in 1..n : (U[i][k] * v) % P \in Field
  BY <1>1, <1>3, FieldTimes, ModInField
<1>5. Factors(U, n, r, k) = [i \in 1..n |-> (U[i][k] * v) % P]
  BY DEF Factors, v
<1> QED BY <1>2, <1>3, <1>4, <1>5 DEF v

\* One column of the elimination.
LEMMA EliminateFacts ==
  ASSUME NEW n \in Nat, NEW m \in Nat, NEW s \in ElimStates(n, m), NEW k \in 1..m
  PROVE  LET row == Len(s.pivots) + 1
             t   == EliminateColumn(s, k)
         IN  \/ /\ \A i \in row..n : s.M[i][k] = 0
                /\ t = s
             \/ \E pos \in row..n :
                  /\ s.M[pos][k] # 0
                  /\ \A i \in row..n : s.M[i][k] # 0 => pos <= i
                  /\ t.M = Cleared(Swap(s.M, pos, row), n, m, row,
                                   Factors(Swap(s.M, pos, row), n, row, k))
                  /\ t.L = WithFactors(SwapFactors(s.L, pos, row), n, row,
                                       Factors(Swap(s.M, pos, row), n, row, k))
                  /\ t.Perm = Swap(s.Perm, pos, row)
                  /\ t.pivots = Append(s.pivots, k)
                  /\ t = [M |-> t.M, Perm |-> t.Perm, L |-> t.L, pivots |-> t.pivots]
<1> DEFINE row  == Len(s.pivots) + 1
           t    == EliminateColumn(s, k)
           cand == {i \in row..Len(s.M) : s.M[i][k] # 0}
           pos  == Min(cand)
<1>1. /\ s.M \in Matrix(n, m) /\ s.Perm \in Matrix(n, n) /\ s.L \in Matrix(n, n)
      /\ s.pivots \in Seq(1..m) /\ row \in Nat /\ row >= 1 /\ Len(s.M) = n
      /\ s = [M |-> s.M, Perm |-> s.Perm, L |-> s.L, pivots |-> s.pivots]
  <2>1. /\ s.M \in Matrix(n, m) /\ s.Perm \in Matrix(n, n) /\ s.L \in Matrix(n, n)
        /\ s.pivots \in Seq(1..m)
        /\ s = [M |-> s.M, Perm |-> s.Perm, L |-> s.L, pivots |-> s.pivots]
    BY DEF ElimStates
  <2>2. row \in Nat /\ row >= 1
    BY <2>1
  <2>3. Len(s.M) = n
    BY <2>1, MatrixRows
  <2> QED BY <2>1, <2>2, <2>3
<1>2. CASE cand = {}
  <2>1. t = s
    BY <1>2 DEF EliminateColumn
  <2>2. \A i \in row..n : s.M[i][k] = 0
    BY <1>1, <1>2
  <2> QED BY <2>1, <2>2
<1>3. CASE cand # {}
  <2>1. pos \in cand /\ \A i \in cand : pos <= i
    <3>1. cand \in SUBSET Nat
      BY <1>1
    <3>2. \E p \in cand : \A i \in cand : p <= i
      <4> HIDE DEF cand
      <4> QED BY <1>3, <3>1, LeastNatural
    <3> QED BY <3>2 DEF Min
  <2>2. pos \in row..n /\ s.M[pos][k] # 0 /\ pos \in 1..n /\ row \in 1..n
        /\ \A i \in row..n : s.M[i][k] # 0 => pos <= i
    <3> HIDE DEF pos
    <3> QED BY <1>1, <2>1
  <2> DEFINE M1 == Swap(s.M, pos, row)
             L1 == SwapFactors(s.L, pos, row)
             f  == Factors(M1, n, row, k)
             s1 == [s EXCEPT !.M = M1, !.Perm = Swap(s.Perm, pos, row), !.L = L1]
  <2>3. t = ClearBelow(s1, row, k)
    BY <1>3 DEF EliminateColumn
  <2>4. s1 = [M |-> M1, Perm |-> Swap(s.Perm, pos, row), L |-> L1, pivots |-> s.pivots]
    <3> DEFINE Q1 == Swap(s.Perm, pos, row)
               s2 == [s EXCEPT !.M = M1]
               s3 == [s2 EXCEPT !.Perm = Q1]
               u  == s.M
               v  == s.Perm
               w  == s.L
               z  == s.pivots
    <3>1. s = [M |-> u, Perm |-> v, L |-> w, pivots |-> z]
      BY <1>1
    <3> HIDE DEF M1, L1, row, pos, Q1, u, v, w, z
    <3>2. s2 = [M |-> M1, Perm |-> v, L |-> w, pivots |-> z]
      BY <3>1
    <3> HIDE DEF s2
    <3>3. s3 = [M |-> M1, Perm |-> Q1, L |-> w, pivots |-> z]
      BY <3>2
    <3> HIDE DEF s3
    <3>4. [s3 EXCEPT !.L = L1] = [M |-> M1, Perm |-> Q1, L |-> L1, pivots |-> z]
      BY <3>3
    <3> QED BY <3>4 DEF s2, s3, Q1, z
  <2>5. M1 \in Matrix(n, m) /\ M1[row] = s.M[pos]
    <3>1. /\ \A z : DOMAIN z = 1..n => Swap(z, pos, row) = [q \in 1..n |-> z[Other(pos, row, q)]]
          /\ \A q \in 1..n : Other(pos, row, q) \in 1..n
      <4> HIDE DEF pos, row
      <4> QED BY <2>2, SwapFacts
    <3> HIDE DEF pos, row
    <3>2. DOMAIN s.M = 1..n
      BY <1>1, MatrixRows
    <3>3. M1 = [q \in 1..n |-> s.M[Other(pos, row, q)]]
      BY <3>1, <3>2
    <3>4. M1 \in Matrix(n, m)
      BY <1>1, <3>1, <3>3 DEF Matrix
    <3>5. Other(pos, row, row) = pos
      BY DEF Other
    <3> QED BY <2>2, <3>3, <3>4, <3>5
  <2>6. L1 \in Matrix(n, n)
    <3> HIDE DEF pos, row
    <3> QED BY <1>1, <2>2, SwapFactorsFacts
  <2> DEFINE g(i) == (s1.M[i][k] * InvMod(s1.M[row][k])) % P
             M2 == [i \in DOMAIN s1.M |->
                     IF i <= row THEN s1.M[i]
                     ELSE [j \in DOMAIN s1.M[i] |->
                            (s1.M[i][j] + s1.M[row][j] * Negative(g(i))) % P]]
             L2 == [i \in DOMAIN s1.L |->
                     IF i <= row THEN s1.L[i] ELSE [s1.L[i] EXCEPT ![row] = g(i)]]
  <2>7. t = [s1 EXCEPT !.M = M2, !.L = L2, !.pivots = Append(s1.pivots, k)]
    <3> HIDE DEF s1, row, pos, t
    <3> QED BY <2>3 DEF ClearBelow
  <2>8. t = [M |-> M2, Perm |-> Swap(s.Perm, pos, row), L |-> L2, pivots |-> Append(s.pivots, k)]
    <3> HIDE DEF M1, L1, M2, L2, row, pos, s1, t
    <3> QED BY <2>4, <2>7
  <2> HIDE DEF t
  <2>9. s1.M = M1 /\ s1.L = L1
    <3> HIDE DEF M1, L1, row, pos, s1
    <3> QED BY <2>4
  <2> HIDE DEF s1
  <2>10. \A i \in 1..n : g(i) = f[i]
    <3> HIDE DEF M1, row
    <3> QED BY <2>9 DEF Factors
  <2>11. M2 = Cleared(M1, n, m, row, f)
    <3>1. /\ DOMAIN M1 = 1..n
          /\ \A i \in 1..n : DOMAIN M1[i] = 1..m /\ M1[i] = [j \in 1..m |-> M1[i][j]]
      <4> HIDE DEF M1
      <4> QED BY <2>5, MatrixRows
    <3> DEFINE row1(i) == IF i <= row THEN M1[i]
                          ELSE [j \in 1..m |-> (M1[i][j] + M1[row][j] * Negative(f[i])) % P]
    <3>2. M2 = [i \in 1..n |-> row1(i)]
      <4> HIDE DEF M1, row, f, g
      <4> QED BY <2>9, <2>10, <3>1
    <3>3. \A i \in 1..n :
            row1(i) = [j \in 1..m |-> IF i <= row THEN M1[i][j]
                                      ELSE (M1[i][j] + M1[row][j] * Negative(f[i])) % P]
      <4> HIDE DEF M1, row, f
      <4> QED BY <3>1
    <3> HIDE DEF M1, row, f, M2, row1
    <3> QED BY <3>2, <3>3 DEF Cleared
  <2>12. L2 = WithFactors(L1, n, row, f)
    <3>1. /\ DOMAIN L1 = 1..n
          /\ \A i \in 1..n : DOMAIN L1[i] = 1..n /\ L1[i] = [j \in 1..n |-> L1[i][j]]
      <4> HIDE DEF L1
      <4> QED BY <2>6, MatrixRows
    <3> DEFINE row1(i) == IF i <= row THEN L1[i] ELSE [L1[i] EXCEPT ![row] = f[i]]
    <3>2. L2 = [i \in 1..n |-> row1(i)]
      <4> HIDE DEF L1, row, f, g
      <4> QED BY <2>9, <2>10, <3>1
    <3>3. row \in Nat
      BY <1>1
    <3>4. \A i \in 1..n :
            row1(i) = [j \in 1..n |-> IF i > row /\ j = row THEN f[i] ELSE L1[i][j]]
      <4> HIDE DEF L1, row, f
      <4> QED BY <3>1, <3>3
    <3> HIDE DEF L1, row, f, L2, row1
    <3> QED BY <3>2, <3>4 DEF WithFactors
  <2> HIDE DEF M2, L2
  <2>13. /\ t.M = Cleared(M1, n, m, row, f)
         /\ t.L = WithFactors(L1, n, row, f)
         /\ t.Perm = Swap(s.Perm, pos, row)
         /\ t.pivots = Append(s.pivots, k)
         /\ t = [M |-> t.M, Perm |-> t.Perm, L |-> t.L, pivots |-> t.pivots]
    <3> HIDE DEF M1, L1, row, f, pos
    <3> QED BY <2>8, <2>11, <2>12
  <2> HIDE DEF pos, cand
  <2> QED BY <2>2, <2>13 DEF t
<1> QED BY <1>2, <1>3
\* A column keeps the product.
LEMMA FactoredStep ==
  ASSUME NEW n \in Nat, NEW m \in Nat, NEW A \in Matrix(n, m),
         NEW s \in ElimStates(n, m), NEW k \in 1..m,
         FactoredBy(A, n, m, s.M, s.Perm, s.L, Len(s.pivots)),
         NEW t, t = EliminateColumn(s, k)
  PROVE  /\ t \in ElimStates(n, m)
         /\ FactoredBy(A, n, m, t.M, t.Perm, t.L, Len(t.pivots))
<1> DEFINE l   == Len(s.pivots)
           row == Len(s.pivots) + 1
<1>1. /\ s.M \in Matrix(n, m) /\ s.Perm \in Matrix(n, n) /\ s.L \in Matrix(n, n)
      /\ s.pivots \in Seq(1..m) /\ l \in Nat /\ l <= n
  BY DEF ElimStates, FactoredBy
<1>2. CASE t = s
  BY <1>2
<1>3. ASSUME NEW pos \in row..n,
             s.M[pos][k] # 0,
             t.M = Cleared(Swap(s.M, pos, row), n, m, row, Factors(Swap(s.M, pos, row), n, row, k)),
             t.L = WithFactors(SwapFactors(s.L, pos, row), n, row,
                               Factors(Swap(s.M, pos, row), n, row, k)),
             t.Perm = Swap(s.Perm, pos, row),
             t.pivots = Append(s.pivots, k),
             t = [M |-> t.M, Perm |-> t.Perm, L |-> t.L, pivots |-> t.pivots]
      PROVE  /\ t \in ElimStates(n, m)
             /\ FactoredBy(A, n, m, t.M, t.Perm, t.L, Len(t.pivots))
  <2> DEFINE U1 == Swap(s.M, pos, row)
             Q1 == Swap(s.Perm, pos, row)
             L1 == SwapFactors(s.L, pos, row)
             f  == Factors(U1, n, row, k)
  <2>1. pos \in (l + 1)..n /\ row \in (l + 1)..n /\ row \in 1..n /\ pos \in 1..n /\ l < n /\ l + 1 = row
    BY <1>1
  <2>2. FactoredBy(A, n, m, s.M, s.Perm, s.L, l)
    OBVIOUS
  <2> HIDE DEF l
  <2>3. FactoredBy(A, n, m, U1, Q1, L1, l)
    <3> HIDE DEF row
    <3> QED BY <2>1, <2>2, FactoredSwap
  <2>4. U1[row] = s.M[pos]
    <3>1. DOMAIN s.M = 1..n
      BY <1>1, MatrixRows
    <3> HIDE DEF row
    <3>2. Swap(s.M, pos, row) = [q \in 1..n |-> s.M[Other(pos, row, q)]]
      <4>1. \A z : DOMAIN z = 1..n => Swap(z, pos, row) = [q \in 1..n |-> z[Other(pos, row, q)]]
        BY <2>1, SwapFacts
      <4> QED BY <3>1, <4>1
    <3>3. Other(pos, row, row) = pos
      BY DEF Other
    <3> QED BY <2>1, <3>2, <3>3
  <2>5. U1 \in Matrix(n, m) /\ Q1 \in Matrix(n, n) /\ L1 \in Matrix(n, n)
    BY <2>3 DEF FactoredBy
  <2>6. \A i \in 1..n : f[i] \in Field
    <3> HIDE DEF U1, row
    <3> QED BY <1>3, <2>1, <2>4, <2>5, FactorsInField
  <2>7. FactoredBy(A, n, m, Cleared(U1, n, m, row, f), Q1, WithFactors(L1, n, row, f), row)
    <3> HIDE DEF U1, Q1, L1, f, row
    <3> QED BY <2>1, <2>3, <2>6, FactoredClear
  <2>8. t.pivots \in Seq(1..m) /\ Len(t.pivots) = row
    BY <1>1, <1>3
  <2>9. FactoredBy(A, n, m, t.M, t.Perm, t.L, Len(t.pivots))
    <3> HIDE DEF row
    <3> QED BY <1>3, <2>7, <2>8
  <2>10. t \in ElimStates(n, m)
    <3>1. t.M \in Matrix(n, m) /\ t.Perm \in Matrix(n, n) /\ t.L \in Matrix(n, n)
      BY <2>9 DEF FactoredBy
    <3> QED BY <1>3, <2>8, <3>1 DEF ElimStates
  <2> QED BY <2>9, <2>10
<1>4. \/ t = s
      \/ \E pos \in row..n :
           /\ s.M[pos][k] # 0
           /\ t.M = Cleared(Swap(s.M, pos, row), n, m, row, Factors(Swap(s.M, pos, row), n, row, k))
           /\ t.L = WithFactors(SwapFactors(s.L, pos, row), n, row,
                                Factors(Swap(s.M, pos, row), n, row, k))
           /\ t.Perm = Swap(s.Perm, pos, row)
           /\ t.pivots = Append(s.pivots, k)
           /\ t = [M |-> t.M, Perm |-> t.Perm, L |-> t.L, pivots |-> t.pivots]
  BY EliminateFacts
<1> HIDE DEF row
<1> QED BY <1>2, <1>3, <1>4

-----------------------------------------------------------------------------
(* Factoring. *)

\* The function of the columns that PLU is read from.
IsElimination(A, m, s) ==
  s = [k \in 0..m |->
        IF k = 0
        THEN [M |-> A, Perm |-> Identity(Len(A)), L |-> Identity(Len(A)), pivots |-> << >>]
        ELSE EliminateColumn(s[k - 1], k)]

LEMMA EliminationExists ==
  ASSUME NEW A
  PROVE  \A m \in Nat : \E s : IsElimination(A, m, s)
<1> DEFINE first == [M |-> A, Perm |-> Identity(Len(A)), L |-> Identity(Len(A)), pivots |-> << >>]
           S == {m \in Nat : \E s : IsElimination(A, m, s)}
<1>1. 0 \in S
  <2> DEFINE t == [k \in 0..0 |-> first]
  <2> HIDE DEF first
  <2>1. t = [k \in 0..0 |-> IF k = 0 THEN first ELSE EliminateColumn(t[k - 1], k)]
    OBVIOUS
  <2>2. IsElimination(A, 0, t)
    BY <2>1 DEF IsElimination, first
  <2> QED BY <2>2
<1>2. ASSUME NEW m \in Nat, m \in S PROVE m + 1 \in S
  <2>1. PICK s : IsElimination(A, m, s)
    BY <1>2
  <2> DEFINE t == [k \in 0..(m + 1) |-> IF k = m + 1 THEN EliminateColumn(s[m], k) ELSE s[k]]
  <2>2. s = [k \in 0..m |-> IF k = 0 THEN first ELSE EliminateColumn(s[k - 1], k)]
    BY <2>1 DEF IsElimination
  <2> HIDE DEF first
  <2>3. ASSUME NEW k \in 0..(m + 1)
        PROVE  t[k] = IF k = 0 THEN first ELSE EliminateColumn(t[k - 1], k)
    <3>1. CASE k = m + 1
      <4>1. t[k] = EliminateColumn(s[m], k) /\ t[k - 1] = s[m]
        BY <3>1
      <4> HIDE DEF t
      <4> QED BY <3>1, <4>1
    <3>2. CASE k = 0
      BY <2>2, <3>2
    <3>3. CASE k # m + 1 /\ k # 0
      <4>1. t[k] = s[k] /\ t[k - 1] = s[k - 1] /\ k \in 0..m
        BY <3>3
      <4> HIDE DEF t
      <4> QED BY <2>2, <3>3, <4>1
    <3> QED BY <3>1, <3>2, <3>3
  <2>4. t = [k \in 0..(m + 1) |-> IF k = 0 THEN first ELSE EliminateColumn(t[k - 1], k)]
    BY <2>3
  <2>5. IsElimination(A, m + 1, t)
    BY <2>4 DEF IsElimination, first
  <2> QED BY <2>5
<1> HIDE DEF S
<1>3. \A m \in Nat : m \in S
  BY <1>1, <1>2, InductionOnNat
<1> QED BY <1>3 DEF S

LEMMA EliminationStates ==
  ASSUME NEW n \in Nat, NEW m \in Nat, NEW A \in Matrix(n, m), NEW s, IsElimination(A, m, s)
  PROVE  \A k \in 0..m : /\ s[k] \in ElimStates(n, m)
                         /\ FactoredBy(A, n, m, s[k].M, s[k].Perm, s[k].L, Len(s[k].pivots))
<1> DEFINE Good(k) == /\ s[k] \in ElimStates(n, m)
                      /\ FactoredBy(A, n, m, s[k].M, s[k].Perm, s[k].L, Len(s[k].pivots))
           S == {k \in Nat : k \in 0..m => Good(k)}
<1>0. Len(A) = n
  BY MatrixRows
<1>1. 0 \in S
  <2>1. s[0] = [M |-> A, Perm |-> Identity(n), L |-> Identity(n), pivots |-> << >>]
    BY <1>0 DEF IsElimination
  <2>2. FactoredBy(A, n, m, A, Identity(n), Identity(n), 0)
    BY FactoredInit
  <2>3. Len(<< >>) = 0 /\ << >> \in Seq(1..m)
    OBVIOUS
  <2>4. s[0].M = A /\ s[0].Perm = Identity(n) /\ s[0].L = Identity(n) /\ s[0].pivots = << >>
    BY <2>1
  <2>5. s[0] \in ElimStates(n, m)
    BY <2>1, <2>3, IdentityFacts DEF ElimStates
  <2> QED BY <2>2, <2>3, <2>4, <2>5
<1>2. ASSUME NEW k \in Nat, k \in S PROVE k + 1 \in S
  <2> SUFFICES ASSUME k + 1 \in 0..m PROVE Good(k + 1)
    OBVIOUS
  <2>1. Good(k)
    BY <1>2
  <2>2. s[k + 1] = EliminateColumn(s[k], k + 1) /\ k + 1 \in 1..m
    BY DEF IsElimination
  <2> DEFINE a == s[k]
             b == s[k + 1]
             c == k + 1
  <2>3. /\ a \in ElimStates(n, m) /\ FactoredBy(A, n, m, a.M, a.Perm, a.L, Len(a.pivots))
        /\ b = EliminateColumn(a, c) /\ c \in 1..m
    BY <2>1, <2>2
  <2> HIDE DEF a, b, c
  <2>4. b \in ElimStates(n, m) /\ FactoredBy(A, n, m, b.M, b.Perm, b.L, Len(b.pivots))
    BY <2>3, FactoredStep
  <2> QED BY <2>4 DEF b, c
<1> HIDE DEF S
<1>3. \A k \in Nat : k \in S
  BY <1>1, <1>2, InductionOnNat
<1> QED BY <1>3 DEF S

LEMMA PLUIsElimination ==
  ASSUME NEW n \in Nat, NEW m \in Nat, n >= 1, NEW A \in Matrix(n, m)
  PROVE  \E s : IsElimination(A, m, s) /\ PLU(A) = s[m]
<1>1. Len(A[1]) = m
  BY FunctionIsSeq DEF Matrix
<1> DEFINE s == CHOOSE t : IsElimination(A, m, t)
<1>2. IsElimination(A, m, s)
  <2>1. \E t : IsElimination(A, m, t)
    BY EliminationExists
  <2> QED BY <2>1
<1>3. PLU(A) = s[m]
  BY <1>1 DEF PLU, IsElimination
<1> HIDE DEF s
<1> QED BY <1>2, <1>3

\* PLU gives the factors of the product, for every matrix.
LEMMA PLUFacts ==
  ASSUME NEW n \in Nat, NEW m \in Nat, n >= 1, NEW A \in Matrix(n, m)
  PROVE  /\ PLU(A) \in ElimStates(n, m)
         /\ FactoredBy(A, n, m, PLU(A).M, PLU(A).Perm, PLU(A).L, Len(PLU(A).pivots))
<1>1. PICK s : IsElimination(A, m, s) /\ PLU(A) = s[m]
  BY PLUIsElimination
<1>2. m \in 0..m
  OBVIOUS
<1>3. /\ s[m] \in ElimStates(n, m)
      /\ FactoredBy(A, n, m, s[m].M, s[m].Perm, s[m].L, Len(s[m].pivots))
  BY <1>1, <1>2, EliminationStates
<1> QED BY <1>1, <1>3

\* With the rows that have no pivot added, the sum is that of the product.
LEMMA FactoredProduct ==
  ASSUME NEW n \in Nat, NEW m \in Nat, NEW A \in Matrix(n, m), NEW U, NEW Q, NEW L, NEW l,
         FactoredBy(A, n, m, U, Q, L, l)
  PROVE  \A i \in 1..n, j \in 1..m :
           Congruent(Total(Terms(Q, A, n, i, j), n), Total(Terms(L, U, n, i, j), n))
<1> SUFFICES ASSUME NEW i \in 1..n, NEW j \in 1..m
             PROVE  Congruent(Total(Terms(Q, A, n, i, j), n), Total(Terms(L, U, n, i, j), n))
  OBVIOUS
<1> DEFINE f == Terms(L, U, n, i, j)
<1>1. U \in Matrix(n, m) /\ L \in Matrix(n, n) /\ l \in Nat /\ l <= n
  BY DEF FactoredBy
<1>2. \A q \in 1..n : /\ f[q] = U[q][j] * L[i][q]
                      /\ U[q][j] \in Field /\ L[i][q] \in Field /\ f[q] \in Int
  BY <1>1, TermsInt
<1> HIDE DEF f
<1>3. \A q \in 1..n : U[q][j] \in Int
  BY <1>2, ModulusFacts
<1>4. \A q \in (l + 1)..n : L[i][q] = IF i = q THEN 1 ELSE 0
  BY <1>1 DEF FactoredBy
<1>5. \A q \in (l + 1)..n : q # i => f[q] = 0
  BY <1>1, <1>2, <1>3, <1>4
<1>6. i > l => f[i] = U[i][j]
  BY <1>1, <1>2, <1>3, <1>4
<1>7. Total(f, n) = Total(f, l) + IF i > l THEN f[i] ELSE 0
  <2>1. i \in Nat /\ i <= n
    OBVIOUS
  <2> QED BY <1>1, <1>2, <1>5, <2>1, TotalSingle
<1>8. Total(f, n) = Total(f, l) + IF i > l THEN U[i][j] ELSE 0
  BY <1>6, <1>7
<1>9. Congruent(Total(Terms(Q, A, n, i, j), n), Total(f, l) + IF i > l THEN U[i][j] ELSE 0)
  BY DEF FactoredBy, f
<1> QED BY <1>8, <1>9 DEF f
-----------------------------------------------------------------------------
(* The numbers of a set in their order. *)

Longer(S, a, i) == IF i \in S THEN Append(a, i) ELSE a

IsAscending(S, n, s) == s = [i \in 0..n |-> IF i = 0 THEN << >> ELSE Longer(S, s[i - 1], i)]

LEMMA AscendingExists ==
  ASSUME NEW S
  PROVE  \A n \in Nat : \E s : IsAscending(S, n, s)
<1> DEFINE T == {m \in Nat : \E s : IsAscending(S, m, s)}
<1>1. 0 \in T
  <2> DEFINE t == [i \in 0..0 |-> << >>]
  <2>1. IsAscending(S, 0, t)
    BY DEF IsAscending
  <2> QED BY <2>1
<1>2. ASSUME NEW m \in Nat, m \in T PROVE m + 1 \in T
  <2>1. PICK s : IsAscending(S, m, s)
    BY <1>2
  <2> DEFINE e == Longer(S, s[m], m + 1)
             t == [i \in 0..(m + 1) |-> IF i = m + 1 THEN e ELSE s[i]]
  <2>2. ASSUME NEW i \in 0..(m + 1)
        PROVE  t[i] = IF i = 0 THEN << >> ELSE Longer(S, t[i - 1], i)
    BY <2>1 DEF IsAscending
  <2>3. IsAscending(S, m + 1, t)
    BY <2>2 DEF IsAscending
  <2> QED BY <2>3
<1> HIDE DEF T
<1>3. \A m \in Nat : m \in T
  BY <1>1, <1>2, InductionOnNat
<1> QED BY <1>3 DEF T

LEMMA AscendingUnique ==
  ASSUME NEW S, NEW n \in Nat, NEW k \in 0..n, NEW s, NEW t,
         IsAscending(S, n, s), IsAscending(S, k, t)
  PROVE  \A i \in 0..k : s[i] = t[i]
<1> DEFINE T == {i \in Nat : i \in 0..k => s[i] = t[i]}
<1>1. 0 \in T
  BY DEF IsAscending
<1>2. ASSUME NEW i \in Nat, i \in T PROVE i + 1 \in T
  BY <1>2 DEF IsAscending
<1> HIDE DEF T
<1>3. \A i \in Nat : i \in T
  BY <1>1, <1>2, InductionOnNat
<1> QED BY <1>3 DEF T

LEMMA AscendingStep ==
  ASSUME NEW S
  PROVE  /\ Ascending(S, 0) = << >>
         /\ \A n \in Nat : Ascending(S, n + 1) = Longer(S, Ascending(S, n), n + 1)
<1> DEFINE s(n) == CHOOSE t : IsAscending(S, n, t)
<1>1. ASSUME NEW n \in Nat
      PROVE  Ascending(S, n) = s(n)[n] /\ IsAscending(S, n, s(n))
  <2>1. Ascending(S, n) = s(n)[n]
    BY DEF Ascending, IsAscending, Longer
  <2>2. \E t : IsAscending(S, n, t)
    BY AscendingExists
  <2>3. IsAscending(S, n, s(n))
    BY <2>2
  <2> QED BY <2>1, <2>3
<1> HIDE DEF s
<1>2. Ascending(S, 0) = << >>
  BY <1>1 DEF IsAscending
<1>3. ASSUME NEW n \in Nat
      PROVE  Ascending(S, n + 1) = Longer(S, Ascending(S, n), n + 1)
  <2>1. n + 1 \in Nat /\ n \in 0..(n + 1) /\ n \in 0..n
    OBVIOUS
  <2>2. s(n + 1)[n] = s(n)[n]
    <3>1. IsAscending(S, n + 1, s(n + 1)) /\ IsAscending(S, n, s(n))
      BY <1>1, <2>1
    <3>2. \A i \in 0..n : s(n + 1)[i] = s(n)[i]
      BY <2>1, <3>1, AscendingUnique
    <3> QED BY <2>1, <3>2
  <2>3. s(n + 1)[n + 1] = Longer(S, s(n + 1)[n], n + 1)
    BY <1>1, <2>1 DEF IsAscending
  <2> QED BY <1>1, <2>1, <2>2, <2>3
<1> QED BY <1>2, <1>3

\* It lists S up to n, each number at the place that counts the ones up to it.
LEMMA AscendingFacts ==
  ASSUME NEW S, NEW n \in Nat
  PROVE  /\ Ascending(S, n) \in Seq(1..n)
         /\ IsFiniteSet(S \cap (1..n))
         /\ Len(Ascending(S, n)) = Cardinality(S \cap (1..n))
         /\ \A i \in 1..Len(Ascending(S, n)) : Ascending(S, n)[i] \in S \cap (1..n)
         /\ \A i, j \in 1..Len(Ascending(S, n)) : i < j => Ascending(S, n)[i] < Ascending(S, n)[j]
         /\ \A j \in S \cap (1..n) : /\ Cardinality(S \cap (1..j)) \in 1..Len(Ascending(S, n))
                                     /\ Ascending(S, n)[Cardinality(S \cap (1..j))] = j
<1> DEFINE a(k) == Ascending(S, k)
           Good(k) == /\ a(k) \in Seq(1..k)
                      /\ IsFiniteSet(S \cap (1..k))
                      /\ Len(a(k)) = Cardinality(S \cap (1..k))
                      /\ \A i \in 1..Len(a(k)) : a(k)[i] \in S \cap (1..k)
                      /\ \A i, j \in 1..Len(a(k)) : i < j => a(k)[i] < a(k)[j]
                      /\ \A j \in S \cap (1..k) : /\ Cardinality(S \cap (1..j)) \in 1..Len(a(k))
                                                  /\ a(k)[Cardinality(S \cap (1..j))] = j
           T == {k \in Nat : Good(k)}
<1> HIDE DEF a
<1>0. /\ a(0) = << >>
      /\ \A k \in Nat : a(k + 1) = IF k + 1 \in S THEN Append(a(k), k + 1) ELSE a(k)
  BY AscendingStep DEF a, Longer
<1>1. 0 \in T
  <2>1. S \cap (1..0) = {}
    OBVIOUS
  <2>2. << >> \in Seq(1..0) /\ Len(<< >>) = 0
    OBVIOUS
  <2>3. IsFiniteSet(S \cap (1..0)) /\ Cardinality(S \cap (1..0)) = 0
    BY <2>1, FS_EmptySet
  <2>4. a(0) \in Seq(1..0) /\ Len(a(0)) = 0
    BY <1>0, <2>2
  <2>5. Good(0)
    BY <2>1, <2>3, <2>4
  <2> QED BY <2>5
<1>2. ASSUME NEW k \in Nat, k \in T PROVE k + 1 \in T
  <2>1. Good(k)
    BY <1>2
  <2> DEFINE C == S \cap (1..k)
             D == S \cap (1..(k + 1))
  <2>2. a(k) \in Seq(1..(k + 1)) /\ Len(a(k)) \in Nat
    BY <2>1
  <2>3. CASE k + 1 \notin S
    <3>1. D = C
      BY <2>3
    <3>2. a(k + 1) = a(k)
      BY <1>0, <2>3
    <3> DEFINE b == a(k)
    <3>3. /\ a(k + 1) = b /\ b \in Seq(1..(k + 1))
          /\ IsFiniteSet(D) /\ Len(b) = Cardinality(D)
          /\ \A i \in 1..Len(b) : b[i] \in D
          /\ \A i, j \in 1..Len(b) : i < j => b[i] < b[j]
          /\ \A j \in D : Cardinality(S \cap (1..j)) \in 1..Len(b) /\ b[Cardinality(S \cap (1..j))] = j
      <4>1. /\ b \in Seq(1..(k + 1)) /\ IsFiniteSet(C) /\ Len(b) = Cardinality(C)
            /\ \A i \in 1..Len(b) : b[i] \in C
            /\ \A i, j \in 1..Len(b) : i < j => b[i] < b[j]
            /\ \A j \in C : /\ Cardinality(S \cap (1..j)) \in 1..Len(b)
                             /\ b[Cardinality(S \cap (1..j))] = j
        BY <2>1, <2>2
      <4>2. a(k + 1) = b
        BY <3>2
      <4> HIDE DEF b, C, D
      <4> QED BY <3>1, <4>1, <4>2
    <3> HIDE DEF b
    <3>4. Good(k + 1)
      <4>1. a(k + 1) = b
        BY <3>3
      <4> QED BY <3>3, <4>1
    <3> QED BY <3>4
  <2>4. CASE k + 1 \in S
    <3>1. D = C \cup {k + 1} /\ k + 1 \notin C
      BY <2>4
    <3>2. IsFiniteSet(D) /\ Cardinality(D) = Cardinality(C) + 1
      <4> HIDE DEF D
      <4>1. IsFiniteSet(C)
        BY <2>1
      <4> HIDE DEF C
      <4> QED BY <3>1, <4>1, FS_AddElement
    <3> DEFINE b == a(k)
               l == Len(b)
               e == Append(b, k + 1)
    <3>3. a(k + 1) = e /\ b \in Seq(1..(k + 1)) /\ l \in Nat
      BY <1>0, <2>2, <2>4
    <3>4. /\ \A i \in 1..l : b[i] \in C
          /\ \A i, j \in 1..l : i < j => b[i] < b[j]
          /\ l = Cardinality(C)
          /\ \A j \in C : Cardinality(S \cap (1..j)) \in 1..l /\ b[Cardinality(S \cap (1..j))] = j
      BY <2>1
    <3> HIDE DEF b
    <3>5. /\ e \in Seq(1..(k + 1)) /\ Len(e) = l + 1
          /\ \A i \in 1..l : e[i] = b[i]
          /\ e[l + 1] = k + 1
      BY <3>3
    <3> HIDE DEF C, D, e, l
    <3>6. Len(e) = Cardinality(D)
      BY <3>2, <3>4, <3>5
    <3>7. \A i \in 1..Len(e) : e[i] \in D
      <4> SUFFICES ASSUME NEW i \in 1..Len(e) PROVE e[i] \in D
        OBVIOUS
      <4>1. i \in 1..l \/ i = l + 1
        BY <3>3, <3>5
      <4> QED BY <3>1, <3>4, <3>5, <4>1
    <3>8. \A i, j \in 1..Len(e) : i < j => e[i] < e[j]
      <4> SUFFICES ASSUME NEW i \in 1..Len(e), NEW j \in 1..Len(e), i < j
                   PROVE  e[i] < e[j]
        OBVIOUS
      <4>1. i \in 1..l /\ e[i] = b[i] /\ b[i] \in C
        BY <3>3, <3>4, <3>5
      <4>2. b[i] < k + 1
        BY <4>1 DEF C
      <4> QED BY <3>3, <3>4, <3>5, <4>1, <4>2, SMTT(40)
    <3>9. ASSUME NEW j \in D
          PROVE  Cardinality(S \cap (1..j)) \in 1..Len(e) /\ e[Cardinality(S \cap (1..j))] = j
      <4>1. CASE j = k + 1
        <5>1. Cardinality(S \cap (1..j)) = l + 1
          BY <3>2, <3>4, <4>1 DEF D
        <5> QED BY <3>3, <3>5, <4>1, <5>1
      <4>2. CASE j # k + 1
        <5>1. j \in C
          BY <3>1, <4>2
        <5> QED BY <3>3, <3>4, <3>5, <5>1
      <4> QED BY <4>1, <4>2
    <3>10. Good(k + 1)
      BY <3>2, <3>3, <3>5, <3>6, <3>7, <3>8, <3>9 DEF D
    <3> QED BY <3>10
  <2> QED BY <2>3, <2>4
<1> HIDE DEF T
<1>3. \A k \in Nat : k \in T
  BY <1>1, <1>2, InductionOnNat
<1> QED BY <1>3 DEF T, a
-----------------------------------------------------------------------------
(* The span program is a matrix with a row per replica of the configuration. *)

IsPower(a, n, p) == p = [i \in 0..n |-> IF i = 0 THEN 1 ELSE (p[i - 1] * a) % P]

LEMMA PowerExists ==
  ASSUME NEW a
  PROVE  \A n \in Nat : \E p : IsPower(a, n, p)
<1> DEFINE S == {m \in Nat : \E p : IsPower(a, m, p)}
<1>1. 0 \in S
  <2> DEFINE t == [i \in 0..0 |-> 1]
  <2>1. IsPower(a, 0, t)
    BY DEF IsPower
  <2> QED BY <2>1
<1>2. ASSUME NEW m \in Nat, m \in S PROVE m + 1 \in S
  <2>1. PICK p : IsPower(a, m, p)
    BY <1>2
  <2> DEFINE t == [i \in 0..(m + 1) |-> IF i = m + 1 THEN (p[m] * a) % P ELSE p[i]]
  <2>2. ASSUME NEW i \in 0..(m + 1) PROVE t[i] = IF i = 0 THEN 1 ELSE (t[i - 1] * a) % P
    BY <2>1 DEF IsPower
  <2>3. IsPower(a, m + 1, t)
    BY <2>2 DEF IsPower
  <2> HIDE DEF t
  <2> QED BY <2>3
<1> HIDE DEF S
<1>3. \A m \in Nat : m \in S
  BY <1>1, <1>2, InductionOnNat
<1> QED BY <1>3 DEF S

LEMMA PowerUnique ==
  ASSUME NEW a, NEW n \in Nat, NEW k \in 0..n, NEW p, NEW q, IsPower(a, n, p), IsPower(a, k, q)
  PROVE  \A i \in 0..k : p[i] = q[i]
<1> DEFINE T == {i \in Nat : i \in 0..k => p[i] = q[i]}
<1>1. 0 \in T
  BY DEF IsPower
<1>2. ASSUME NEW i \in Nat, i \in T PROVE i + 1 \in T
  BY <1>2 DEF IsPower
<1> HIDE DEF T
<1>3. \A i \in Nat : i \in T
  BY <1>1, <1>2, InductionOnNat
<1> QED BY <1>3 DEF T

LEMMA PowerStep ==
  ASSUME NEW a
  PROVE  Power(a, 0) = 1 /\ \A n \in Nat : Power(a, n + 1) = (Power(a, n) * a) % P
<1> DEFINE p(n) == CHOOSE t : IsPower(a, n, t)
<1>1. \A n \in Nat : IsPower(a, n, p(n))
  BY PowerExists
<1>2. \A n \in Nat : Power(a, n) = p(n)[n]
  BY DEF Power, IsPower
<1> HIDE DEF p
<1>3. Power(a, 0) = 1
  <2>1. IsPower(a, 0, p(0))
    BY <1>1
  <2>2. p(0)[0] = 1
    BY <2>1 DEF IsPower
  <2> QED BY <1>2, <2>2
<1>4. ASSUME NEW n \in Nat PROVE Power(a, n + 1) = (Power(a, n) * a) % P
  <2> DEFINE q == p(n + 1)
             t == p(n)
  <2>1. IsPower(a, n + 1, q) /\ IsPower(a, n, t)
    BY <1>1
  <2>2. Power(a, n + 1) = q[n + 1] /\ Power(a, n) = t[n]
    BY <1>2
  <2> HIDE DEF q, t
  <2>3. q[n + 1] = (q[n] * a) % P
    BY <2>1 DEF IsPower
  <2>4. q[n] = t[n]
    <3>1. n + 1 \in Nat /\ n \in 0..(n + 1) /\ n \in 0..n
      OBVIOUS
    <3> DEFINE m == n + 1
    <3>2. m \in Nat /\ n \in 0..m /\ IsPower(a, m, q)
      BY <2>1, <3>1
    <3> HIDE DEF m
    <3>3. \A i \in 0..n : q[i] = t[i]
      BY <2>1, <3>2, PowerUnique
    <3> QED BY <3>1, <3>3
  <2> QED BY <2>2, <2>3, <2>4
<1> QED BY <1>3, <1>4

LEMMA PowerInField ==
  ASSUME NEW a \in Int
  PROVE  \A n \in Nat : Power(a, n) \in Field
<1> DEFINE S == {n \in Nat : Power(a, n) \in Field}
<1>1. 0 \in S
  BY PowerStep, ModulusFacts
<1>2. ASSUME NEW n \in Nat, n \in S PROVE n + 1 \in S
  <2>1. Power(a, n) \in Int /\ Power(a, n + 1) = (Power(a, n) * a) % P
    BY <1>2, PowerStep, ModulusFacts
  <2>2. Power(a, n) * a \in Int
    BY <2>1, FieldTimes
  <2> QED BY <2>1, <2>2, ModInField
<1> HIDE DEF S
<1>3. \A n \in Nat : n \in S
  BY <1>1, <1>2, InductionOnNat
<1> QED BY <1>3 DEF S

LEMMA VandermondeFacts ==
  ASSUME NEW t \in Nat, NEW n \in Nat
  PROVE  getVandermonde(t, n) \in Matrix(n, t)
<1>1. \A i \in 1..n, j \in 1..t : i \in Int /\ j - 1 \in Nat
  OBVIOUS
<1>2. \A i \in 1..n, j \in 1..t : Power(i, j - 1) \in Field
  BY <1>1, PowerInField
<1> QED BY <1>2 DEF getVandermonde, Matrix

LEMMA InsertionFacts ==
  ASSUME NEW r \in Nat, NEW d \in Nat, NEW v \in Nat, NEW w \in Nat, v >= 1, w >= 1,
         NEW A \in Matrix(r, d), NEW B \in Matrix(v, w), NEW a \in 1..r
  PROVE  performInsertion(A, B, a) \in Matrix(r + v - 1, d + w - 1)
<1> DEFINE pad == Zeros(w - 1)
           n   == r + v - 1
           row(i) == IF i < a THEN A[i] \o pad
                     ELSE IF i < a + v THEN A[a] \o Tail(B[i - a + 1])
                     ELSE A[i - v + 1] \o pad
<1>1. /\ \A i \in 1..r : A[i] \in Seq(Field) /\ Len(A[i]) = d
      /\ \A i \in 1..v : B[i] \in Seq(Field) /\ Len(B[i]) = w
      /\ Len(A) = r /\ Len(B) = v /\ Len(B[1]) = w
  BY FunctionIsSeq DEF Matrix
<1>2. pad \in Seq(Field) /\ Len(pad) = w - 1
  BY ModulusFacts DEF Zeros
<1>3. \A i \in 1..v : Tail(B[i]) \in Seq(Field) /\ Len(Tail(B[i])) = w - 1
  <2> SUFFICES ASSUME NEW i \in 1..v
               PROVE  Tail(B[i]) \in Seq(Field) /\ Len(Tail(B[i])) = w - 1
    OBVIOUS
  <2> DEFINE b == B[i]
  <2>1. b \in Seq(Field) /\ Len(b) = w
    BY <1>1
  <2> HIDE DEF b
  <2>2. b # << >>
    BY <2>1
  <2>3. Tail(b) \in Seq(Field) /\ Len(Tail(b)) = w - 1
    BY <2>1, <2>2
  <2> QED BY <2>3 DEF b
<1>4. ASSUME NEW x \in Seq(Field), NEW y \in Seq(Field), Len(x) = d, Len(y) = w - 1
      PROVE  x \o y \in [1..(d + w - 1) -> Field]
  <2>1. x \o y \in Seq(Field) /\ Len(x \o y) = d + (w - 1)
    BY <1>4
  <2>2. d + (w - 1) = d + w - 1
    OBVIOUS
  <2> DEFINE z == x \o y
  <2>3. z \in Seq(Field) /\ Len(z) = d + w - 1
    BY <2>1, <2>2
  <2> HIDE DEF z
  <2>4. z \in [1..(d + w - 1) -> Field]
    BY <2>3
  <2> QED BY <2>4 DEF z
<1> HIDE DEF pad
<1>5. ASSUME NEW i \in 1..n
      PROVE  row(i) \in [1..(d + w - 1) -> Field]
  <2>1. CASE i < a
    <3>1. i \in 1..r
      BY <2>1
    <3> QED BY <1>1, <1>2, <1>4, <2>1, <3>1
  <2>2. CASE ~(i < a) /\ i < a + v
    <3>1. i - a + 1 \in 1..v
      BY <2>2
    <3> QED BY <1>1, <1>3, <1>4, <2>2, <3>1
  <2>3. CASE ~(i < a) /\ ~(i < a + v)
    <3>1. i - v + 1 \in 1..r
      BY <2>3
    <3> QED BY <1>1, <1>2, <1>4, <2>3, <3>1
  <2> QED BY <2>1, <2>2, <2>3
<1>6. performInsertion(A, B, a) = [i \in 1..n |-> row(i)]
  BY <1>1 DEF performInsertion, pad
<1> HIDE DEF row
<1> QED BY <1>5, <1>6 DEF Matrix
LEMMA CountSurjection ==
  ASSUME NEW S, IsFiniteSet(S), NEW T, NEW f, f = [x \in S |-> f[x]],
         \A x \in S : f[x] \in T, \A y \in T : \E x \in S : f[x] = y
  PROVE  /\ IsFiniteSet(T) /\ Cardinality(T) <= Cardinality(S)
         /\ (\A x, y \in S : f[x] = f[y] => x = y) => Cardinality(T) = Cardinality(S)
<1>1. f \in [S -> T]
  OBVIOUS
<1>2. f \in Surjection(S, T)
  BY <1>1 DEF Surjection
<1>3. ASSUME \A x, y \in S : f[x] = f[y] => x = y
      PROVE  f \in Injection(S, T)
  BY <1>1, <1>3 DEF Injection, IsInjective
<1> QED BY <1>2, <1>3, FS_Surjection

\* The places of formula n that hold replicas, and the ones that hold formulas.
FlatPlaces(c, n) == {i \in DOMAIN c[n].outOf : ~IsNested(c[n].outOf[i])}

NestedPlaces(c, n) == {i \in DOMAIN c[n].outOf : IsNested(c[n].outOf[i])}

LEMMA ListingFacts ==
  ASSUME NEW c, IsListing(c)
  PROVE  /\ Len(c) \in Nat /\ Len(c) >= 1 /\ DOMAIN c = 1..Len(c)
         /\ \A n \in 1..Len(c) :
              /\ c[n].select \in Nat /\ c[n].select >= 1
              /\ c[n].outOf \in Seq(Members) /\ Len(c[n].outOf) \in Nat /\ Len(c[n].outOf) >= 1
              /\ DOMAIN c[n].outOf = 1..Len(c[n].outOf)
         /\ \A n \in 1..Len(c) : \A i \in FlatPlaces(c, n) :
              c[n].outOf[i].id \in Replicas
         /\ \A n \in 1..Len(c) : \A i \in NestedPlaces(c, n) :
              /\ c[n].outOf[i].formula \in (n + 1)..Len(c)
              /\ c[n].outOf[i] = [formula |-> c[n].outOf[i].formula]
<1> DEFINE F == [select : Nat \ {0}, outOf : Seq(Members) \ {<< >>}]
<1>1. c \in Seq(F) /\ c # << >>
  BY DEF IsListing
<1>2. Len(c) \in Nat /\ Len(c) >= 1 /\ DOMAIN c = 1..Len(c) /\ \A n \in 1..Len(c) : c[n] \in F
  <2> HIDE DEF F
  <2> QED BY <1>1
<1>3. ASSUME NEW n \in 1..Len(c)
      PROVE  /\ c[n].select \in Nat /\ c[n].select >= 1
             /\ c[n].outOf \in Seq(Members) /\ Len(c[n].outOf) \in Nat /\ Len(c[n].outOf) >= 1
             /\ DOMAIN c[n].outOf = 1..Len(c[n].outOf)
  <2> DEFINE o == c[n].outOf
  <2>1. c[n].select \in Nat /\ c[n].select >= 1 /\ o \in Seq(Members) /\ o # << >>
    BY <1>2
  <2> HIDE DEF o
  <2>2. Len(o) \in Nat /\ Len(o) >= 1 /\ DOMAIN o = 1..Len(o)
    BY <2>1
  <2> QED BY <2>1, <2>2 DEF o
<1> HIDE DEF F
<1>4. ASSUME NEW n \in 1..Len(c), NEW i \in DOMAIN c[n].outOf
      PROVE  /\ ~IsNested(c[n].outOf[i]) => c[n].outOf[i].id \in Replicas
             /\ IsNested(c[n].outOf[i]) => /\ c[n].outOf[i].formula \in (n + 1)..Len(c)
                                           /\ c[n].outOf[i] = [formula |-> c[n].outOf[i].formula]
  <2> DEFINE o == c[n].outOf
             e == o[i]
  <2>1. e \in Members
    BY <1>3, ElementOfSeq
  <2> HIDE DEF e
  <2>2. CASE e \in [id : Replicas]
    <3>1. DOMAIN e = {"id"} /\ e.id \in Replicas
      BY <2>2
    <3>2. ~IsNested(e)
      BY <3>1 DEF IsNested
    <3> QED BY <3>1, <3>2 DEF e
  <2>3. CASE e \in [formula : Nat]
    <3>1. DOMAIN e = {"formula"} /\ e = [formula |-> e.formula]
      BY <2>3
    <3>2. IsNested(e)
      BY <3>1 DEF IsNested
    <3>3. e.formula \in (n + 1)..Len(c)
      BY <1>2, <3>2 DEF IsListing, e
    <3> QED BY <3>1, <3>2, <3>3 DEF e
  <2> QED BY <2>1, <2>2, <2>3 DEF Members
<1> QED BY <1>2, <1>3, <1>4 DEF FlatPlaces, NestedPlaces

\* The members of a formula are its replicas and its formulas.
LEMMA MemberCount ==
  ASSUME NEW c, IsListing(c), NEW n \in 1..Len(c)
  PROVE  /\ FlatPlaces(c, n) \subseteq 1..Len(c[n].outOf)
         /\ NestedPlaces(c, n) \subseteq 1..Len(c[n].outOf)
         /\ IsFiniteSet(FlatPlaces(c, n)) /\ IsFiniteSet(NestedPlaces(c, n))
         /\ Cardinality(FlatPlaces(c, n)) \in Nat /\ Cardinality(NestedPlaces(c, n)) \in Nat
         /\ Cardinality(FlatPlaces(c, n)) + Cardinality(NestedPlaces(c, n)) = Len(c[n].outOf)
<1> DEFINE A == FlatPlaces(c, n)
           B == NestedPlaces(c, n)
           D == 1..Len(c[n].outOf)
<1>1. DOMAIN c[n].outOf = D /\ Len(c[n].outOf) \in Nat
  BY ListingFacts
<1>2. A \cup B = D /\ A \cap B = {} /\ A \subseteq D /\ B \subseteq D
  BY <1>1 DEF FlatPlaces, NestedPlaces
<1>3. IsFiniteSet(D) /\ Cardinality(D) = Len(c[n].outOf)
  <2> DEFINE k == Len(c[n].outOf)
  <2>1. k \in Nat /\ 1 \in Int /\ k \in Int
    BY <1>1
  <2> HIDE DEF k
  <2>2. IsFiniteSet(1..k) /\ Cardinality(1..k) = IF 1 > k THEN 0 ELSE k - 1 + 1
    BY <2>1, FS_Interval
  <2>3. Cardinality(1..k) = k
    BY <2>1, <2>2
  <2> QED BY <2>2, <2>3 DEF k
<1> HIDE DEF A, B, D
<1>4. IsFiniteSet(A) /\ IsFiniteSet(B)
  BY <1>2, <1>3, FS_Subset
<1>5. Cardinality(A) \in Nat /\ Cardinality(B) \in Nat
  BY <1>4, FS_CardinalityType
<1>6. Cardinality(A \cup B) = Cardinality(A) + Cardinality(B) - Cardinality(A \cap B)
  BY <1>4, FS_Union
<1>7. Cardinality(A \cap B) = 0
  BY <1>2, FS_EmptySet
<1>8. Cardinality(A) + Cardinality(B) = Len(c[n].outOf)
  <2>1. A \cup B = D
    BY <1>2
  <2>2. Cardinality(A \cup B) = Len(c[n].outOf)
    BY <1>3, <2>1, Zenon
  <2>3. Cardinality(A) + Cardinality(B) - 0 = Len(c[n].outOf)
    BY <1>6, <1>7, <2>2
  <2> QED BY <1>5, <2>3
<1>9. A \subseteq 1..Len(c[n].outOf) /\ B \subseteq 1..Len(c[n].outOf)
  BY <1>2 DEF D
<1> QED BY <1>4, <1>5, <1>8, <1>9 DEF A, B

LEMMA ParsedFacts ==
  ASSUME NEW c, IsListing(c), NEW t, t = from_json(c)
  PROVE  /\ DOMAIN t = 1..Len(c) /\ Len(t) = Len(c)
         /\ \A n \in 1..Len(c) :
              /\ t[n].threshold = c[n].select
              /\ t[n].elements \in Seq(Replicas) /\ t[n].nestedElements \in Seq((n + 1)..Len(c))
              /\ Len(t[n].elements) = Cardinality(FlatPlaces(c, n))
              /\ Len(t[n].nestedElements) = Cardinality(NestedPlaces(c, n))
              /\ \A i \in 1..Len(t[n].elements) :
                   /\ Ascending(FlatPlaces(c, n), Len(c[n].outOf))[i] \in FlatPlaces(c, n)
                   /\ t[n].elements[i]
                        = c[n].outOf[Ascending(FlatPlaces(c, n), Len(c[n].outOf))[i]].id
              /\ \A i \in 1..Len(t[n].nestedElements) :
                   /\ Ascending(NestedPlaces(c, n), Len(c[n].outOf))[i] \in NestedPlaces(c, n)
                   /\ t[n].nestedElements[i]
                        = c[n].outOf[Ascending(NestedPlaces(c, n), Len(c[n].outOf))[i]].formula
<1> DEFINE N == Len(c)
<1>1. N \in Nat /\ DOMAIN c = 1..N
  BY ListingFacts
<1>2. t = [n \in 1..N |->
            LET out    == c[n].outOf
                flat   == Ascending(FlatPlaces(c, n), Len(out))
                nested == Ascending(NestedPlaces(c, n), Len(out))
            IN  [threshold |-> c[n].select,
                 elements  |-> [i \in DOMAIN flat |-> out[flat[i]].id],
                 nestedElements |-> [i \in DOMAIN nested |-> out[nested[i]].formula]]]
  BY <1>1 DEF from_json, FlatPlaces, NestedPlaces
<1>3. DOMAIN t = 1..N /\ Len(t) = N
  BY <1>1, <1>2
<1>4. ASSUME NEW n \in 1..N
      PROVE  /\ t[n].threshold = c[n].select
             /\ t[n].elements \in Seq(Replicas) /\ t[n].nestedElements \in Seq((n + 1)..N)
             /\ Len(t[n].elements) = Cardinality(FlatPlaces(c, n))
             /\ Len(t[n].nestedElements) = Cardinality(NestedPlaces(c, n))
             /\ \A i \in 1..Len(t[n].elements) :
                  /\ Ascending(FlatPlaces(c, n), Len(c[n].outOf))[i] \in FlatPlaces(c, n)
                  /\ t[n].elements[i]
                       = c[n].outOf[Ascending(FlatPlaces(c, n), Len(c[n].outOf))[i]].id
             /\ \A i \in 1..Len(t[n].nestedElements) :
                  /\ Ascending(NestedPlaces(c, n), Len(c[n].outOf))[i] \in NestedPlaces(c, n)
                  /\ t[n].nestedElements[i]
                       = c[n].outOf[Ascending(NestedPlaces(c, n), Len(c[n].outOf))[i]].formula
  <2> DEFINE out    == c[n].outOf
             A      == FlatPlaces(c, n)
             B      == NestedPlaces(c, n)
             flat   == Ascending(A, Len(out))
             nested == Ascending(B, Len(out))
             els    == [i \in DOMAIN flat |-> out[flat[i]].id]
             nes    == [i \in DOMAIN nested |-> out[nested[i]].formula]
  <2>1. t[n] = [threshold |-> c[n].select, elements |-> els, nestedElements |-> nes]
    BY <1>2
  <2>2. t[n].threshold = c[n].select /\ t[n].elements = els /\ t[n].nestedElements = nes
    <3> HIDE DEF els, nes
    <3> QED BY <2>1
  <2>3. /\ A \subseteq 1..Len(out) /\ B \subseteq 1..Len(out) /\ Len(out) \in Nat
        /\ A \cap (1..Len(out)) = A /\ B \cap (1..Len(out)) = B
    <3>1. A \subseteq 1..Len(out) /\ B \subseteq 1..Len(out)
      BY MemberCount
    <3>2. Len(out) \in Nat
      BY ListingFacts
    <3> HIDE DEF A, B, out
    <3> QED BY <3>1, <3>2
  <2>4. /\ \A i \in A : out[i].id \in Replicas
        /\ \A i \in B : out[i].formula \in (n + 1)..N
    BY ListingFacts
  <2> HIDE DEF A, B, out
  <2>5. /\ flat \in Seq(1..Len(out)) /\ Len(flat) = Cardinality(A)
        /\ \A i \in 1..Len(flat) : flat[i] \in A
    BY <2>3, AscendingFacts
  <2>6. /\ nested \in Seq(1..Len(out)) /\ Len(nested) = Cardinality(B)
        /\ \A i \in 1..Len(nested) : nested[i] \in B
    BY <2>3, AscendingFacts
  <2> HIDE DEF flat, nested
  <2>7. /\ els \in Seq(Replicas) /\ Len(els) = Cardinality(A)
        /\ \A i \in 1..Len(els) : els[i] = out[flat[i]].id /\ flat[i] \in A
    <3>1. DOMAIN flat = 1..Len(flat) /\ Len(flat) \in Nat
      BY <2>5
    <3>2. els = [i \in 1..Len(flat) |-> out[flat[i]].id]
      BY <3>1
    <3>3. \A i \in 1..Len(flat) : out[flat[i]].id \in Replicas
      BY <2>4, <2>5
    <3> HIDE DEF els
    <3>4. els \in [1..Len(flat) -> Replicas]
      BY <3>2, <3>3
    <3> QED BY <2>5, <3>1, <3>2, <3>4
  <2>8. /\ nes \in Seq((n + 1)..N) /\ Len(nes) = Cardinality(B)
        /\ \A i \in 1..Len(nes) : nes[i] = out[nested[i]].formula /\ nested[i] \in B
    <3>1. DOMAIN nested = 1..Len(nested) /\ Len(nested) \in Nat
      BY <2>6
    <3>2. nes = [i \in 1..Len(nested) |-> out[nested[i]].formula]
      BY <3>1
    <3>3. \A i \in 1..Len(nested) : out[nested[i]].formula \in (n + 1)..N
      BY <2>4, <2>6
    <3> HIDE DEF nes
    <3>4. nes \in [1..Len(nested) -> (n + 1)..N]
      BY <3>2, <3>3
    <3> QED BY <2>6, <3>1, <3>2, <3>4, SMTT(40)
  <2> HIDE DEF els, nes
  <2> QED BY <2>2, <2>7, <2>8 DEF A, B, out, flat, nested
<1> QED BY <1>3, <1>4
\* The places of formulas in the first n formulas.
NestedUpTo(c, n) == {p \in (1..n) \X Nat : p[2] \in NestedPlaces(c, p[1])}

\* What each of them holds, and that nothing else holds it.
LEMMA PlaceFacts ==
  ASSUME NEW c, IsListing(c)
  PROVE  /\ \A p \in NestedUpTo(c, Len(c)) :
              /\ p[1] \in 1..Len(c) /\ p[2] \in NestedPlaces(c, p[1])
              /\ c[p[1]].outOf[p[2]].formula \in (p[1] + 1)..Len(c)
         /\ \A p, q \in NestedUpTo(c, Len(c)) :
              c[p[1]].outOf[p[2]].formula = c[q[1]].outOf[q[2]].formula => p = q
         /\ \A j \in 2..Len(c) : \E p \in NestedUpTo(c, Len(c)) :
              c[p[1]].outOf[p[2]].formula = j
<1> DEFINE N == Len(c)
           W == NestedUpTo(c, N)
           held(p) == c[p[1]].outOf[p[2]].formula
<1>1. /\ N \in Nat /\ DOMAIN c = 1..N
      /\ \A n \in 1..N : DOMAIN c[n].outOf = 1..Len(c[n].outOf) /\ Len(c[n].outOf) \in Nat
      /\ \A n \in 1..N : \A i \in NestedPlaces(c, n) :
           /\ c[n].outOf[i].formula \in (n + 1)..N
           /\ c[n].outOf[i] = [formula |-> c[n].outOf[i].formula]
  BY ListingFacts
<1>2. ASSUME NEW p \in W
      PROVE  /\ p[1] \in 1..N /\ p[2] \in NestedPlaces(c, p[1])
             /\ held(p) \in (p[1] + 1)..N
             /\ p \in Places(c, held(p))
             /\ p = <<p[1], p[2]>>
  <2>1. p = <<p[1], p[2]>> /\ p[1] \in 1..N /\ p[2] \in NestedPlaces(c, p[1])
    BY DEF NestedUpTo
  <2>2. held(p) \in (p[1] + 1)..N /\ c[p[1]].outOf[p[2]] = [formula |-> held(p)]
    BY <1>1, <2>1
  <2>3. p[2] \in DOMAIN c[p[1]].outOf
    BY <2>1 DEF NestedPlaces
  <2>4. p \in {p[1]} \X DOMAIN c[p[1]].outOf
    BY <2>1, <2>3
  <2>5. p \in UNION {{n} \X DOMAIN c[n].outOf : n \in DOMAIN c}
    BY <1>1, <2>1, <2>4
  <2> QED BY <2>1, <2>2, <2>5 DEF Places
<1>3. ASSUME NEW j \in 2..N
      PROVE  \E p \in Places(c, j) : Places(c, j) = {p}
  BY DEF IsListing
<1>4. ASSUME NEW p \in W, NEW q \in W, held(p) = held(q)
      PROVE  p = q
  <2>1. held(p) \in 2..N
    BY <1>1, <1>2
  <2>2. p \in Places(c, held(p)) /\ q \in Places(c, held(p))
    BY <1>2, <1>4
  <2> QED BY <1>3, <2>1, <2>2
<1>5. ASSUME NEW j \in 2..N
      PROVE  \E p \in W : held(p) = j
  <2>1. PICK p \in Places(c, j) : TRUE
    BY <1>3
  <2>2. PICK n \in DOMAIN c : p \in {n} \X DOMAIN c[n].outOf
    BY DEF Places
  <2>3. /\ p[1] = n /\ p[2] \in DOMAIN c[n].outOf /\ p = <<p[1], p[2]>>
        /\ c[p[1]].outOf[p[2]] = [formula |-> j]
    BY <2>2 DEF Places
  <2>4. n \in 1..N /\ p[2] \in Nat
    BY <1>1, <2>3
  <2>5. IsNested(c[n].outOf[p[2]]) /\ held(p) = j
    BY <2>3 DEF IsNested
  <2>6. p[2] \in NestedPlaces(c, p[1])
    BY <2>3, <2>5 DEF NestedPlaces
  <2>7. p \in (1..N) \X Nat
    BY <2>3, <2>4
  <2>8. p \in W
    BY <2>6, <2>7 DEF NestedUpTo
  <2> QED BY <2>5, <2>8
<1> QED BY <1>2, <1>4, <1>5

LEMMA NestedCount ==
  ASSUME NEW c, IsListing(c)
  PROVE  /\ \A n \in 0..Len(c) : /\ IsFiniteSet(NestedUpTo(c, n))
                                 /\ Cardinality(NestedUpTo(c, n)) \in Nat
         /\ Cardinality(NestedUpTo(c, 0)) = 0
         /\ \A n \in 0..(Len(c) - 1) :
              Cardinality(NestedUpTo(c, n + 1))
                = Cardinality(NestedUpTo(c, n)) + Cardinality(NestedPlaces(c, n + 1))
         /\ \A n \in 0..(Len(c) - 1) : n <= Cardinality(NestedUpTo(c, n))
         /\ Cardinality(NestedUpTo(c, Len(c))) = Len(c) - 1
<1> DEFINE N == Len(c)
           W(n) == NestedUpTo(c, n)
           held(p) == c[p[1]].outOf[p[2]].formula
<1>1. N \in Nat /\ N >= 1
  BY ListingFacts
<1>2. ASSUME NEW n \in 0..(N - 1), IsFiniteSet(W(n))
      PROVE  /\ IsFiniteSet(W(n + 1))
             /\ Cardinality(W(n + 1)) = Cardinality(W(n)) + Cardinality(NestedPlaces(c, n + 1))
  <2> DEFINE B == NestedPlaces(c, n + 1)
             V == {p \in {n + 1} \X Nat : p[2] \in B}
             f == [i \in B |-> <<n + 1, i>>]
  <2>1. n + 1 \in 1..N /\ n \in Nat
    BY <1>1
  <2>2. IsFiniteSet(B) /\ B \subseteq Nat
    <3>1. IsFiniteSet(B) /\ B \subseteq 1..Len(c[n + 1].outOf)
      BY <2>1, MemberCount
    <3> HIDE DEF B
    <3> QED BY <3>1
  <2> HIDE DEF B
  <2>3. IsFiniteSet(V) /\ Cardinality(V) = Cardinality(B)
    <3>1. \A i \in B : f[i] \in V
      BY <2>1, <2>2
    <3>2. \A p \in V : \E i \in B : f[i] = p
      OBVIOUS
    <3>3. \A i, j \in B : f[i] = f[j] => i = j
      OBVIOUS
    <3>4. f = [i \in B |-> f[i]]
      OBVIOUS
    <3> HIDE DEF f, V
    <3> QED BY <2>2, <3>1, <3>2, <3>3, <3>4, CountSurjection
  <2>4. W(n + 1) = W(n) \cup V
    <3>1. 1..(n + 1) = (1..n) \cup {n + 1}
      BY <2>1
    <3>2. ASSUME NEW p
          PROVE  p \in W(n + 1) <=> p \in W(n) \cup V
      BY <2>1, <3>1 DEF NestedUpTo, B
    <3> HIDE DEF V, W
    <3> QED BY <3>2
  <2>5. W(n) \cap V = {}
    BY <2>1 DEF NestedUpTo
  <2>6. Cardinality(W(n)) \in Nat /\ Cardinality(B) \in Nat
    BY <1>2, <2>2, FS_CardinalityType
  <2>7. IsFiniteSet(W(n))
    BY <1>2
  <2> HIDE DEF W, V
  <2>8. IsFiniteSet(W(n) \cup V)
        /\ Cardinality(W(n) \cup V) = Cardinality(W(n)) + Cardinality(V) - Cardinality(W(n) \cap V)
    BY <2>3, <2>7, FS_Union
  <2>9. Cardinality(W(n) \cap V) = 0
    BY <2>5, FS_EmptySet
  <2>10. Cardinality(W(n) \cup V) = Cardinality(W(n)) + Cardinality(B)
    BY <2>3, <2>6, <2>8, <2>9
  <2> QED BY <2>4, <2>8, <2>10 DEF W, B
<1>3. W(0) = {}
  BY DEF NestedUpTo
<1>4. \A n \in 0..N : IsFiniteSet(W(n))
  <2> DEFINE S == {n \in Nat : n \in 0..N => IsFiniteSet(W(n))}
  <2> HIDE DEF W
  <2>1. 0 \in S
    BY <1>3, FS_EmptySet
  <2>2. ASSUME NEW n \in Nat, n \in S PROVE n + 1 \in S
    BY <1>1, <1>2, <2>2
  <2> HIDE DEF S
  <2>3. \A n \in Nat : n \in S
    BY <2>1, <2>2, InductionOnNat
  <2> QED BY <2>3 DEF S
<1>5. \A n \in 0..N : Cardinality(W(n)) \in Nat
  <2> HIDE DEF W
  <2> QED BY <1>4, FS_CardinalityType
<1>6. Cardinality(W(0)) = 0
  <2> HIDE DEF W
  <2> QED BY <1>3, FS_EmptySet
<1>7. /\ \A p \in W(N) : /\ p[1] \in 1..N /\ p[2] \in NestedPlaces(c, p[1])
                         /\ held(p) \in (p[1] + 1)..N
      /\ \A p, q \in W(N) : held(p) = held(q) => p = q
      /\ \A j \in 2..N : \E p \in W(N) : held(p) = j
  BY PlaceFacts
<1>8. \A n \in 0..N : \A p \in W(N) : p[1] <= n => p \in W(n)
  BY <1>1, <1>7 DEF NestedUpTo
<1>9. ASSUME NEW n \in 0..(N - 1)
      PROVE  n <= Cardinality(W(n))
  <2> DEFINE V == {p \in W(N) : held(p) \in 2..(n + 1)}
             f == [p \in V |-> held(p)]
  <2>1. V \subseteq W(n)
    <3>1. \A p \in V : p[1] <= n
      BY <1>1, <1>7
    <3> HIDE DEF W
    <3> QED BY <1>1, <1>8, <3>1
  <2>2. IsFiniteSet(W(n)) /\ Cardinality(W(n)) \in Nat
    BY <1>1, <1>4, <1>5
  <2> HIDE DEF W, held
  <2>3. IsFiniteSet(V) /\ Cardinality(V) <= Cardinality(W(n))
    <3> HIDE DEF V
    <3> QED BY <2>1, <2>2, FS_Subset
  <2>4. \A j \in 2..(n + 1) : \E p \in V : f[p] = j
    BY <1>1, <1>7
  <2>5. \A p \in V : f[p] \in 2..(n + 1)
    OBVIOUS
  <2>6. f = [p \in V |-> f[p]]
    OBVIOUS
  <2> HIDE DEF V, f
  <2>7. Cardinality(2..(n + 1)) <= Cardinality(V)
    BY <2>3, <2>4, <2>5, <2>6, CountSurjection
  <2>8. Cardinality(2..(n + 1)) = n
    <3>1. 2 \in Int /\ n + 1 \in Int /\ n \in Nat
      OBVIOUS
    <3>2. Cardinality(2..(n + 1)) = IF 2 > n + 1 THEN 0 ELSE (n + 1) - 2 + 1
      BY <3>1, FS_Interval
    <3> QED BY <3>1, <3>2
  <2>9. Cardinality(V) \in Nat
    BY <2>3, FS_CardinalityType
  <2> QED BY <2>2, <2>3, <2>7, <2>8, <2>9
<1>10. Cardinality(W(N)) = N - 1
  <2> DEFINE f == [p \in W(N) |-> held(p)]
  <2>1. IsFiniteSet(W(N))
    BY <1>1, <1>4
  <2> HIDE DEF W, held
  <2>2. \A p \in W(N) : f[p] \in 2..N
    BY <1>1, <1>7
  <2>3. \A j \in 2..N : \E p \in W(N) : f[p] = j
    BY <1>7
  <2>4. \A p, q \in W(N) : f[p] = f[q] => p = q
    BY <1>7
  <2>5. f = [p \in W(N) |-> f[p]]
    OBVIOUS
  <2> HIDE DEF f
  <2>6. Cardinality(2..N) = Cardinality(W(N))
    BY <2>1, <2>2, <2>3, <2>4, <2>5, CountSurjection
  <2>7. Cardinality(2..N) = N - 1
    <3>1. 2 \in Int /\ N \in Int /\ N >= 1
      BY <1>1
    <3>2. Cardinality(2..N) = IF 2 > N THEN 0 ELSE N - 2 + 1
      BY <3>1, FS_Interval
    <3> QED BY <3>1, <3>2
  <2> QED BY <2>6, <2>7
<1>11. \A n \in 0..(N - 1) :
         Cardinality(W(n + 1)) = Cardinality(W(n)) + Cardinality(NestedPlaces(c, n + 1))
  <2> HIDE DEF W
  <2> QED BY <1>1, <1>2, <1>4
<1> HIDE DEF W
<1> QED BY <1>4, <1>5, <1>6, <1>9, <1>10, <1>11 DEF W
\* The function of the formulas that createMspWithInsertionAlgorithm is read from.
FirstMsp == [M |-> << <<1>> >>, L |-> << >>, at |-> 1]

IsBuild(t, N, s) ==
  s = [n \in 0..N |-> IF n = 0 THEN FirstMsp ELSE insertNextTheta(s[n - 1], t[n])]

LEMMA BuildExists ==
  ASSUME NEW t
  PROVE  \A n \in Nat : \E s : IsBuild(t, n, s)
<1> DEFINE S == {m \in Nat : \E s : IsBuild(t, m, s)}
<1>1. 0 \in S
  <2> DEFINE u == [i \in 0..0 |-> FirstMsp]
  <2>1. IsBuild(t, 0, u)
    BY DEF IsBuild
  <2> QED BY <2>1
<1>2. ASSUME NEW m \in Nat, m \in S PROVE m + 1 \in S
  <2>1. PICK s : IsBuild(t, m, s)
    BY <1>2
  <2> DEFINE e == insertNextTheta(s[m], t[m + 1])
             u == [i \in 0..(m + 1) |-> IF i = m + 1 THEN e ELSE s[i]]
  <2>2. ASSUME NEW i \in 0..(m + 1)
        PROVE  u[i] = IF i = 0 THEN FirstMsp ELSE insertNextTheta(u[i - 1], t[i])
    <3>1. CASE i = m + 1
      <4>1. u[i] = e /\ u[i - 1] = s[m]
        BY <3>1
      <4> HIDE DEF u
      <4> QED BY <3>1, <4>1
    <3>2. CASE i = 0
      BY <2>1, <3>2 DEF IsBuild
    <3>3. CASE i # m + 1 /\ i # 0
      <4>1. u[i] = s[i] /\ u[i - 1] = s[i - 1] /\ i \in 0..m
        BY <3>3
      <4> HIDE DEF u
      <4> QED BY <2>1, <3>3, <4>1 DEF IsBuild
    <3> QED BY <3>1, <3>2, <3>3
  <2>3. IsBuild(t, m + 1, u)
    BY <2>2 DEF IsBuild
  <2> QED BY <2>3
<1> HIDE DEF S
<1>3. \A m \in Nat : m \in S
  BY <1>1, <1>2, InductionOnNat
<1> QED BY <1>3 DEF S

\* After n formulas there is a row for each replica they name, and one for each
\* formula that is nested in them and still to come.
BuildInv(c, n, s) ==
  /\ s.L \in Seq(Replicas) /\ s.at = Len(s.L) + 1
  /\ \E r, d \in Nat : /\ r >= 1 /\ d >= 1
                       /\ s.M \in Matrix(r, d)
                       /\ r = s.at + Cardinality(NestedUpTo(c, n)) - n

LEMMA BuildStep ==
  ASSUME NEW c, IsListing(c), NEW n \in 0..(Len(c) - 1), NEW s, BuildInv(c, n, s)
  PROVE  BuildInv(c, n + 1, insertNextTheta(s, from_json(c)[n + 1]))
<1> DEFINE t  == from_json(c)[n + 1]
           W(k) == Cardinality(NestedUpTo(c, k))
           s1 == insertNextTheta(s, t)
           v  == Len(t.elements) + Len(t.nestedElements)
           V  == getVandermonde(t.threshold, v)
           w  == t.threshold
<1>1. n \in Nat /\ n + 1 \in 1..Len(c) /\ Len(c) \in Nat
  BY ListingFacts
<1>2. /\ W(n) \in Nat /\ n <= W(n)
      /\ W(n + 1) = W(n) + Cardinality(NestedPlaces(c, n + 1))
  <2>1. n \in 0..Len(c)
    BY <1>1
  <2> QED BY <2>1, NestedCount
<1>3. /\ t.elements \in Seq(Replicas) /\ Len(t.elements) = Cardinality(FlatPlaces(c, n + 1))
      /\ Len(t.nestedElements) = Cardinality(NestedPlaces(c, n + 1))
      /\ t.threshold = c[n + 1].select
  BY <1>1, ParsedFacts
<1>4. /\ Cardinality(FlatPlaces(c, n + 1)) \in Nat /\ Cardinality(NestedPlaces(c, n + 1)) \in Nat
      /\ Cardinality(FlatPlaces(c, n + 1)) + Cardinality(NestedPlaces(c, n + 1)) >= 1
      /\ w \in Nat /\ w >= 1
  <2>1. /\ Len(c[n + 1].outOf) >= 1 /\ Len(c[n + 1].outOf) \in Nat
        /\ c[n + 1].select \in Nat /\ c[n + 1].select >= 1
    BY <1>1, ListingFacts
  <2>2. /\ Cardinality(FlatPlaces(c, n + 1)) \in Nat /\ Cardinality(NestedPlaces(c, n + 1)) \in Nat
        /\ Cardinality(FlatPlaces(c, n + 1)) + Cardinality(NestedPlaces(c, n + 1))
             = Len(c[n + 1].outOf)
    BY <1>1, MemberCount
  <2> QED BY <1>3, <2>1, <2>2
<1>5. PICK r \in Nat, d \in Nat : /\ r >= 1 /\ d >= 1
                                  /\ s.M \in Matrix(r, d)
                                  /\ r = s.at + W(n) - n
  BY DEF BuildInv
<1>6. s.L \in Seq(Replicas) /\ s.at = Len(s.L) + 1 /\ Len(s.L) \in Nat
  BY DEF BuildInv
<1>7. s1 = [M |-> performInsertion(s.M, V, s.at), L |-> s.L \o t.elements,
            at |-> s.at + Len(t.elements)]
  BY DEF insertNextTheta
<1> HIDE DEF t, W, v, V, w, s1
<1>8. v \in Nat /\ v >= 1 /\ v = Len(t.elements) + Len(t.nestedElements)
  BY <1>3, <1>4 DEF v
<1>9. V \in Matrix(v, w)
  BY <1>4, <1>8, VandermondeFacts DEF V, w
<1>10. s.at \in 1..r
  BY <1>1, <1>2, <1>5, <1>6
<1>11. s1.M \in Matrix(r + v - 1, d + w - 1)
  <2>1. performInsertion(s.M, V, s.at) \in Matrix(r + v - 1, d + w - 1)
    BY <1>4, <1>5, <1>8, <1>9, <1>10, InsertionFacts
  <2> QED BY <1>7, <2>1
<1>12. s1.L \in Seq(Replicas) /\ Len(s1.L) = Len(s.L) + Len(t.elements)
  <2> DEFINE a == s.L
             b == t.elements
  <2>1. a \in Seq(Replicas) /\ b \in Seq(Replicas) /\ s1.L = a \o b
    BY <1>3, <1>6, <1>7
  <2> HIDE DEF a, b
  <2>2. s1.L \in Seq(Replicas) /\ Len(s1.L) = Len(a) + Len(b)
    BY <2>1
  <2> QED BY <2>2 DEF a, b
<1>13. s1.at = s.at + Len(t.elements)
  BY <1>7
<1>14. /\ r + v - 1 \in Nat /\ d + w - 1 \in Nat /\ r + v - 1 >= 1 /\ d + w - 1 >= 1
       /\ r + v - 1 = s1.at + W(n + 1) - (n + 1)
       /\ s1.at = Len(s1.L) + 1
  <2> DEFINE el == Len(t.elements)
             ne == Len(t.nestedElements)
             W0 == W(n)
             W1 == W(n + 1)
             at0 == s.at
             at1 == s1.at
             l0 == Len(s.L)
             l1 == Len(s1.L)
  <2>1. /\ el \in Nat /\ ne \in Nat /\ v = el + ne /\ v >= 1 /\ w \in Nat /\ w >= 1
        /\ W0 \in Nat /\ W1 = W0 + ne /\ n \in Nat /\ r \in Nat /\ d \in Nat /\ r >= 1 /\ d >= 1
        /\ l0 \in Nat /\ at0 = l0 + 1 /\ r = at0 + W0 - n /\ at1 = at0 + el /\ l1 = l0 + el
    BY <1>1, <1>2, <1>3, <1>4, <1>5, <1>6, <1>8, <1>12, <1>13
  <2> HIDE DEF el, ne, W0, W1, at0, at1, l0, l1
  <2>2. /\ r + v - 1 \in Nat /\ d + w - 1 \in Nat /\ r + v - 1 >= 1 /\ d + w - 1 >= 1
        /\ r + v - 1 = at1 + W1 - (n + 1)
        /\ at1 = l1 + 1
    BY <2>1
  <2> QED BY <2>2 DEF at1, W1, l1
<1> DEFINE r1 == r + v - 1
           d1 == d + w - 1
<1>15. /\ r1 \in Nat /\ d1 \in Nat /\ r1 >= 1 /\ d1 >= 1 /\ s1.M \in Matrix(r1, d1)
       /\ r1 = s1.at + W(n + 1) - (n + 1)
  BY <1>11, <1>14
<1> HIDE DEF r1, d1
<1>16. BuildInv(c, n + 1, s1)
  BY <1>12, <1>14, <1>15 DEF BuildInv, W
<1> QED BY <1>16 DEF s1, t

LEMMA MspFacts ==
  ASSUME NEW c, IsListing(c), NEW msp, msp = createMspWithInsertionAlgorithm(from_json(c))
  PROVE  /\ msp.L \in Seq(Replicas)
         /\ \E r, d \in Nat : /\ r >= 1 /\ d >= 1 /\ msp.M \in Matrix(r, d) /\ Len(msp.L) = r
<1> DEFINE N == Len(c)
           t == from_json(c)
           s == CHOOSE u : IsBuild(t, N, u)
<1>1. N \in Nat /\ N >= 1 /\ Len(t) = N
  BY ListingFacts, ParsedFacts
<1>2. IsBuild(t, N, s)
  <2>1. \E u : IsBuild(t, N, u)
    BY <1>1, BuildExists
  <2> QED BY <2>1
<1>3. msp = s[N]
  <2> HIDE DEF t
  <2>1. createMspWithInsertionAlgorithm(t) = s[N]
    BY <1>1 DEF createMspWithInsertionAlgorithm, IsBuild, FirstMsp
  <2> QED BY <2>1 DEF t
<1> HIDE DEF s
<1> DEFINE S == {n \in Nat : n \in 0..N => BuildInv(c, n, s[n])}
<1>4. 0 \in S
  <2>1. s[0] = FirstMsp
    BY <1>1, <1>2 DEF IsBuild
  <2>2. << <<1>> >> \in Matrix(1, 1)
    <3>1. \A i \in 1..1 : i = 1
      OBVIOUS
    <3>2. <<1>> \in [1..1 -> Field]
      BY <3>1, ModulusFacts
    <3> QED BY <3>1, <3>2 DEF Matrix
  <2>3. << >> \in Seq(Replicas) /\ Len(<< >>) = 0
    OBVIOUS
  <2>4. s[0].M = << <<1>> >> /\ s[0].L = << >> /\ s[0].at = 1
    BY <2>1 DEF FirstMsp
  <2>5. Cardinality(NestedUpTo(c, 0)) = 0
    BY NestedCount
  <2>6. 1 = s[0].at + Cardinality(NestedUpTo(c, 0)) - 0
    BY <2>4, <2>5
  <2>7. BuildInv(c, 0, s[0])
    BY <2>2, <2>3, <2>4, <2>6 DEF BuildInv
  <2> QED BY <2>7
<1>5. ASSUME NEW n \in Nat, n \in S PROVE n + 1 \in S
  <2> SUFFICES ASSUME n + 1 \in 0..N PROVE BuildInv(c, n + 1, s[n + 1])
    OBVIOUS
  <2>1. n \in 0..(N - 1) /\ BuildInv(c, n, s[n])
    BY <1>1, <1>5
  <2>2. s[n + 1] = insertNextTheta(s[n], t[n + 1])
    BY <1>1, <1>2 DEF IsBuild
  <2>3. BuildInv(c, n + 1, insertNextTheta(s[n], t[n + 1]))
    BY <2>1, BuildStep
  <2> QED BY <2>2, <2>3
<1> HIDE DEF S
<1>6. \A n \in Nat : n \in S
  BY <1>4, <1>5, InductionOnNat
<1>7. BuildInv(c, N, msp)
  BY <1>1, <1>3, <1>6 DEF S
<1>8. PICK r \in Nat, d \in Nat : /\ r >= 1 /\ d >= 1
                                  /\ msp.M \in Matrix(r, d)
                                  /\ r = msp.at + Cardinality(NestedUpTo(c, N)) - N
  BY <1>7 DEF BuildInv
<1>9. msp.L \in Seq(Replicas) /\ msp.at = Len(msp.L) + 1 /\ Len(msp.L) \in Nat
  BY <1>7 DEF BuildInv
<1>10. Cardinality(NestedUpTo(c, N)) = N - 1
  BY NestedCount
<1>11. Len(msp.L) = r
  BY <1>1, <1>8, <1>9, <1>10
<1> QED BY <1>8, <1>9, <1>11
-----------------------------------------------------------------------------
(* The factors of the access structure. *)

\* What the access structure of a configuration consists of.
LEMMA InitializeFacts ==
  ASSUME NEW c \in Confs, NEW a, a = initialize(c)
  PROVE  /\ a.L \in Seq(Replicas)
         /\ a.formula = from_json(c.quorum)
         /\ a.plu = PLU(Transpose(a.M)) /\ a.U = a.plu.M
         /\ a.y = solveByForwardSubstitution(a.plu.L, TimesVector(a.plu.Perm, e1(Len(a.M[1]))))
         /\ \E r, d \in Nat : r >= 1 /\ d >= 1 /\ a.M \in Matrix(r, d) /\ Len(a.L) = r
<1> DEFINE msp == createMspWithInsertionAlgorithm(from_json(c.quorum))
           plu == PLU(Transpose(msp.M))
           y   == solveByForwardSubstitution(plu.L, TimesVector(plu.Perm, e1(Len(msp.M[1]))))
           t   == from_json(c.quorum)
<1>1. a = [formula |-> t, M |-> msp.M, L |-> msp.L, plu |-> plu, U |-> plu.M, y |-> y]
  BY DEF initialize
<1>2. IsListing(c.quorum)
  BY ConfAssumption
<1>3. /\ msp.L \in Seq(Replicas)
      /\ \E r, d \in Nat : r >= 1 /\ d >= 1 /\ msp.M \in Matrix(r, d) /\ Len(msp.L) = r
  BY <1>2, MspFacts
<1> HIDE DEF msp, plu, y, t
<1>4. a.formula = t /\ a.M = msp.M /\ a.L = msp.L /\ a.plu = plu /\ a.U = plu.M /\ a.y = y
  BY <1>1
<1> QED BY <1>3, <1>4 DEF plu, y, t

LEMMA FactorsMultiplyLemma ==
  ASSUME NEW r \in Nat, NEW d \in Nat, r >= 1, d >= 1, NEW M \in Matrix(r, d),
         NEW F, F = PLU(Transpose(M))
  PROVE  /\ Times(F.Perm, Transpose(M)) = Times(F.L, F.M)
         /\ \A i, j \in DOMAIN F.L : i < j => F.L[i][j] = 0
<1> DEFINE A == Transpose(M)
<1>1. A \in Matrix(d, r)
  BY TransposeFacts
<1> HIDE DEF A
<1>2. F \in ElimStates(d, r) /\ FactoredBy(A, d, r, F.M, F.Perm, F.L, Len(F.pivots))
  BY <1>1, PLUFacts DEF A
<1> DEFINE U == F.M
           Q == F.Perm
           L == F.L
           l == Len(F.pivots)
<1>3. FactoredBy(A, d, r, U, Q, L, l)
  BY <1>2
<1> HIDE DEF U, Q, L, l
<1>4. U \in Matrix(d, r) /\ Q \in Matrix(d, d) /\ L \in Matrix(d, d)
      /\ \A i, j \in 1..d : i < j => L[i][j] = 0
  BY <1>3 DEF FactoredBy
<1>5. \A i \in 1..d, j \in 1..r :
        /\ Congruent(Total(Terms(Q, A, d, i, j), d), Total(Terms(L, U, d, i, j), d))
        /\ Total(Terms(Q, A, d, i, j), d) \in Int /\ Total(Terms(L, U, d, i, j), d) \in Int
  <2>1. \A i \in 1..d, j \in 1..r :
          Congruent(Total(Terms(Q, A, d, i, j), d), Total(Terms(L, U, d, i, j), d))
    BY <1>1, <1>3, FactoredProduct
  <2>2. \A i \in 1..d, j \in 1..r :
          Total(Terms(Q, A, d, i, j), d) \in Int /\ Total(Terms(L, U, d, i, j), d) \in Int
    BY <1>1, <1>4, TermsInt
  <2> QED BY <2>1, <2>2
<1>6. \A i \in 1..d, j \in 1..r :
        Total(Terms(Q, A, d, i, j), d) % P = Total(Terms(L, U, d, i, j), d) % P
  BY <1>5, CongruentMod
<1>7. Times(Q, A) = [i \in 1..d |-> [j \in 1..r |-> Total(Terms(Q, A, d, i, j), d) % P]]
  BY <1>1, <1>4, TimesEntry
<1>8. Times(L, U) = [i \in 1..d |-> [j \in 1..r |-> Total(Terms(L, U, d, i, j), d) % P]]
  BY <1>4, TimesEntry
<1>9. Times(Q, A) = Times(L, U)
  BY <1>6, <1>7, <1>8
<1>10. DOMAIN L = 1..d
  BY <1>4, MatrixRows
<1> QED BY <1>4, <1>9, <1>10 DEF A, Q, L, U

\* The access structure is the one of the configuration, and never changes.
AccInv == conf \in Confs /\ acc = initialize(conf)

LEMMA AccInvHolds == Spec => []AccInv
<1>1. Init => AccInv
  BY DEF Init, AccInv
<1>2. AccInv /\ [Next]_vars => AccInv'
  <2> SUFFICES ASSUME AccInv, [Next]_vars PROVE AccInv'
    OBVIOUS
  <2>1. UNCHANGED <<conf, acc>>
    BY DEF Next, Vote, vars
  <2> QED BY <2>1 DEF AccInv
<1> QED BY <1>1, <1>2, PTL DEF Spec

\* PLU (linalg_util.cpp) factors P M^T = L U with L lower triangular, whatever
\* rows it swaps and whatever the matrix: the matrix of every configuration.
THEOREM FactorsMultiplyHolds == Spec => []FactorsMultiply
<1>1. AccInv => FactorsMultiply
  <2> SUFFICES ASSUME AccInv PROVE FactorsMultiply
    OBVIOUS
  <2>1. conf \in Confs /\ acc = initialize(conf)
    BY DEF AccInv
  <2>2. acc.plu = PLU(Transpose(acc.M)) /\ acc.U = acc.plu.M
    BY <2>1, InitializeFacts
  <2>3. PICK r \in Nat, d \in Nat : r >= 1 /\ d >= 1 /\ acc.M \in Matrix(r, d)
    BY <2>1, InitializeFacts
  <2>4. /\ Times(acc.plu.Perm, Transpose(acc.M)) = Times(acc.plu.L, acc.plu.M)
        /\ \A i, j \in DOMAIN acc.plu.L : i < j => acc.plu.L[i][j] = 0
    BY <2>2, <2>3, FactorsMultiplyLemma
  <2> QED BY <2>2, <2>4 DEF FactorsMultiply
<1> QED BY <1>1, AccInvHolds, PTL

-----------------------------------------------------------------------------
(* The formula and the configuration. *)

\* As many of the places of an ascending list are in W as of its numbers.
LEMMA AscendingCount ==
  ASSUME NEW S, NEW n \in Nat, S \subseteq 1..n, NEW W
  PROVE  LET a == Ascending(S, n)
             I == {i \in 1..Len(a) : a[i] \in W}
         IN  /\ IsFiniteSet(I) /\ IsFiniteSet(S \cap W)
             /\ Cardinality(I) = Cardinality(S \cap W)
<1> DEFINE a == Ascending(S, n)
           I == {i \in 1..Len(a) : a[i] \in W}
           J == S \cap W
           g == [i \in I |-> a[i]]
<1>1. /\ a \in Seq(1..n)
      /\ \A i \in 1..Len(a) : a[i] \in S
      /\ \A i, j \in 1..Len(a) : i < j => a[i] < a[j]
      /\ \A j \in S : \E i \in 1..Len(a) : a[i] = j
  <2>1. S \cap (1..n) = S
    OBVIOUS
  <2>2. /\ a \in Seq(1..n)
        /\ \A i \in 1..Len(a) : a[i] \in S \cap (1..n)
        /\ \A i, j \in 1..Len(a) : i < j => a[i] < a[j]
        /\ \A j \in S \cap (1..n) : /\ Cardinality(S \cap (1..j)) \in 1..Len(a)
                                   /\ a[Cardinality(S \cap (1..j))] = j
    BY AscendingFacts, Zenon
  <2> HIDE DEF a
  <2>3. \A j \in S : \E i \in 1..Len(a) : a[i] = j
    BY <2>1, <2>2, Zenon
  <2> QED BY <2>1, <2>2, <2>3
<1>2. Len(a) \in Nat /\ \A i \in 1..Len(a) : a[i] \in Nat
  BY <1>1
<1> HIDE DEF a
<1>3. IsFiniteSet(I)
  <2> DEFINE k == Len(a)
  <2>1. k \in Int /\ 1 \in Int
    BY <1>2
  <2> HIDE DEF k
  <2>2. IsFiniteSet(1..k)
    BY <2>1, FS_Interval
  <2>3. I \subseteq 1..k
    BY DEF k
  <2> QED BY <2>2, <2>3, FS_Subset
<1>4. /\ \A i \in I : g[i] \in J
      /\ \A j \in J : \E i \in I : g[i] = j
      /\ \A i, j \in I : g[i] = g[j] => i = j
  <2>1. ASSUME NEW i \in I, NEW j \in I, a[i] = a[j] PROVE i = j
    <3>1. i \in 1..Len(a) /\ j \in 1..Len(a) /\ a[i] \in Nat
      BY <1>2
    <3>2. ~(i < j) /\ ~(j < i)
      BY <1>1, <2>1, <3>1
    <3> QED BY <1>2, <3>1, <3>2
  <2> QED BY <1>1, <2>1
<1>5. g = [i \in I |-> g[i]]
  OBVIOUS
<1> HIDE DEF g, I, J
<1>6. IsFiniteSet(J) /\ Cardinality(J) = Cardinality(I)
  BY <1>3, <1>4, <1>5, CountSurjection
<1> QED BY <1>3, <1>6 DEF I, J, a

\* The functions that evalFomula and Satisfied are read from.
IsHolds(t, reps, f) ==
  f = [n \in DOMAIN t |->
        Cardinality({i \in DOMAIN t[n].elements : t[n].elements[i] \in reps})
          + Cardinality({i \in DOMAIN t[n].nestedElements : f[t[n].nestedElements[i]]})
        >= t[n].threshold]

IsMet(c, reps, f) ==
  f = [n \in DOMAIN c |->
        Cardinality({i \in DOMAIN c[n].outOf :
                       IF IsNested(c[n].outOf[i]) THEN f[c[n].outOf[i].formula]
                       ELSE c[n].outOf[i].id \in reps})
        >= c[n].select]

\* What of formula n is true when reps have voted and f tells of the others.
TrueFlat(c, n, reps) == {i \in FlatPlaces(c, n) : c[n].outOf[i].id \in reps}

TrueNested(c, n, f) == {i \in NestedPlaces(c, n) : f[c[n].outOf[i].formula]}

LEMMA TrueMembers ==
  ASSUME NEW c, IsListing(c), NEW n \in 1..Len(c), NEW reps, NEW f
  PROVE  LET O == {i \in DOMAIN c[n].outOf :
                     IF IsNested(c[n].outOf[i]) THEN f[c[n].outOf[i].formula]
                     ELSE c[n].outOf[i].id \in reps}
         IN  /\ O = TrueFlat(c, n, reps) \cup TrueNested(c, n, f)
             /\ IsFiniteSet(TrueFlat(c, n, reps)) /\ IsFiniteSet(TrueNested(c, n, f))
             /\ Cardinality(TrueFlat(c, n, reps)) \in Nat
             /\ Cardinality(TrueNested(c, n, f)) \in Nat
             /\ Cardinality(O)
                  = Cardinality(TrueFlat(c, n, reps)) + Cardinality(TrueNested(c, n, f))
<1> DEFINE A == TrueFlat(c, n, reps)
           B == TrueNested(c, n, f)
           O == {i \in DOMAIN c[n].outOf :
                   IF IsNested(c[n].outOf[i]) THEN f[c[n].outOf[i].formula]
                   ELSE c[n].outOf[i].id \in reps}
<1>1. O = A \cup B
  BY Zenon DEF TrueFlat, TrueNested, FlatPlaces, NestedPlaces
<1>2. A \cap B = {}
  BY DEF TrueFlat, TrueNested, FlatPlaces, NestedPlaces
<1>3. A \subseteq FlatPlaces(c, n) /\ B \subseteq NestedPlaces(c, n)
  BY DEF TrueFlat, TrueNested
<1>4. IsFiniteSet(A) /\ IsFiniteSet(B)
  BY <1>3, MemberCount, FS_Subset
<1> HIDE DEF A, B, O
<1>5. Cardinality(A) \in Nat /\ Cardinality(B) \in Nat
  BY <1>4, FS_CardinalityType
<1>6. Cardinality(A \cup B) = Cardinality(A) + Cardinality(B) - Cardinality(A \cap B)
  BY <1>4, FS_Union
<1>7. Cardinality(A \cap B) = 0
  BY <1>2, FS_EmptySet
<1>8. Cardinality(O) = Cardinality(A \cup B)
  BY <1>1, Zenon
<1>9. Cardinality(O) = Cardinality(A) + Cardinality(B)
  BY <1>5, <1>6, <1>7, <1>8
<1> QED BY <1>1, <1>4, <1>5, <1>9 DEF A, B, O

\* The two lists of a parsed formula hold as many true members as the formula.
LEMMA ParsedCount ==
  ASSUME NEW c, IsListing(c), NEW n \in 1..Len(c), NEW reps, NEW f
  PROVE  LET e == from_json(c)[n].elements
             h == from_json(c)[n].nestedElements
         IN  /\ Cardinality({i \in DOMAIN e : e[i] \in reps})
                  = Cardinality(TrueFlat(c, n, reps))
             /\ Cardinality({i \in DOMAIN h : f[h[i]]})
                  = Cardinality(TrueNested(c, n, f))
<1> DEFINE t   == from_json(c)
           out == c[n].outOf
           A   == FlatPlaces(c, n)
           B   == NestedPlaces(c, n)
           k   == Len(out)
           a   == Ascending(A, k)
           b   == Ascending(B, k)
           e   == t[n].elements
           h   == t[n].nestedElements
<1>1. k \in Nat /\ A \subseteq 1..k /\ B \subseteq 1..k
  BY MemberCount, ListingFacts
<1>2. /\ e \in Seq(Replicas) /\ h \in Seq((n + 1)..Len(c))
      /\ Len(e) = Cardinality(A) /\ Len(h) = Cardinality(B)
      /\ \A i \in 1..Len(e) : a[i] \in A /\ e[i] = out[a[i]].id
      /\ \A i \in 1..Len(h) : b[i] \in B /\ h[i] = out[b[i]].formula
  <2>1. t = from_json(c)
    OBVIOUS
  <2> HIDE DEF t, out, A, B, k, a, b
  <2>2. /\ e \in Seq(Replicas) /\ h \in Seq((n + 1)..Len(c))
        /\ Len(e) = Cardinality(FlatPlaces(c, n)) /\ Len(h) = Cardinality(NestedPlaces(c, n))
    <3>1. e \in Seq(Replicas) /\ h \in Seq((n + 1)..Len(c))
      BY <2>1, ParsedFacts
    <3>2. Len(e) = Cardinality(FlatPlaces(c, n))
      BY <2>1, ParsedFacts
    <3>3. Len(h) = Cardinality(NestedPlaces(c, n))
      BY <2>1, ParsedFacts
    <3> QED BY <3>1, <3>2, <3>3
  <2>3. \A i \in 1..Len(e) :
          /\ Ascending(FlatPlaces(c, n), Len(c[n].outOf))[i] \in FlatPlaces(c, n)
          /\ e[i] = c[n].outOf[Ascending(FlatPlaces(c, n), Len(c[n].outOf))[i]].id
    BY <2>1, ParsedFacts
  <2>4. \A i \in 1..Len(h) :
          /\ Ascending(NestedPlaces(c, n), Len(c[n].outOf))[i] \in NestedPlaces(c, n)
          /\ h[i] = c[n].outOf[Ascending(NestedPlaces(c, n), Len(c[n].outOf))[i]].formula
    BY <2>1, ParsedFacts
  <2> QED BY <2>2, <2>3, <2>4 DEF a, b, A, B, k, out
<1>3. Len(a) = Cardinality(A) /\ Len(b) = Cardinality(B)
  <2>1. A \cap (1..k) = A /\ B \cap (1..k) = B
    BY <1>1
  <2> HIDE DEF A, B, k
  <2>2. Len(a) = Cardinality(A \cap (1..k)) /\ Len(b) = Cardinality(B \cap (1..k))
    BY <1>1, AscendingFacts
  <2> QED BY <2>1, <2>2
<1>4. DOMAIN e = 1..Len(a) /\ DOMAIN h = 1..Len(b) /\ Len(e) = Len(a) /\ Len(h) = Len(b)
  <2> HIDE DEF e, h, a, b, A, B
  <2> QED BY <1>2, <1>3
<1> DEFINE V == {i \in A : out[i].id \in reps}
           W == {i \in B : f[out[i].formula]}
<1>5. {i \in DOMAIN e : e[i] \in reps} = {i \in 1..Len(a) : a[i] \in V}
  <2> HIDE DEF e, h, a, b, A, B, out, k
  <2> QED BY <1>2, <1>4
<1>6. {i \in DOMAIN h : f[h[i]]} = {i \in 1..Len(b) : b[i] \in W}
  <2> HIDE DEF e, h, a, b, A, B, out, k
  <2>1. \A i \in 1..Len(b) : b[i] \in B /\ h[i] = out[b[i]].formula
    BY <1>2, <1>4
  <2> QED BY <1>4, <2>1, Zenon
<1>7. Cardinality({i \in 1..Len(a) : a[i] \in V}) = Cardinality(A \cap V)
      /\ Cardinality({i \in 1..Len(b) : b[i] \in W}) = Cardinality(B \cap W)
  <2> HIDE DEF A, B, V, W, k
  <2> QED BY <1>1, AscendingCount
<1>8. A \cap V = TrueFlat(c, n, reps) /\ B \cap W = TrueNested(c, n, f)
  BY DEF TrueFlat, TrueNested
<1> HIDE DEF A, B, a, b, V, W, e, h
<1>9. /\ Cardinality({i \in DOMAIN e : e[i] \in reps}) = Cardinality(TrueFlat(c, n, reps))
      /\ Cardinality({i \in DOMAIN h : f[h[i]]}) = Cardinality(TrueNested(c, n, f))
  BY <1>5, <1>6, <1>7, <1>8, Zenon
<1> QED BY <1>9 DEF e, h

LEMMA HoldsIsMet ==
  ASSUME NEW c, IsListing(c), NEW reps, NEW f
  PROVE  IsHolds(from_json(c), reps, f) <=> IsMet(c, reps, f)
<1> DEFINE t    == from_json(c)
           F(n) == Cardinality({i \in DOMAIN t[n].elements : t[n].elements[i] \in reps})
           G(n) == Cardinality({i \in DOMAIN t[n].nestedElements : f[t[n].nestedElements[i]]})
           H(n) == Cardinality({i \in DOMAIN c[n].outOf :
                                  IF IsNested(c[n].outOf[i]) THEN f[c[n].outOf[i].formula]
                                  ELSE c[n].outOf[i].id \in reps})
<1>1. DOMAIN t = 1..Len(c) /\ DOMAIN c = 1..Len(c)
      /\ \A n \in 1..Len(c) : t[n].threshold = c[n].select
  BY ParsedFacts, ListingFacts
<1>2. ASSUME NEW n \in 1..Len(c) PROVE F(n) + G(n) = H(n)
  <2>1. F(n) = Cardinality(TrueFlat(c, n, reps)) /\ G(n) = Cardinality(TrueNested(c, n, f))
    BY ParsedCount, Zenon
  <2>2. H(n) = Cardinality(TrueFlat(c, n, reps)) + Cardinality(TrueNested(c, n, f))
    BY TrueMembers
  <2> QED BY <2>1, <2>2
<1>3. IsHolds(t, reps, f) <=> f = [n \in DOMAIN t |-> F(n) + G(n) >= t[n].threshold]
  BY DEF IsHolds
<1>4. IsMet(c, reps, f) <=> f = [n \in DOMAIN c |-> H(n) >= c[n].select]
  BY DEF IsMet
<1> HIDE DEF F, G, H
<1>5. [n \in DOMAIN t |-> F(n) + G(n) >= t[n].threshold]
        = [n \in DOMAIN c |-> H(n) >= c[n].select]
  BY <1>1, <1>2
<1> QED BY <1>3, <1>4, <1>5

LEMMA EvalIsSatisfied ==
  ASSUME NEW c, IsListing(c), NEW reps
  PROVE  evalFomula(from_json(c), reps) <=> Satisfied(c, reps)
<1> DEFINE t == from_json(c)
           x == CHOOSE f : IsHolds(t, reps, f)
           y == CHOOSE f : IsMet(c, reps, f)
<1>1. \A f : IsHolds(t, reps, f) <=> IsMet(c, reps, f)
  BY HoldsIsMet
<1> HIDE DEF t
<1>2. x = y
  BY <1>1, Zenon
<1>3. evalFomula(t, reps) <=> x[1]
  BY DEF evalFomula, IsHolds
<1>4. Satisfied(c, reps) <=> y[1]
  BY DEF Satisfied, IsMet
<1> QED BY <1>2, <1>3, <1>4 DEF t

\* from_json and evalFomula (quorums.cpp) accept a group of voters exactly when
\* the configuration that was read does, at every point of a collection and for
\* every tree of thresholds: splitting a formula in two lists changes nothing.
THEOREM QuorumIsConfHolds == Spec => []QuorumIsConf
<1>1. AccInv => QuorumIsConf
  <2> SUFFICES ASSUME AccInv PROVE QuorumIsConf
    OBVIOUS
  <2>1. conf \in Confs /\ acc = initialize(conf)
    BY DEF AccInv
  <2>2. acc.formula = from_json(conf.quorum)
    BY <2>1, InitializeFacts
  <2>3. IsListing(conf.quorum)
    BY <2>1, ConfAssumption
  <2> QED BY <2>2, <2>3, EvalIsSatisfied DEF QuorumIsConf
<1> QED BY <1>1, AccInvHolds, PTL

\* What formula n is worth when f tells what the nested ones are.
Worth(c, reps, f, n) ==
  Cardinality({i \in DOMAIN c[n].outOf :
                 IF IsNested(c[n].outOf[i]) THEN f[c[n].outOf[i].formula]
                 ELSE c[n].outOf[i].id \in reps})
  >= c[n].select

LEMMA MetIsWorth ==
  ASSUME NEW c, NEW reps, NEW f
  PROVE  IsMet(c, reps, f) <=> f = [n \in DOMAIN c |-> Worth(c, reps, f, n)]
BY DEF IsMet, Worth

\* More voters, and more nested formulas that are met, do not undo a formula.
LEMMA WorthMonotone ==
  ASSUME NEW c, IsListing(c), NEW n \in 1..Len(c), NEW reps, NEW more, reps \subseteq more,
         NEW f, NEW g, \A m \in (n + 1)..Len(c) : f[m] => g[m],
         Worth(c, reps, f, n)
  PROVE  Worth(c, more, g, n)
<1> DEFINE A == TrueFlat(c, n, reps)
           B == TrueNested(c, n, f)
           X == TrueFlat(c, n, more)
           Y == TrueNested(c, n, g)
           h == c[n].select
<1>1. A \subseteq X
  BY DEF TrueFlat
<1>2. B \subseteq Y
  <2>1. \A i \in NestedPlaces(c, n) : c[n].outOf[i].formula \in (n + 1)..Len(c)
    BY ListingFacts
  <2> QED BY <2>1, Zenon DEF TrueNested
<1>3. /\ IsFiniteSet(X) /\ IsFiniteSet(Y)
      /\ Cardinality(A) \in Nat /\ Cardinality(B) \in Nat
      /\ Cardinality(X) \in Nat /\ Cardinality(Y) \in Nat
  BY TrueMembers
<1>4. Cardinality(A) <= Cardinality(X) /\ Cardinality(B) <= Cardinality(Y)
  <2> HIDE DEF A, B, X, Y
  <2> QED BY <1>1, <1>2, <1>3, FS_Subset
<1>5. Cardinality(A) + Cardinality(B) >= h
  BY TrueMembers DEF Worth
<1>6. h \in Nat
  BY ListingFacts
<1>7. Worth(c, more, g, n) <=> Cardinality(X) + Cardinality(Y) >= h
  BY TrueMembers DEF Worth
<1> HIDE DEF A, B, X, Y, h
<1> QED BY <1>3, <1>4, <1>5, <1>6, <1>7

\* A configuration can be evaluated: from its last formula to its first.
LEMMA MetExists ==
  ASSUME NEW c, IsListing(c), NEW reps
  PROVE  \E f : IsMet(c, reps, f)
<1> DEFINE N == Len(c)
           Good(k) == k <= N => \E f \in [1..N -> BOOLEAN] :
                                  \A n \in 1..N : n > N - k => f[n] = Worth(c, reps, f, n)
           S == {k \in Nat : Good(k)}
<1>1. N \in Nat /\ DOMAIN c = 1..N
  BY ListingFacts
<1>2. Good(0)
  <2>1. [n \in 1..N |-> TRUE] \in [1..N -> BOOLEAN]
    OBVIOUS
  <2>2. \A n \in 1..N : ~(n > N - 0)
    BY <1>1
  <2> QED BY <2>1, <2>2
<1>3. ASSUME NEW k \in Nat, Good(k) PROVE Good(k + 1)
  <2> SUFFICES ASSUME k + 1 <= N
               PROVE  \E f \in [1..N -> BOOLEAN] :
                        \A n \in 1..N : n > N - (k + 1) => f[n] = Worth(c, reps, f, n)
    OBVIOUS
  <2>1. PICK f \in [1..N -> BOOLEAN] : \A n \in 1..N : n > N - k => f[n] = Worth(c, reps, f, n)
    BY <1>1, <1>3
  <2> DEFINE m == N - k
             g == [f EXCEPT ![m] = Worth(c, reps, f, m)]
  <2>2. m \in 1..N /\ m \in Nat
    BY <1>1
  <2>3. Worth(c, reps, f, m) \in BOOLEAN
    BY DEF Worth
  <2>4. g \in [1..N -> BOOLEAN]
    BY <2>2, <2>3
  <2>6. g[m] = Worth(c, reps, f, m) /\ \A n \in 1..N : n # m => g[n] = f[n]
    BY <2>2
  <2>5. ASSUME NEW n \in 1..N, n > N - (k + 1) PROVE g[n] = Worth(c, reps, g, n)
    <3>1. n >= m
      BY <1>1, <2>5
    <3>2. \A j \in (n + 1)..N : f[j] = g[j]
      <4>1. \A j \in (n + 1)..N : j \in 1..N /\ j # m
        <5> HIDE DEF g, N
        <5> QED BY <1>1, <2>2, <3>1
      <4> HIDE DEF g, m
      <4> QED BY <2>6, <4>1
    <3>3. Worth(c, reps, f, n) = Worth(c, reps, g, n)
      <4>1. /\ \A j \in (n + 1)..Len(c) : f[j] => g[j]
            /\ \A j \in (n + 1)..Len(c) : g[j] => f[j]
        BY <3>2
      <4> HIDE DEF g, m
      <4>2. Worth(c, reps, f, n) => Worth(c, reps, g, n)
        BY <4>1, WorthMonotone
      <4>3. Worth(c, reps, g, n) => Worth(c, reps, f, n)
        BY <4>1, WorthMonotone
      <4>4. Worth(c, reps, f, n) \in BOOLEAN /\ Worth(c, reps, g, n) \in BOOLEAN
        BY DEF Worth
      <4> QED BY <4>2, <4>3, <4>4
    <3>4. g[n] = Worth(c, reps, f, n)
      <4>1. CASE n = m
        BY <2>6, <4>1
      <4>2. CASE n # m
        <5>1. n > N - k
          <6> HIDE DEF g, N
          <6> QED BY <1>1, <3>1, <4>2
        <5>2. g[n] = f[n]
          BY <2>6, <4>2
        <5> HIDE DEF g
        <5> QED BY <2>1, <5>1, <5>2
      <4> QED BY <4>1, <4>2
    <3> QED BY <3>3, <3>4
  <2> HIDE DEF g
  <2> QED BY <2>4, <2>5
<1>4. \A m \in Nat : m \in S
  <2> HIDE DEF Good
  <2>1. 0 \in S /\ \A m \in Nat : m \in S => m + 1 \in S
    BY <1>2, <1>3
  <2> HIDE DEF S
  <2> QED BY <2>1, InductionOnNat
<1>5. Good(N)
  <2>1. N \in S
    BY <1>1, <1>4
  <2> HIDE DEF Good
  <2> QED BY <2>1
<1>6. PICK f \in [1..N -> BOOLEAN] : \A n \in 1..N : n > N - N => f[n] = Worth(c, reps, f, n)
  BY <1>1, <1>5
<1>7. f = [n \in DOMAIN c |-> Worth(c, reps, f, n)]
  <2>1. \A n \in 1..N : f[n] = Worth(c, reps, f, n)
    BY <1>1, <1>6
  <2> QED BY <1>1, <2>1
<1> QED BY <1>7, MetIsWorth

\* What is met stays met when more have voted.
LEMMA MetMonotone ==
  ASSUME NEW c, IsListing(c), NEW reps, NEW more, reps \subseteq more,
         NEW f, IsMet(c, reps, f), NEW g, IsMet(c, more, g)
  PROVE  f[1] => g[1]
<1> DEFINE N == Len(c)
           Good(k) == \A n \in 1..N : n > N - k => (f[n] => g[n])
           S == {k \in Nat : Good(k)}
<1>1. N \in Nat /\ N >= 1 /\ DOMAIN c = 1..N
  BY ListingFacts
<1>2. /\ \A n \in 1..N : f[n] = Worth(c, reps, f, n)
      /\ \A n \in 1..N : g[n] = Worth(c, more, g, n)
  <2>1. /\ f = [n \in 1..N |-> Worth(c, reps, f, n)]
        /\ g = [n \in 1..N |-> Worth(c, more, g, n)]
    BY <1>1, MetIsWorth
  <2> QED BY <2>1
<1>3. Good(0)
  BY <1>1
<1>4. ASSUME NEW k \in Nat, Good(k) PROVE Good(k + 1)
  <2> SUFFICES ASSUME NEW n \in 1..N, n > N - (k + 1), f[n] PROVE g[n]
    OBVIOUS
  <2>1. \A m \in (n + 1)..Len(c) : f[m] => g[m]
    BY <1>1, <1>4
  <2>2. Worth(c, reps, f, n)
    BY <1>2
  <2>3. Worth(c, more, g, n)
    BY <2>1, <2>2, WorthMonotone
  <2> QED BY <1>2, <2>3
<1>5. \A m \in Nat : m \in S
  <2>1. 0 \in S /\ \A m \in Nat : m \in S => m + 1 \in S
    BY <1>3, <1>4
  <2> HIDE DEF S
  <2> QED BY <2>1, InductionOnNat
<1>6. Good(N)
  <2>1. N \in S
    BY <1>1, <1>5
  <2> HIDE DEF Good
  <2> QED BY <2>1
<1> QED BY <1>1, <1>6

\* A quorum stays one, whoever votes after it: evalFomula (quorums.cpp) of every
\* configuration accepts all groups that contain one it accepts.
THEOREM QuorumsGrow ==
  ASSUME NEW c, IsListing(c), NEW reps, NEW more, reps \subseteq more,
         evalFomula(from_json(c), reps)
  PROVE  evalFomula(from_json(c), more)
<1> DEFINE x == CHOOSE f : IsMet(c, reps, f)
           y == CHOOSE f : IsMet(c, more, f)
<1>1. IsMet(c, reps, x) /\ IsMet(c, more, y)
  <2>1. (\E f : IsMet(c, reps, f)) /\ (\E f : IsMet(c, more, f))
    BY MetExists
  <2> QED BY <2>1
<1>2. (Satisfied(c, reps) <=> x[1]) /\ (Satisfied(c, more) <=> y[1])
  BY DEF Satisfied, IsMet
<1> HIDE DEF x, y
<1>3. x[1] => y[1]
  BY <1>1, MetMonotone
<1> QED BY <1>2, <1>3, EvalIsSatisfied

-----------------------------------------------------------------------------
(* The build without generalized quorums: k of n replicas. *)

LEMMA ThresholdListing ==
  ASSUME NEW n \in Nat, n >= 1, 1..n \subseteq Replicas, NEW k \in Nat, k >= 1
  PROVE  IsListing(ThresholdConf(k, n))
<1> DEFINE c   == ThresholdConf(k, n)
           out == [i \in 1..n |-> [id |-> i]]
           F   == [select : Nat \ {0}, outOf : Seq(Members) \ {<< >>}]
<1>1. c = <<[select |-> k, outOf |-> out]>>
  BY DEF ThresholdConf
<1>2. out \in Seq(Members) /\ out # << >>
  <2>1. \A i \in 1..n : [id |-> i] \in Members
    BY DEF Members
  <2>2. out \in [1..n -> Members]
    BY <2>1
  <2>3. out \in Seq(Members) /\ Len(out) = n
    BY <2>2
  <2> HIDE DEF out
  <2> QED BY <2>3
<1>3. \A i \in DOMAIN out : ~IsNested(out[i])
  <2>1. \A i \in 1..n : out[i] = [id |-> i] /\ DOMAIN out[i] = {"id"}
    OBVIOUS
  <2> QED BY <2>1 DEF IsNested
<1> HIDE DEF out
<1>4. [select |-> k, outOf |-> out] \in F
  BY <1>2
<1>5. c \in Seq(F) /\ c # << >> /\ Len(c) = 1 /\ DOMAIN c = {1} /\ c[1].outOf = out
  <2> HIDE DEF F
  <2> QED BY <1>1, <1>4
<1> HIDE DEF c
<1>6. \A i \in DOMAIN c : \A j \in DOMAIN c[i].outOf : ~IsNested(c[i].outOf[j])
  BY <1>3, <1>5
<1>7. 2..Len(c) = {}
  BY <1>5
<1>8. IsListing(c)
  BY <1>5, <1>6, <1>7 DEF IsListing
<1> QED BY <1>8 DEF c

LEMMA ThresholdEval ==
  ASSUME NEW n \in Nat, n >= 1, 1..n \subseteq Replicas, NEW k \in Nat, k >= 1, NEW reps
  PROVE  evalFomula(from_json(ThresholdConf(k, n)), reps) <=> Cardinality(reps \cap (1..n)) >= k
<1> DEFINE c == ThresholdConf(k, n)
           x == CHOOSE f : IsMet(c, reps, f)
<1>1. IsListing(c)
  BY ThresholdListing
<1>2. DOMAIN c = {1} /\ c[1].select = k /\ DOMAIN c[1].outOf = 1..n
      /\ \A i \in 1..n : c[1].outOf[i].id = i /\ ~IsNested(c[1].outOf[i])
  BY DEF ThresholdConf, IsNested
<1>3. IsMet(c, reps, x)
  <2>1. \E f : IsMet(c, reps, f)
    BY <1>1, MetExists
  <2> QED BY <2>1
<1>4. Satisfied(c, reps) <=> x[1]
  BY DEF Satisfied, IsMet
<1>5. evalFomula(from_json(c), reps) <=> Satisfied(c, reps)
  BY <1>1, EvalIsSatisfied
<1> HIDE DEF c, x
<1>6. x[1] = Worth(c, reps, x, 1)
  BY <1>2, <1>3, MetIsWorth
<1>7. {i \in DOMAIN c[1].outOf : IF IsNested(c[1].outOf[i]) THEN x[c[1].outOf[i].formula]
                                 ELSE c[1].outOf[i].id \in reps} = reps \cap (1..n)
  BY <1>2
<1>8. Worth(c, reps, x, 1) <=> Cardinality(reps \cap (1..n)) >= k
  BY <1>2, <1>7 DEF Worth
<1> QED BY <1>4, <1>5, <1>6, <1>8 DEF c

\* Two groups of replicas that are quorums, or that can make a certificate, have
\* more replicas in common than may be faulty.
LEMMA ThresholdCount ==
  ASSUME NEW n \in Nat, n >= 1,
         NEW k \in {QuorumSize(n), KeyThreshold(n)}, NEW l \in {QuorumSize(n), KeyThreshold(n)}
  PROVE  /\ (n - 1) \div 3 \in Nat /\ k \in Nat /\ k >= 1 /\ l \in Nat /\ l >= 1
         /\ k + l - n > (n - 1) \div 3
<1> DEFINE f == (n - 1) \div 3
           g == n \div 3
<1>1. f \in Int /\ 3 * f <= n - 1 /\ n - 1 < 3 * f + 3
  OBVIOUS
<1>2. g \in Int /\ 3 * g <= n /\ n < 3 * g + 3
  OBVIOUS
<1>3. k \in {n - f, n - g} /\ l \in {n - f, n - g}
  BY DEF QuorumSize, KeyThreshold
<1> HIDE DEF f, g
<1>4. f \in Nat /\ k \in Nat /\ k >= 1 /\ l \in Nat /\ l >= 1 /\ k + l - n > f
  BY <1>1, <1>2, <1>3
<1> QED BY <1>4 DEF f

\* Any two quorums of n replicas, and also the groups that the key generator lets
\* make a certificate although they may be one replica short of a quorum (n - n / 3
\* against n - (n - 1) / 3), have a correct replica in common when at most a third
\* less one of the n are faulty: what the safety of the voting rule rests on.
THEOREM ThresholdQuorumsMeet ==
  ASSUME NEW n \in Nat, n >= 1, 1..n \subseteq Replicas,
         NEW k \in {QuorumSize(n), KeyThreshold(n)}, NEW l \in {QuorumSize(n), KeyThreshold(n)},
         NEW A, evalFomula(from_json(ThresholdConf(k, n)), A),
         NEW B, evalFomula(from_json(ThresholdConf(l, n)), B),
         NEW Faulty, IsFiniteSet(Faulty), Cardinality(Faulty) <= (n - 1) \div 3
  PROVE  \E q \in 1..n : q \in A /\ q \in B /\ q \notin Faulty
<1> DEFINE f == (n - 1) \div 3
           N == 1..n
           X == A \cap N
           Y == B \cap N
<1>1. f \in Nat /\ k \in Nat /\ k >= 1 /\ l \in Nat /\ l >= 1 /\ k + l - n > f
  BY ThresholdCount
<1>2. Cardinality(X) >= k /\ Cardinality(Y) >= l
  BY <1>1, ThresholdEval
<1>3. IsFiniteSet(N) /\ Cardinality(N) = n
  <2>1. IsFiniteSet(1..n) /\ Cardinality(1..n) = IF 1 > n THEN 0 ELSE n - 1 + 1
    BY FS_Interval
  <2> QED BY <2>1
<1> DEFINE Both == X \cap Y
           All  == X \cup Y
<1>4. X \subseteq N /\ Y \subseteq N /\ All \subseteq N /\ Both \subseteq N
  OBVIOUS
<1>5. Cardinality(All) = Cardinality(X) + Cardinality(Y) - Cardinality(Both)
  <2>1. IsFiniteSet(X) /\ IsFiniteSet(Y)
    BY <1>3, <1>4, FS_Subset
  <2> HIDE DEF X, Y
  <2> QED BY <2>1, FS_Union
<1> HIDE DEF f, N, X, Y, All, Both
<1>6. IsFiniteSet(All) /\ Cardinality(All) <= n /\ IsFiniteSet(X) /\ IsFiniteSet(Y) /\ IsFiniteSet(Both)
  BY <1>3, <1>4, FS_Subset
<1>7. Cardinality(All) \in Nat /\ Cardinality(X) \in Nat /\ Cardinality(Y) \in Nat
      /\ Cardinality(Both) \in Nat /\ Cardinality(Faulty) \in Nat
  BY <1>6, FS_CardinalityType
<1>8. Cardinality(Both) > f
  BY <1>1, <1>2, <1>5, <1>6, <1>7
<1>9. ~(Both \subseteq Faulty)
  <2> SUFFICES ASSUME Both \subseteq Faulty PROVE FALSE
    OBVIOUS
  <2>1. Cardinality(Both) <= Cardinality(Faulty)
    BY FS_Subset
  <2>2. Cardinality(Faulty) <= f
    BY DEF f
  <2> QED BY <1>1, <1>7, <1>8, <2>1, <2>2
<1> QED BY <1>9 DEF Both, X, Y, N

-----------------------------------------------------------------------------
(* Sums of products. *)

LEMMA IntTimes ==
  ASSUME NEW a \in Int, NEW b \in Int, NEW c \in Int
  PROVE  /\ a * b \in Int /\ a * b = b * a /\ (a + b) * c = a * c + b * c
         /\ a * (b + c) = a * b + a * c /\ (a * b) * c = a * (b * c)
OBVIOUS

LEMMA TotalAdd ==
  ASSUME NEW n \in Nat, NEW f, NEW g, NEW h,
         \A i \in 1..n : f[i] \in Int /\ g[i] \in Int /\ h[i] = f[i] + g[i]
  PROVE  Total(h, n) = Total(f, n) + Total(g, n)
<1> DEFINE S == {i \in Nat : i \in 0..n => Total(h, i) = Total(f, i) + Total(g, i)}
<1>1. 0 \in S
  BY TotalStep
<1>2. ASSUME NEW i \in Nat, i \in S PROVE i + 1 \in S
  <2> SUFFICES ASSUME i + 1 \in 0..n
               PROVE  Total(h, i + 1) = Total(f, i + 1) + Total(g, i + 1)
    OBVIOUS
  <2>1. i \in 0..n /\ i + 1 \in 1..n
    OBVIOUS
  <2>2. Total(f, i) \in Int /\ Total(g, i) \in Int /\ Total(h, i) = Total(f, i) + Total(g, i)
    BY <1>2, <2>1, TotalInt
  <2>3. /\ Total(f, i + 1) = Total(f, i) + f[i + 1]
        /\ Total(g, i + 1) = Total(g, i) + g[i + 1]
        /\ Total(h, i + 1) = Total(h, i) + h[i + 1]
    BY TotalStep
  <2> QED BY <2>1, <2>2, <2>3
<1> HIDE DEF S
<1>3. \A i \in Nat : i \in S
  BY <1>1, <1>2, InductionOnNat
<1> QED BY <1>3 DEF S

LEMMA TotalScale ==
  ASSUME NEW n \in Nat, NEW f, NEW h, NEW c \in Int,
         \A i \in 1..n : f[i] \in Int /\ h[i] = c * f[i]
  PROVE  Total(h, n) = c * Total(f, n)
<1> DEFINE S == {i \in Nat : i \in 0..n => Total(h, i) = c * Total(f, i)}
<1>1. 0 \in S
  <2>1. Total(h, 0) = 0 /\ Total(f, 0) = 0
    BY TotalStep
  <2> QED BY <2>1
<1>2. ASSUME NEW i \in Nat, i \in S PROVE i + 1 \in S
  <2> SUFFICES ASSUME i + 1 \in 0..n
               PROVE  Total(h, i + 1) = c * Total(f, i + 1)
    OBVIOUS
  <2>1. i \in 0..n /\ i + 1 \in 1..n
    OBVIOUS
  <2> DEFINE a == Total(f, i)
             b == f[i + 1]
  <2>2. a \in Int /\ b \in Int /\ Total(h, i) = c * a /\ h[i + 1] = c * b
    BY <1>2, <2>1, TotalInt
  <2>3. Total(f, i + 1) = a + b /\ Total(h, i + 1) = Total(h, i) + h[i + 1]
    BY TotalStep
  <2> HIDE DEF a, b
  <2>4. c * (a + b) = c * a + c * b
    BY <2>2, IntTimes
  <2> QED BY <2>2, <2>3, <2>4
<1> HIDE DEF S
<1>3. \A i \in Nat : i \in S
  BY <1>1, <1>2, InductionOnNat
<1> QED BY <1>3 DEF S

LEMMA TotalCongruent ==
  ASSUME NEW n \in Nat, NEW f, NEW g,
         \A i \in 1..n : f[i] \in Int /\ g[i] \in Int /\ Congruent(f[i], g[i])
  PROVE  Congruent(Total(f, n), Total(g, n))
<1> DEFINE S == {i \in Nat : i \in 0..n => Congruent(Total(f, i), Total(g, i))}
<1>1. 0 \in S
  <2>1. Total(f, 0) = 0 /\ Total(g, 0) = 0 /\ Congruent(0, 0)
    BY TotalStep, CongruentRefl
  <2> QED BY <2>1
<1>2. ASSUME NEW i \in Nat, i \in S PROVE i + 1 \in S
  <2> SUFFICES ASSUME i + 1 \in 0..n
               PROVE  Congruent(Total(f, i + 1), Total(g, i + 1))
    OBVIOUS
  <2>1. i \in 0..n /\ i + 1 \in 1..n
    OBVIOUS
  <2>2. Total(f, i) \in Int /\ Total(g, i) \in Int /\ Congruent(Total(f, i), Total(g, i))
    BY <1>2, <2>1, TotalInt
  <2>3. Total(f, i + 1) = Total(f, i) + f[i + 1] /\ Total(g, i + 1) = Total(g, i) + g[i + 1]
    BY TotalStep
  <2>4. f[i + 1] \in Int /\ g[i + 1] \in Int /\ Congruent(f[i + 1], g[i + 1])
    BY <2>1
  <2>5. Congruent(Total(f, i) + f[i + 1], Total(g, i) + g[i + 1])
    BY <2>2, <2>4, CongruentAdd
  <2> QED BY <2>3, <2>5
<1> HIDE DEF S
<1>3. \A i \in Nat : i \in S
  BY <1>1, <1>2, InductionOnNat
<1> QED BY <1>3 DEF S

\* The product of two vectors, not yet taken modulo P.
Products(u, v, n) == [i \in 1..n |-> u[i] * v[i]]

Pair(u, v, n) == Total(Products(u, v, n), n)

LEMMA PairFacts ==
  ASSUME NEW n \in Nat, NEW u, NEW v, \A i \in 1..n : u[i] \in Int /\ v[i] \in Int
  PROVE  /\ \A i \in 1..n : Products(u, v, n)[i] = u[i] * v[i] /\ Products(u, v, n)[i] \in Int
         /\ \A i \in 0..n : Total(Products(u, v, n), i) \in Int
         /\ Pair(u, v, n) \in Int /\ Pair(u, v, n) = Pair(v, u, n)
<1> DEFINE f == Products(u, v, n)
<1>1. \A i \in 1..n : f[i] = u[i] * v[i] /\ u[i] * v[i] \in Int /\ u[i] * v[i] = v[i] * u[i]
  BY IntTimes DEF Products
<1>2. Products(u, v, n) = Products(v, u, n)
  BY <1>1 DEF Products
<1> HIDE DEF f
<1>3. \A i \in 0..n : Total(f, i) \in Int
  BY <1>1, TotalInt
<1> QED BY <1>1, <1>2, <1>3 DEF Pair, f

LEMMA PairCongruent ==
  ASSUME NEW n \in Nat, NEW u, NEW v, NEW w,
         \A i \in 1..n : u[i] \in Int /\ v[i] \in Int /\ w[i] \in Int /\ Congruent(v[i], w[i])
  PROVE  Congruent(Pair(u, v, n), Pair(u, w, n)) /\ Congruent(Pair(v, u, n), Pair(w, u, n))
<1>1. ASSUME NEW i \in 1..n
      PROVE  /\ Products(u, v, n)[i] \in Int /\ Products(u, w, n)[i] \in Int
             /\ Congruent(Products(u, v, n)[i], Products(u, w, n)[i])
  <2>1. Products(u, v, n)[i] = u[i] * v[i] /\ Products(u, w, n)[i] = u[i] * w[i]
    BY DEF Products
  <2>2. Congruent(u[i] * v[i], u[i] * w[i])
    BY CongruentTimes
  <2>3. u[i] * v[i] \in Int /\ u[i] * w[i] \in Int
    BY IntTimes
  <2> QED BY <2>1, <2>2, <2>3
<1>2. Congruent(Pair(u, v, n), Pair(u, w, n))
  BY <1>1, TotalCongruent DEF Pair
<1>3. Pair(u, v, n) = Pair(v, u, n) /\ Pair(u, w, n) = Pair(w, u, n)
  BY PairFacts
<1> QED BY <1>2, <1>3

\* Sums over rows and columns can be exchanged: u is x times the matrix, w the
\* matrix times z.
Exchanges(x, Y, z, r) ==
  \A m \in Nat :
    (\A j \in 1..m : z[j] \in Int /\ \A q \in 1..r : Y[q][j] \in Int) =>
       \A u, w : (/\ \A j \in 1..m : u[j] = Total([q \in 1..r |-> x[q] * Y[q][j]], r)
                  /\ \A q \in 1..r : w[q] = Pair(Y[q], z, m))
                 => Pair(u, z, m) = Pair(x, w, r)

LEMMA PairExchange ==
  ASSUME NEW r \in Nat, NEW x, \A q \in 1..r : x[q] \in Int, NEW Y, NEW z
  PROVE  Exchanges(x, Y, z, r)
<1> DEFINE Ok(m) == \A j \in 1..m : z[j] \in Int /\ \A q \in 1..r : Y[q][j] \in Int
           U(j)  == Total([q \in 1..r |-> x[q] * Y[q][j]], r)
           uu(m) == [j \in 1..m |-> U(j)]
           ww(m) == [q \in 1..r |-> Pair(Y[q], z, m)]
           S == {m \in Nat : Ok(m) => Pair(uu(m), z, m) = Pair(x, ww(m), r)}
<1>1. 0 \in S
  <2>1. Pair(uu(0), z, 0) = 0
    BY TotalStep DEF Pair
  <2>2. \A q \in 1..r : ww(0)[q] = 0
    BY TotalStep DEF Pair
  <2> HIDE DEF ww
  <2>3. \A q \in 1..r : Products(x, ww(0), r)[q] = 0
    BY <2>2 DEF Products
  <2>4. Total(Products(x, ww(0), r), 0) = 0
    BY TotalStep
  <2>5. Total(Products(x, ww(0), r), r) = Total(Products(x, ww(0), r), 0)
    BY <2>3, <2>4, TotalZeros
  <2> QED BY <2>1, <2>4, <2>5 DEF Pair
<1>2. ASSUME NEW m \in Nat, m \in S PROVE m + 1 \in S
  <2> SUFFICES ASSUME Ok(m + 1)
               PROVE  Pair(uu(m + 1), z, m + 1) = Pair(x, ww(m + 1), r)
    OBVIOUS
  <2> DEFINE k == m + 1
             X == [q \in 1..r |-> x[q] * Y[q][k]]
  <2>1. Ok(m) /\ k \in 1..k /\ k \in Nat
    OBVIOUS
  <2>2. Pair(uu(m), z, m) = Pair(x, ww(m), r)
    BY <1>2, <2>1
  <2>3. \A q \in 1..r : /\ Y[q][k] \in Int /\ x[q] * Y[q][k] \in Int
                        /\ X[q] = x[q] * Y[q][k]
    BY <2>1, IntTimes
  <2>4. U(k) = Total(X, r) /\ U(k) \in Int /\ z[k] \in Int
    <3>1. z[k] \in Int
      BY <2>1
    <3>2. \A q \in 1..r : X[q] \in Int
      BY <2>3
    <3> HIDE DEF X
    <3>3. \A i \in 0..r : Total(X, i) \in Int
      BY <3>2, TotalInt
    <3> QED BY <3>1, <3>3 DEF X
  <2>5. \A q \in 1..r : ww(m)[q] \in Int /\ ww(k)[q] = ww(m)[q] + Y[q][k] * z[k]
    <3> SUFFICES ASSUME NEW q \in 1..r
                 PROVE  Pair(Y[q], z, m) \in Int /\ Pair(Y[q], z, k) = Pair(Y[q], z, m) + Y[q][k] * z[k]
      OBVIOUS
    <3>1. Pair(Y[q], z, m) \in Int
      BY <2>1, PairFacts
    <3>2. Total(Products(Y[q], z, k), m) = Total(Products(Y[q], z, m), m)
      <4>1. \A j \in 1..m : Products(Y[q], z, k)[j] = Products(Y[q], z, m)[j]
        BY DEF Products
      <4> QED BY <4>1, TotalEqual
    <3>3. Total(Products(Y[q], z, k), k) = Total(Products(Y[q], z, k), m) + Products(Y[q], z, k)[k]
      BY TotalStep
    <3>4. Products(Y[q], z, k)[k] = Y[q][k] * z[k]
      BY <2>1 DEF Products
    <3> QED BY <3>1, <3>2, <3>3, <3>4 DEF Pair
  <2>6. Pair(uu(k), z, k) = Pair(uu(m), z, m) + U(k) * z[k]
    <3>1. Total(Products(uu(k), z, k), m) = Total(Products(uu(m), z, m), m)
      <4>1. \A j \in 1..m : Products(uu(k), z, k)[j] = Products(uu(m), z, m)[j]
        BY DEF Products
      <4> QED BY <4>1, TotalEqual
    <3>2. Total(Products(uu(k), z, k), k) = Total(Products(uu(k), z, k), m) + Products(uu(k), z, k)[k]
      BY TotalStep
    <3>3. Products(uu(k), z, k)[k] = U(k) * z[k]
      BY <2>1 DEF Products
    <3> QED BY <3>1, <3>2, <3>3 DEF Pair
  <2> DEFINE f == Products(x, ww(m), r)
             g == [q \in 1..r |-> z[k] * X[q]]
             h == Products(x, ww(k), r)
  <2>7. \A q \in 1..r : f[q] \in Int /\ g[q] \in Int /\ h[q] = f[q] + g[q]
    <3> SUFFICES ASSUME NEW q \in 1..r
                 PROVE  f[q] \in Int /\ g[q] \in Int /\ h[q] = f[q] + g[q]
      OBVIOUS
    <3> DEFINE a == x[q]
               b == ww(m)[q]
               c == Y[q][k]
               d == z[k]
    <3>1. a \in Int /\ b \in Int /\ c \in Int /\ d \in Int /\ ww(k)[q] = b + c * d
      BY <2>3, <2>4, <2>5
    <3>2. f[q] = a * b /\ g[q] = d * (a * c) /\ h[q] = a * ww(k)[q]
      <4> HIDE DEF ww
      <4> QED BY <2>3 DEF Products
    <3> HIDE DEF a, b, c, d, f, g, h, ww
    <3>3. c * d \in Int /\ a * c \in Int /\ a * b \in Int
      BY <3>1, IntTimes
    <3>4. a * (b + c * d) = a * b + a * (c * d)
      BY <3>1, <3>3, IntTimes
    <3>5. (a * c) * d = a * (c * d) /\ (a * c) * d = d * (a * c) /\ d * (a * c) \in Int
      BY <3>1, <3>3, IntTimes
    <3> QED BY <3>1, <3>2, <3>3, <3>4, <3>5
  <2>8. Total(h, r) = Total(f, r) + Total(g, r)
    <3> HIDE DEF f, g, h
    <3> QED BY <2>7, TotalAdd
  <2>9. Total(g, r) = z[k] * Total(X, r)
    <3>1. \A q \in 1..r : X[q] \in Int /\ g[q] = z[k] * X[q]
      BY <2>3
    <3> HIDE DEF g, X
    <3> QED BY <2>4, <3>1, TotalScale
  <2>10. U(k) * z[k] = z[k] * Total(X, r)
    <3> HIDE DEF U, X
    <3> QED BY <2>4, IntTimes
  <2> HIDE DEF f, g, h, U, uu, ww, X
  <2>11. Pair(x, ww(k), r) = Total(h, r) /\ Pair(x, ww(m), r) = Total(f, r)
    BY DEF Pair, f, h
  <2>12. Pair(uu(k), z, k) = Pair(x, ww(k), r)
    BY <2>2, <2>6, <2>8, <2>9, <2>10, <2>11
  <2> QED BY <2>12
<1>3. \A m \in Nat : m \in S
  <2> HIDE DEF S
  <2> QED BY <1>1, <1>2, InductionOnNat
<1>4. ASSUME NEW m \in Nat, Ok(m), NEW u, NEW w,
             \A j \in 1..m : u[j] = U(j), \A q \in 1..r : w[q] = Pair(Y[q], z, m)
      PROVE  Pair(u, z, m) = Pair(x, w, r)
  <2>1. Pair(uu(m), z, m) = Pair(x, ww(m), r)
    BY <1>3, <1>4
  <2>2. Products(u, z, m) = Products(uu(m), z, m)
    BY <1>4 DEF Products
  <2>3. Products(x, w, r) = Products(x, ww(m), r)
    BY <1>4 DEF Products
  <2> HIDE DEF uu, ww
  <2> QED BY <2>1, <2>2, <2>3 DEF Pair
<1> QED BY <1>4 DEF Exchanges

-----------------------------------------------------------------------------
(* The echelon form. *)

\* U after the first k of its columns, with pivots in the columns p.
IsEchelon(U, n, k, p) ==
  /\ p \in Seq(1..k) /\ Len(p) <= n
  /\ \A a, b \in 1..Len(p) : a < b => p[a] < p[b]
  /\ \A a \in 1..Len(p) : U[a][p[a]] # 0 /\ \A j \in 1..(p[a] - 1) : U[a][j] = 0
  /\ \A i \in (Len(p) + 1)..n, j \in 1..k : U[i][j] = 0

\* Every row of the identity is a row of Q.
IsPermuted(Q, n) == \A q \in 1..n : \E i \in 1..n : Q[i] = Identity(n)[q]

LEMMA SwapRows ==
  ASSUME NEW n \in Nat, NEW m \in Nat, NEW U \in Matrix(n, m), NEW a \in 1..n, NEW b \in 1..n
  PROVE  /\ Swap(U, a, b) \in Matrix(n, m)
         /\ \A i \in 1..n : Swap(U, a, b)[i] = U[Other(a, b, i)]
         /\ Swap(U, a, b)[b] = U[a]
<1>1. /\ \A z : DOMAIN z = 1..n => Swap(z, a, b) = [q \in 1..n |-> z[Other(a, b, q)]]
      /\ \A q \in 1..n : Other(a, b, q) \in 1..n
  BY SwapFacts
<1>2. DOMAIN U = 1..n
  BY MatrixRows
<1>3. Swap(U, a, b) = [q \in 1..n |-> U[Other(a, b, q)]]
  BY <1>1, <1>2
<1>4. Swap(U, a, b) \in Matrix(n, m)
  BY <1>1, <1>3 DEF Matrix
<1>5. Other(a, b, b) = a
  BY DEF Other
<1> QED BY <1>3, <1>4, <1>5

\* What is cleared stays, and column k is cleared too.
LEMMA ClearedFacts ==
  ASSUME NEW n \in Nat, NEW m \in Nat, NEW U \in Matrix(n, m), NEW r \in 1..n, NEW k \in 1..m,
         U[r][k] # 0, NEW V, V = Cleared(U, n, m, r, Factors(U, n, r, k))
  PROVE  /\ \A i \in 1..n : i <= r => V[i] = U[i]
         /\ \A i \in 1..n : i > r => V[i][k] = 0
         /\ \A i \in 1..n, j \in 1..m : U[i][j] = 0 /\ U[r][j] = 0 => V[i][j] = 0
<1> DEFINE f == Factors(U, n, r, k)
<1>1. /\ InvMod(U[r][k]) \in Field /\ InvMod(U[r][k]) \in Int
      /\ \A i \in 1..n : f[i] = (U[i][k] * InvMod(U[r][k])) % P /\ f[i] \in Field
  BY FactorsInField
<1> HIDE DEF f
<1>2. V = [i \in 1..n |-> [j \in 1..m |->
            IF i <= r THEN U[i][j] ELSE (U[i][j] + U[r][j] * Negative(f[i])) % P]]
  BY DEF Cleared, f
<1>3. /\ \A i \in 1..n : U[i] = [j \in 1..m |-> U[i][j]]
      /\ \A i \in 1..n, j \in 1..m : U[i][j] \in Field /\ U[i][j] \in Int
  BY MatrixRows
<1>4. \A i \in 1..n : Negative(f[i]) \in Int /\ Congruent(Negative(f[i]), -f[i]) /\ f[i] \in Int
  BY <1>1, NegativeFacts, ModulusFacts
<1>5. ASSUME NEW i \in 1..n, i <= r PROVE V[i] = U[i]
  <2>1. V[i] = [j \in 1..m |-> U[i][j]]
    BY <1>2, <1>5
  <2> QED BY <1>3, <2>1
<1>6. \A i \in 1..n, j \in 1..m : i > r =>
        V[i][j] = (U[i][j] + U[r][j] * Negative(f[i])) % P
  BY <1>2
<1>7. 0 % P = 0
  BY ModulusFacts, ModOfField
<1>8. ASSUME NEW i \in 1..n, i > r PROVE V[i][k] = 0
  <2> DEFINE a == U[i][k]
             b == U[r][k]
             c == InvMod(b)
             g == f[i]
             h == Negative(g)
  <2>1. a \in Int /\ b \in Int /\ b \in Field /\ c \in Int /\ g \in Int /\ h \in Int
        /\ Congruent(h, -g) /\ g = (a * c) % P /\ Congruent(b * c, 1)
    BY <1>1, <1>3, <1>4, InverseFacts
  <2>2. V[i][k] = (a + b * h) % P
    BY <1>6, <1>8
  <2> HIDE DEF a, b, c, g, h
  <2>3. a * c \in Int /\ b * c \in Int /\ b * h \in Int /\ b * (-g) \in Int /\ -g \in Int
        /\ a * (b * c) \in Int /\ b * (a * c) \in Int /\ b * g \in Int /\ a * 1 = a
    BY <2>1, IntTimes
  <2>4. Congruent(g, a * c)
    BY <2>1, <2>3, ModInField
  <2>5. Congruent(b * g, b * (a * c)) /\ Congruent(a * (b * c), a * 1)
    <3> DEFINE u == a * c
               v == b * c
    <3>1. u \in Int /\ v \in Int /\ Congruent(g, u) /\ Congruent(v, 1) /\ 1 \in Int
      BY <2>1, <2>3, <2>4
    <3> HIDE DEF u, v
    <3>2. Congruent(b * g, b * u) /\ Congruent(a * v, a * 1)
      BY <2>1, <3>1, CongruentTimes
    <3> QED BY <3>2 DEF u, v
  <2>6. b * (a * c) = a * (b * c)
    BY <2>1
  <2>7. Congruent(b * g, a)
    BY <2>1, <2>3, <2>5, <2>6, CongruentTrans
  <2>8. Congruent(b * h, b * (-g))
    BY <2>1, <2>3, CongruentTimes
  <2>9. b * (-g) = -(b * g)
    BY <2>1
  <2>10. Congruent(a + b * h, a + b * (-g))
    BY <2>1, <2>3, <2>8, CongruentAdd, CongruentRefl
  <2>11. Congruent(a, b * g)
    BY <2>1, <2>3, <2>7, CongruentSym
  <2>12. Congruent(a + b * (-g), b * g + b * (-g))
    BY <2>1, <2>3, <2>11, CongruentAdd, CongruentRefl
  <2>13. b * g + b * (-g) = 0
    BY <2>3, <2>9
  <2>14. Congruent(a + b * h, 0)
    <3>1. a + b * h \in Int /\ a + b * (-g) \in Int /\ 0 \in Int
      BY <2>1, <2>3
    <3> QED BY <2>10, <2>12, <2>13, <3>1, CongruentTrans
  <2>15. (a + b * h) % P = 0 % P
    <3>1. a + b * h \in Int /\ 0 \in Int
      BY <2>1, <2>3
    <3> QED BY <2>14, <3>1, CongruentMod
  <2> QED BY <1>7, <2>2, <2>15
<1>9. ASSUME NEW i \in 1..n, NEW j \in 1..m, U[i][j] = 0, U[r][j] = 0 PROVE V[i][j] = 0
  <2>1. CASE i <= r
    BY <1>5, <1>9, <2>1
  <2>2. CASE i > r
    <3>1. V[i][j] = (0 + 0 * Negative(f[i])) % P
      BY <1>6, <1>9, <2>2
    <3>2. 0 + 0 * Negative(f[i]) = 0
      BY <1>4
    <3> QED BY <1>7, <3>1, <3>2
  <2> QED BY <2>1, <2>2
<1> QED BY <1>5, <1>8, <1>9

\* Column k has no pivot, or has its first one in row pos.
IsIdle(s, t, n, k) == t = s /\ \A i \in (Len(s.pivots) + 1)..n : s.M[i][k] = 0

IsPivot(s, t, n, m, k, pos) ==
  LET row == Len(s.pivots) + 1
  IN  /\ s.M[pos][k] # 0
      /\ \A i \in row..n : s.M[i][k] # 0 => pos <= i
      /\ t.M = Cleared(Swap(s.M, pos, row), n, m, row, Factors(Swap(s.M, pos, row), n, row, k))
      /\ t.Perm = Swap(s.Perm, pos, row)
      /\ t.pivots = Append(s.pivots, k)

LEMMA EliminateSplit ==
  ASSUME NEW n \in Nat, NEW m \in Nat, NEW s \in ElimStates(n, m), NEW k \in 1..m,
         NEW t, t = EliminateColumn(s, k)
  PROVE  IsIdle(s, t, n, k) \/ \E pos \in (Len(s.pivots) + 1)..n : IsPivot(s, t, n, m, k, pos)
BY EliminateFacts DEF IsIdle, IsPivot

LEMMA EchelonStep ==
  ASSUME NEW n \in Nat, NEW m \in Nat, NEW s \in ElimStates(n, m), NEW k \in Nat, k + 1 \in 1..m,
         IsEchelon(s.M, n, k, s.pivots), IsPermuted(s.Perm, n),
         NEW t, t = EliminateColumn(s, k + 1)
  PROVE  IsEchelon(t.M, n, k + 1, t.pivots) /\ IsPermuted(t.Perm, n)
<1> DEFINE l   == Len(s.pivots)
           row == Len(s.pivots) + 1
           c   == k + 1
<1>1. /\ s.M \in Matrix(n, m) /\ s.Perm \in Matrix(n, n)
      /\ s.pivots \in Seq(1..k) /\ l \in Nat /\ l <= n /\ c \in 1..m /\ row \in Nat
  BY DEF ElimStates, IsEchelon
<1>2. IsIdle(s, t, n, c) \/ \E pos \in row..n : IsPivot(s, t, n, m, c, pos)
  <2>1. c \in 1..m /\ t = EliminateColumn(s, c)
    BY <1>1
  <2> HIDE DEF c
  <2> QED BY <2>1, EliminateSplit
<1>3. CASE IsIdle(s, t, n, c)
  <2>0. (\A i \in row..n : s.M[i][c] = 0) /\ t = s
    BY <1>3 DEF IsIdle
  <2>1. s.pivots \in Seq(1..c)
    <3>1. 1..k \subseteq 1..c
      OBVIOUS
    <3> QED BY <1>1, <3>1
  <2>2. \A i \in row..n, j \in 1..c : s.M[i][j] = 0
    <3>1. \A j \in 1..c : j \in 1..k \/ j = c
      OBVIOUS
    <3> QED BY <2>0, <3>1 DEF IsEchelon
  <2>3. IsEchelon(s.M, n, c, s.pivots)
    BY <2>1, <2>2 DEF IsEchelon
  <2> QED BY <2>0, <2>3
<1>4. ASSUME NEW pos \in row..n, IsPivot(s, t, n, m, c, pos)
      PROVE  IsEchelon(t.M, n, c, t.pivots) /\ IsPermuted(t.Perm, n)
  <2> DEFINE U == Swap(s.M, pos, row)
             V == t.M
             p == t.pivots
             o(i) == Other(pos, row, i)
  <2>0. /\ s.M[pos][c] # 0
        /\ t.M = Cleared(Swap(s.M, pos, row), n, m, row, Factors(Swap(s.M, pos, row), n, row, c))
        /\ t.Perm = Swap(s.Perm, pos, row)
        /\ t.pivots = Append(s.pivots, c)
    BY <1>4 DEF IsPivot
  <2>1. pos \in 1..n /\ row \in 1..n /\ l < n
    BY <1>1
  <2>2. /\ U \in Matrix(n, m) /\ \A i \in 1..n : U[i] = s.M[o(i)]
        /\ U[row] = s.M[pos]
    <3> DEFINE W == s.M
    <3>1. W \in Matrix(n, m)
      BY <1>1
    <3> HIDE DEF row, W
    <3>2. /\ Swap(W, pos, row) \in Matrix(n, m)
          /\ \A i \in 1..n : Swap(W, pos, row)[i] = W[Other(pos, row, i)]
          /\ Swap(W, pos, row)[row] = W[pos]
      BY <2>1, <3>1, SwapRows
    <3> QED BY <3>2 DEF W
  <2>3. \A i \in 1..n : /\ o(i) \in 1..n /\ (i >= row => o(i) \in row..n)
                        /\ (i < row => o(i) = i) /\ o(o(i)) = i
    BY <1>1, <2>1 DEF Other
  <2>4. U[row][c] # 0
    BY <2>0, <2>2
  <2>5. /\ \A i \in 1..n : i <= row => V[i] = U[i]
        /\ \A i \in 1..n : i > row => V[i][c] = 0
        /\ \A i \in 1..n, j \in 1..m : U[i][j] = 0 /\ U[row][j] = 0 => V[i][j] = 0
    <3> HIDE DEF row, c, U
    <3>1. /\ U \in Matrix(n, m) /\ row \in 1..n /\ c \in 1..m /\ U[row][c] # 0
          /\ t.M = Cleared(U, n, m, row, Factors(U, n, row, c))
      BY <1>1, <2>0, <2>1, <2>2, <2>4 DEF U
    <3> HIDE DEF V
    <3>2. V = Cleared(U, n, m, row, Factors(U, n, row, c))
      BY <3>1 DEF V
    <3> QED BY <3>1, <3>2, ClearedFacts
  <2>6. \A i \in row..n, j \in 1..k : U[i][j] = 0
    <3>1. \A i \in row..n, j \in 1..k : s.M[i][j] = 0
      BY DEF IsEchelon
    <3> HIDE DEF U, o
    <3>2. \A i \in row..n : i \in 1..n /\ o(i) \in row..n
      BY <1>1, <2>3
    <3> QED BY <2>2, <3>1, <3>2, SMTT(40)
  <2>7. /\ p \in Seq(1..c) /\ Len(p) = row /\ p[row] = c
        /\ \A a \in 1..l : p[a] = s.pivots[a] /\ p[a] \in 1..k
    <3>1. s.pivots \in Seq(1..c)
      <4>1. 1..k \subseteq 1..c
        OBVIOUS
      <4> QED BY <1>1, <4>1
    <3>2. c \in 1..c
      OBVIOUS
    <3> HIDE DEF c
    <3>3. p \in Seq(1..c) /\ Len(p) = row /\ p[row] = c /\ \A a \in 1..l : p[a] = s.pivots[a]
      <4> DEFINE e == s.pivots
      <4>1. e \in Seq(1..c) /\ p = Append(e, c) /\ Len(e) \in Nat
        BY <1>1, <2>0, <3>1
      <4> HIDE DEF e, p
      <4>2. /\ Append(e, c) \in Seq(1..c) /\ Len(Append(e, c)) = Len(e) + 1
            /\ Append(e, c)[Len(e) + 1] = c
            /\ \A a \in 1..Len(e) : Append(e, c)[a] = e[a]
        BY <3>2, <4>1
      <4> QED BY <4>1, <4>2 DEF e
    <3>4. \A a \in 1..l : s.pivots[a] \in 1..k
      BY <1>1
    <3> QED BY <3>3, <3>4
  <2>8. \A a \in 1..row : a \in 1..l \/ a = row
    BY <1>1
  <2>9. \A a, b \in 1..Len(p) : a < b => p[a] < p[b]
    <3> SUFFICES ASSUME NEW a \in 1..row, NEW b \in 1..row, a < b PROVE p[a] < p[b]
      BY <2>7
    <3>1. a \in 1..l
      BY <1>1
    <3>2. CASE b \in 1..l
      <4>1. s.pivots[a] < s.pivots[b]
        BY <3>1, <3>2 DEF IsEchelon
      <4> QED BY <2>7, <3>1, <3>2, <4>1
    <3>3. CASE b = row
      <4>1. p[a] \in 1..k /\ p[b] = k + 1
        BY <2>7, <3>1, <3>3
      <4> QED BY <4>1
    <3> QED BY <2>8, <3>2, <3>3
  <2>10. \A a \in 1..Len(p) : V[a][p[a]] # 0 /\ \A j \in 1..(p[a] - 1) : V[a][j] = 0
    <3> SUFFICES ASSUME NEW a \in 1..row
                 PROVE  V[a][p[a]] # 0 /\ \A j \in 1..(p[a] - 1) : V[a][j] = 0
      BY <2>7
    <3>1. V[a] = U[a] /\ a \in 1..n
      BY <1>1, <2>1, <2>5
    <3>2. CASE a \in 1..l
      <4>1. U[a] = s.M[a]
        <5>1. o(a) = a
          BY <1>1, <2>3, <3>1, <3>2
        <5> QED BY <2>2, <3>1, <5>1
      <4>2. s.M[a][s.pivots[a]] # 0 /\ \A j \in 1..(s.pivots[a] - 1) : s.M[a][j] = 0
        BY <3>2 DEF IsEchelon
      <4>3. p[a] = s.pivots[a]
        BY <2>7, <3>2
      <4> HIDE DEF V, U, p
      <4> QED BY <3>1, <4>1, <4>2, <4>3
    <3>3. CASE a = row
      <4>1. p[a] = c
        BY <2>7, <3>3
      <4>2. \A j \in 1..(c - 1) : U[row][j] = 0
        BY <2>1, <2>6
      <4> HIDE DEF V, U, p, c
      <4> QED BY <2>4, <3>1, <3>3, <4>1, <4>2
    <3> QED BY <2>8, <3>2, <3>3
  <2>11. \A i \in (Len(p) + 1)..n, j \in 1..c : V[i][j] = 0
    <3> SUFFICES ASSUME NEW i \in (row + 1)..n, NEW j \in 1..c PROVE V[i][j] = 0
      BY <2>7
    <3>1. i \in 1..n /\ i > row /\ i \in row..n /\ row \in row..n /\ j \in 1..m
      BY <1>1
    <3>2. CASE j = c
      BY <2>5, <3>1, <3>2
    <3>3. CASE j \in 1..k
      <4>1. U[i][j] = 0 /\ U[row][j] = 0
        BY <2>6, <3>1, <3>3
      <4> HIDE DEF U, V
      <4> QED BY <2>5, <3>1, <4>1
    <3>4. j = c \/ j \in 1..k
      OBVIOUS
    <3> QED BY <3>2, <3>3, <3>4
  <2>12. IsEchelon(V, n, c, p)
    <3>1. Len(p) <= n
      BY <2>1, <2>7
    <3> QED BY <2>7, <2>9, <2>10, <2>11, <3>1 DEF IsEchelon
  <2>13. ASSUME NEW q \in 1..n PROVE \E i \in 1..n : t.Perm[i] = Identity(n)[q]
    <3>1. PICK i \in 1..n : s.Perm[i] = Identity(n)[q]
      BY DEF IsPermuted
    <3>2. \A j \in 1..n : t.Perm[j] = s.Perm[o(j)]
      <4> DEFINE W == s.Perm
      <4>1. W \in Matrix(n, n)
        BY <1>1
      <4> HIDE DEF row, W
      <4>2. \A j \in 1..n : Swap(W, pos, row)[j] = W[Other(pos, row, j)]
        BY <2>1, <4>1, SwapRows
      <4> QED BY <2>0, <4>2 DEF W
    <3>3. o(i) \in 1..n /\ o(o(i)) = i
      BY <2>3
    <3> HIDE DEF o
    <3>4. t.Perm[o(i)] = Identity(n)[q]
      BY <3>1, <3>2, <3>3
    <3> QED BY <3>3, <3>4
  <2> QED BY <2>12, <2>13 DEF IsPermuted
<1> QED BY <1>2, <1>3, <1>4

LEMMA EchelonStates ==
  ASSUME NEW n \in Nat, NEW m \in Nat, NEW A \in Matrix(n, m), NEW s, IsElimination(A, m, s)
  PROVE  \A k \in 0..m : IsEchelon(s[k].M, n, k, s[k].pivots) /\ IsPermuted(s[k].Perm, n)
<1> DEFINE Good(k) == IsEchelon(s[k].M, n, k, s[k].pivots) /\ IsPermuted(s[k].Perm, n)
           S == {k \in Nat : k \in 0..m => Good(k)}
<1>0. Len(A) = n
  BY MatrixRows
<1>1. 0 \in S
  <2>1. s[0] = [M |-> A, Perm |-> Identity(n), L |-> Identity(n), pivots |-> << >>]
    BY <1>0 DEF IsElimination
  <2>2. s[0].M = A /\ s[0].Perm = Identity(n) /\ s[0].pivots = << >>
    BY <2>1
  <2>3. IsEchelon(A, n, 0, << >>)
    BY DEF IsEchelon
  <2>4. IsPermuted(Identity(n), n)
    BY DEF IsPermuted
  <2> QED BY <2>2, <2>3, <2>4
<1>2. ASSUME NEW k \in Nat, k \in S PROVE k + 1 \in S
  <2> SUFFICES ASSUME k + 1 \in 0..m PROVE Good(k + 1)
    OBVIOUS
  <2>1. Good(k)
    BY <1>2
  <2>2. s[k + 1] = EliminateColumn(s[k], k + 1) /\ k + 1 \in 1..m
    BY DEF IsElimination
  <2>3. s[k] \in ElimStates(n, m)
    <3>1. k \in 0..m
      OBVIOUS
    <3> QED BY <3>1, EliminationStates
  <2> DEFINE a == s[k]
             b == s[k + 1]
  <2>4. /\ a \in ElimStates(n, m) /\ IsEchelon(a.M, n, k, a.pivots) /\ IsPermuted(a.Perm, n)
        /\ b = EliminateColumn(a, k + 1)
    BY <2>1, <2>2, <2>3
  <2> HIDE DEF a, b
  <2>5. IsEchelon(b.M, n, k + 1, b.pivots) /\ IsPermuted(b.Perm, n)
    BY <2>2, <2>4, EchelonStep
  <2> QED BY <2>5 DEF b
<1> HIDE DEF S
<1>3. \A k \in Nat : k \in S
  BY <1>1, <1>2, InductionOnNat
<1> QED BY <1>3 DEF S

LEMMA PLUEchelon ==
  ASSUME NEW n \in Nat, NEW m \in Nat, n >= 1, NEW A \in Matrix(n, m)
  PROVE  IsEchelon(PLU(A).M, n, m, PLU(A).pivots) /\ IsPermuted(PLU(A).Perm, n)
<1>1. PICK s : IsElimination(A, m, s) /\ PLU(A) = s[m]
  BY PLUIsElimination
<1>2. m \in 0..m
  OBVIOUS
<1>3. IsEchelon(s[m].M, n, m, s[m].pivots) /\ IsPermuted(s[m].Perm, n)
  BY <1>1, <1>2, EchelonStates
<1> QED BY <1>1, <1>3

\* Two states that agree on m columns, and on their pivots.
Agree(s, t, n, m) ==
  t.pivots = s.pivots /\ \A i \in 1..n, j \in 1..m : t.M[i][j] = s.M[i][j]

\* A further column at the end has no effect on the ones before it.
LEMMA AgreeStep ==
  ASSUME NEW n \in Nat, NEW m \in Nat, NEW r \in Nat, m <= r,
         NEW s \in ElimStates(n, m), NEW t \in ElimStates(n, r),
         Len(s.pivots) <= n, Agree(s, t, n, m), NEW k \in 1..m,
         NEW u, u = EliminateColumn(s, k), NEW v, v = EliminateColumn(t, k)
  PROVE  Agree(u, v, n, m)
<1> DEFINE row == Len(s.pivots) + 1
           A   == s.M
           B   == t.M
<1>1. /\ A \in Matrix(n, m) /\ B \in Matrix(n, r)
      /\ s.pivots \in Seq(1..m) /\ row \in Nat /\ row >= 1
      /\ t.pivots = s.pivots
      /\ \A i \in 1..n, j \in 1..m : B[i][j] = A[i][j]
  BY DEF ElimStates, Agree
<1>2. k \in 1..r /\ 1..m \subseteq 1..r
  OBVIOUS
<1>3. IsIdle(s, u, n, k) \/ \E pos \in row..n : IsPivot(s, u, n, m, k, pos)
  BY EliminateSplit
<1>4. IsIdle(t, v, n, k) \/ \E pos \in row..n : IsPivot(t, v, n, r, k, pos)
  BY <1>1, <1>2, EliminateSplit
<1>5. \A i \in row..n : i \in 1..n
  BY <1>1
<1>6. CASE IsIdle(s, u, n, k)
  <2>1. \A i \in row..n : B[i][k] = 0
    BY <1>1, <1>5, <1>6 DEF IsIdle
  <2>2. ~\E pos \in row..n : IsPivot(t, v, n, r, k, pos)
    BY <2>1 DEF IsPivot
  <2>3. v = t /\ u = s
    BY <1>4, <1>6, <2>2 DEF IsIdle
  <2> QED BY <2>3
<1>7. CASE \E pos \in row..n : IsPivot(s, u, n, m, k, pos)
  <2>1. PICK pos \in row..n : IsPivot(s, u, n, m, k, pos)
    BY <1>7
  <2>2. /\ A[pos][k] # 0
        /\ \A i \in row..n : A[i][k] # 0 => pos <= i
        /\ u.M = Cleared(Swap(A, pos, row), n, m, row, Factors(Swap(A, pos, row), n, row, k))
        /\ u.pivots = Append(s.pivots, k)
    BY <2>1 DEF IsPivot
  <2>3. B[pos][k] # 0
    BY <1>1, <1>5, <2>2
  <2>4. ~IsIdle(t, v, n, k)
    BY <1>1, <2>3 DEF IsIdle
  <2>5. PICK at \in row..n : IsPivot(t, v, n, r, k, at)
    BY <1>4, <2>4
  <2>6. /\ B[at][k] # 0
        /\ \A i \in row..n : B[i][k] # 0 => at <= i
        /\ v.M = Cleared(Swap(B, at, row), n, r, row, Factors(Swap(B, at, row), n, row, k))
        /\ v.pivots = Append(s.pivots, k)
    BY <1>1, <2>5 DEF IsPivot
  <2>7. at = pos
    <3>1. pos <= at
      BY <1>1, <1>5, <2>2, <2>6
    <3>2. at <= pos
      BY <2>3, <2>6
    <3>3. at \in Nat /\ pos \in Nat
      BY <1>5
    <3> QED BY <3>1, <3>2, <3>3
  <2>8. pos \in 1..n /\ row \in 1..n
    BY <1>1, <1>5
  <2> DEFINE X == Swap(A, pos, row)
             Y == Swap(B, pos, row)
             f == Factors(X, n, row, k)
             g == Factors(Y, n, row, k)
  <2>9. \A i \in 1..n : X[i] = A[Other(pos, row, i)] /\ Y[i] = B[Other(pos, row, i)]
                        /\ Other(pos, row, i) \in 1..n
    <3> HIDE DEF A, B, row
    <3>1. \A i \in 1..n : X[i] = A[Other(pos, row, i)]
      BY <1>1, <2>8, SwapRows
    <3>2. \A i \in 1..n : Y[i] = B[Other(pos, row, i)]
      BY <1>1, <2>8, SwapRows
    <3>3. \A i \in 1..n : Other(pos, row, i) \in 1..n
      BY <2>8, SwapFacts
    <3> QED BY <3>1, <3>2, <3>3
  <2>10. \A i \in 1..n, j \in 1..m : Y[i][j] = X[i][j]
    <3> HIDE DEF A, B, row, X, Y
    <3> QED BY <1>1, <2>9, ZenonT(60)
  <2>11. \A i \in 1..n : g[i] = f[i]
    <3> HIDE DEF A, B, row, X, Y
    <3> QED BY <2>8, <2>10 DEF Factors
  <2>12. u.M = Cleared(X, n, m, row, f) /\ v.M = Cleared(Y, n, r, row, g)
    <3> HIDE DEF A, B, row
    <3> QED BY <2>2, <2>6, <2>7
  <2>13. \A i \in 1..n, j \in 1..m : Cleared(Y, n, r, row, g)[i][j] = Cleared(X, n, m, row, f)[i][j]
    <3> HIDE DEF A, B, row, X, Y, f, g
    <3> QED BY <1>2, <2>8, <2>10, <2>11 DEF Cleared
  <2>14. v.pivots = u.pivots
    BY <2>2, <2>6
  <2> HIDE DEF A, B, row, X, Y, f, g
  <2> QED BY <2>12, <2>13, <2>14 DEF Agree
<1> QED BY <1>3, <1>6, <1>7

\* Augmented by a column, a matrix keeps its rank only if that column has no pivot.
LEMMA SameRank ==
  ASSUME NEW n \in Nat, NEW m \in Nat, n >= 1, NEW A \in Matrix(n, m), NEW B \in Matrix(n, m + 1),
         \A i \in 1..n, j \in 1..m : B[i][j] = A[i][j]
  PROVE  /\ PLU(B).pivots \in Seq(1..m) <=> Rank(A) = Rank(B)
         /\ ~(PLU(B).pivots \in Seq(1..m)) =>
              /\ Len(PLU(B).pivots) \in 1..n
              /\ PLU(B).pivots[Len(PLU(B).pivots)] = m + 1
<1> DEFINE r == m + 1
<1>1. PICK s : IsElimination(A, m, s) /\ PLU(A) = s[m]
  BY PLUIsElimination
<1>2. PICK t : IsElimination(B, r, t) /\ PLU(B) = t[r]
  <2>1. r \in Nat
    OBVIOUS
  <2> HIDE DEF r
  <2> QED BY <2>1, PLUIsElimination DEF r
<1>3. \A k \in 0..m : s[k] \in ElimStates(n, m) /\ IsEchelon(s[k].M, n, k, s[k].pivots)
  BY <1>1, EliminationStates, EchelonStates
<1>4. \A k \in 0..r : t[k] \in ElimStates(n, r) /\ IsEchelon(t[k].M, n, k, t[k].pivots)
  <2>1. r \in Nat /\ B \in Matrix(n, r)
    OBVIOUS
  <2> HIDE DEF r
  <2> QED BY <1>2, <2>1, EliminationStates, EchelonStates
<1> DEFINE S == {k \in Nat : k \in 0..m => Agree(s[k], t[k], n, m)}
<1>5. 0 \in S
  <2>1. Len(A) = n /\ Len(B) = n
    BY MatrixRows
  <2>2. s[0].M = A /\ s[0].pivots = << >>
    BY <1>1 DEF IsElimination
  <2>3. t[0].M = B /\ t[0].pivots = << >>
    BY <1>2 DEF IsElimination
  <2> QED BY <2>2, <2>3 DEF Agree
<1>6. ASSUME NEW k \in Nat, k \in S PROVE k + 1 \in S
  <2> SUFFICES ASSUME k + 1 \in 0..m PROVE Agree(s[k + 1], t[k + 1], n, m)
    OBVIOUS
  <2>1. Agree(s[k], t[k], n, m) /\ k \in 0..m /\ k \in 0..r /\ k + 1 \in 1..m /\ k + 1 \in 1..r
    BY <1>6
  <2>2. s[k + 1] = EliminateColumn(s[k], k + 1)
    BY <1>1, <2>1 DEF IsElimination
  <2>3. t[k + 1] = EliminateColumn(t[k], k + 1)
    BY <1>2, <2>1 DEF IsElimination
  <2>4. s[k] \in ElimStates(n, m) /\ t[k] \in ElimStates(n, r) /\ Len(s[k].pivots) <= n
    BY <1>3, <1>4, <2>1 DEF IsEchelon
  <2> DEFINE a == s[k]
             b == t[k]
             u == s[k + 1]
             v == t[k + 1]
             c == k + 1
  <2>5. /\ a \in ElimStates(n, m) /\ b \in ElimStates(n, r) /\ Len(a.pivots) <= n
        /\ Agree(a, b, n, m) /\ c \in 1..m /\ r \in Nat /\ m <= r
        /\ u = EliminateColumn(a, c) /\ v = EliminateColumn(b, c)
    BY <2>1, <2>2, <2>3, <2>4
  <2> HIDE DEF a, b, u, v, c, r
  <2>6. Agree(u, v, n, m)
    BY <2>5, AgreeStep
  <2> QED BY <2>6 DEF u, v
<1>7. \A k \in Nat : k \in S
  <2> HIDE DEF S
  <2> QED BY <1>5, <1>6, InductionOnNat
<1>8. Agree(s[m], t[m], n, m)
  BY <1>7
<1> DEFINE a == s[m]
           b == t[m]
           v == t[r]
<1>9. v = EliminateColumn(b, r)
  BY <1>2 DEF IsElimination
<1>10. /\ a \in ElimStates(n, m) /\ b \in ElimStates(n, r) /\ v \in ElimStates(n, r) /\ r \in 1..r /\ r \in Nat
       /\ b.pivots = a.pivots /\ a.pivots \in Seq(1..m) /\ IsEchelon(v.M, n, r, v.pivots)
       /\ PLU(A) = a /\ PLU(B) = v
  <2>1. m \in 0..m /\ m \in 0..r /\ r \in 0..r
    OBVIOUS
  <2>2. b.pivots = a.pivots
    BY <1>8 DEF Agree
  <2>3. a \in ElimStates(n, m) /\ IsEchelon(a.M, n, m, a.pivots)
    BY <1>3, <2>1
  <2>4. b \in ElimStates(n, r) /\ v \in ElimStates(n, r) /\ IsEchelon(v.M, n, r, v.pivots)
    BY <1>4, <2>1
  <2> QED BY <1>1, <1>2, <2>1, <2>2, <2>3, <2>4 DEF IsEchelon
<1> HIDE DEF a, b, v, r, S
<1>11. IsIdle(b, v, n, r) \/ \E pos \in (Len(b.pivots) + 1)..n : IsPivot(b, v, n, r, r, pos)
  BY <1>9, <1>10, EliminateSplit
<1>12. Rank(A) = Len(a.pivots) /\ Rank(B) = Len(v.pivots)
  BY <1>10 DEF Rank
<1>13. CASE IsIdle(b, v, n, r)
  <2>1. v.pivots = a.pivots
    BY <1>10, <1>13 DEF IsIdle
  <2> QED BY <1>10, <1>12, <2>1
<1>14. CASE \E pos \in (Len(b.pivots) + 1)..n : IsPivot(b, v, n, r, r, pos)
  <2>1. v.pivots = Append(a.pivots, r)
    BY <1>10, <1>14 DEF IsPivot
  <2> DEFINE p == a.pivots
  <2>2. p \in Seq(Nat) /\ Len(p) \in Nat
    <3>1. 1..m \subseteq Nat
      OBVIOUS
    <3> QED BY <1>10, <3>1
  <2>3. Len(v.pivots) = Len(p) + 1 /\ v.pivots[Len(p) + 1] = r
    <3> HIDE DEF p
    <3> QED BY <1>10, <2>1, <2>2 DEF p
  <2>4. ~(v.pivots \in Seq(1..m))
    <3> SUFFICES ASSUME v.pivots \in Seq(1..m) PROVE FALSE
      OBVIOUS
    <3>1. v.pivots[Len(p) + 1] \in 1..m
      BY <2>2, <2>3
    <3> QED BY <2>3, <3>1 DEF r
  <2>5. Len(v.pivots) <= n
    BY <1>10 DEF IsEchelon
  <2> QED BY <1>10, <1>12, <2>2, <2>3, <2>4, <2>5 DEF r
<1> QED BY <1>11, <1>13, <1>14

-----------------------------------------------------------------------------
(* The two substitutions. *)

LEMMA FieldInt == \A a \in Field : a \in Int /\ 1 * a = a /\ -a \in Int
<1>1. \A a \in Field : a \in Int
  BY ModulusFacts
<1>2. \A a \in Int : 1 * a = a /\ -a \in Int
  OBVIOUS
<1> QED BY <1>1, <1>2

IsAppended(w, u, v, i, S) ==
  w \in [1..(i + 1) -> S] /\ w[i + 1] = v /\ \A a \in 1..i : w[a] = u[a]

LEMMA AppendFacts ==
  ASSUME NEW i \in Nat, NEW S, NEW u \in [1..i -> S], NEW v \in S
  PROVE  IsAppended(Append(u, v), u, v, i, S)
<1>1. u \in Seq(S) /\ Len(u) = i
  BY FunctionIsSeq
<1> DEFINE w == Append(u, v)
<1>2. /\ w \in Seq(S) /\ Len(w) = i + 1 /\ w[i + 1] = v
      /\ \A a \in 1..i : w[a] = u[a]
  BY <1>1, AppendProperties
<1>3. w \in [1..Len(w) -> S]
  BY <1>2, LenProperties
<1> QED BY <1>2, <1>3 DEF IsAppended

LEMMA DotFacts ==
  ASSUME NEW n \in Nat, NEW u \in [1..n -> Field], NEW v, \A i \in 1..n : v[i] \in Field
  PROVE  /\ Dot(u, v) = Pair(u, v, n) % P /\ Dot(u, v) \in Field
         /\ Congruent(Dot(u, v), Pair(u, v, n)) /\ Pair(u, v, n) \in Int
<1>1. Len(u) = n /\ DOMAIN u = 1..n
  BY FunctionIsSeq
<1>2. Dot(u, v) = Pair(u, v, n) % P
  BY <1>1 DEF Dot, Pair, Products
<1>3. \A i \in 1..n : u[i] \in Int /\ v[i] \in Int
  BY ModulusFacts
<1>4. Pair(u, v, n) \in Int
  BY <1>3, PairFacts
<1> QED BY <1>2, <1>4, ModInField

\* The value of an unknown with factor a, where the others make c of b.
LEMMA UnknownFacts ==
  ASSUME NEW a \in Field, a # 0, NEW b \in Field, NEW c \in Field,
         NEW v, v = ((b + Negative(c)) * InvMod(a)) % P
  PROVE  v \in Field /\ Congruent(c + a * v, b)
<1> DEFINE i == InvMod(a)
           e == b + Negative(c)
           w == e * i
<1>1. i \in Field /\ Congruent(a * i, 1) /\ Negative(c) \in Field /\ Congruent(Negative(c), -c)
  BY InverseFacts, NegativeFacts
<1>2. a \in Int /\ b \in Int /\ c \in Int /\ i \in Int /\ Negative(c) \in Int /\ -c \in Int
  <2> DEFINE d == Negative(c)
  <2>1. Field \subseteq Int /\ i \in Field /\ d \in Field
    BY <1>1, ModulusFacts
  <2> HIDE DEF d, i
  <2>2. a \in Int /\ b \in Int /\ c \in Int /\ i \in Int /\ d \in Int
    BY <2>1
  <2>3. -c \in Int
    BY <2>2
  <2> QED BY <2>2, <2>3 DEF d
<1>3. e \in Int /\ Congruent(e, b - c)
  <2>1. Congruent(b + Negative(c), b + (-c))
    BY <1>1, <1>2, CongruentRefl, CongruentAdd
  <2>2. b + (-c) = b - c
    BY <1>2
  <2> HIDE DEF Negative
  <2> QED BY <1>2, <2>1, <2>2
<1> HIDE DEF e, i
<1>4. w \in Int
  BY <1>2, <1>3, IntTimes
<1>5. v \in Field /\ Congruent(v, w) /\ v \in Int
  <2>1. v = w % P
    BY DEF e, i
  <2> HIDE DEF w
  <2> QED BY <1>4, <2>1, ModInField, ModulusFacts
<1>6. Congruent(a * v, a * w) /\ a * v \in Int /\ a * w \in Int
  BY <1>2, <1>4, <1>5, CongruentTimes, IntTimes
<1>7. a * w = e * (a * i) /\ a * i \in Int
  <2>1. a * (e * i) = (a * e) * i /\ a * e = e * a /\ (e * a) * i = e * (a * i) /\ a * i \in Int
    BY <1>2, <1>3, IntTimes
  <2> QED BY <2>1
<1>8. Congruent(e * (a * i), e * 1) /\ e * 1 = e /\ e * (a * i) \in Int
  <2> DEFINE q == a * i
  <2>1. Congruent(q, 1) /\ q \in Int /\ 1 \in Int
    BY <1>1, <1>7 DEF i
  <2> HIDE DEF q
  <2>2. Congruent(e * q, e * 1) /\ e * q \in Int
    BY <1>3, <2>1, CongruentTimes, IntTimes
  <2>3. e * 1 = e
    BY <1>3
  <2> QED BY <2>2, <2>3 DEF q
<1> HIDE DEF w
<1> DEFINE g == a * v
<1>9. g \in Int /\ Congruent(g, e)
  <2>1. Congruent(g, a * w) /\ Congruent(a * w, e)
    BY <1>6, <1>7, <1>8
  <2> QED BY <1>3, <1>6, <2>1, CongruentTrans
<1> HIDE DEF g
<1>10. Congruent(g, b - c) /\ b - c \in Int
  BY <1>2, <1>3, <1>9, CongruentTrans
<1>11. Congruent(c + g, c + (b - c)) /\ c + (b - c) = b
  BY <1>2, <1>9, <1>10, CongruentRefl, CongruentAdd
<1> QED BY <1>5, <1>11 DEF g

IsForward(L, b, n, x) ==
  x = [i \in 0..n |->
        IF i = 0 THEN << >>
        ELSE Append(x[i - 1], ((b[i] + Negative(Dot(x[i - 1], L[i]))) * InvMod(L[i][i])) % P)]

LEMMA ForwardExists ==
  ASSUME NEW L, NEW b
  PROVE  \A n \in Nat : \E x : IsForward(L, b, n, x)
<1> DEFINE next(x, i) == Append(x, ((b[i] + Negative(Dot(x, L[i]))) * InvMod(L[i][i])) % P)
           S == {n \in Nat : \E x : IsForward(L, b, n, x)}
<1>1. 0 \in S
  <2> DEFINE t == [i \in 0..0 |-> << >>]
  <2>1. t = [i \in 0..0 |-> IF i = 0 THEN << >> ELSE next(t[i - 1], i)]
    OBVIOUS
  <2> HIDE DEF t
  <2>2. IsForward(L, b, 0, t)
    BY <2>1 DEF IsForward
  <2> QED BY <2>2
<1>2. ASSUME NEW n \in Nat, n \in S PROVE n + 1 \in S
  <2>1. PICK x : IsForward(L, b, n, x)
    BY <1>2
  <2> DEFINE t == [i \in 0..(n + 1) |-> IF i = n + 1 THEN next(x[n], i) ELSE x[i]]
  <2>2. x = [i \in 0..n |-> IF i = 0 THEN << >> ELSE next(x[i - 1], i)]
    BY <2>1 DEF IsForward
  <2> HIDE DEF next
  <2>3. ASSUME NEW i \in 0..(n + 1)
        PROVE  t[i] = IF i = 0 THEN << >> ELSE next(t[i - 1], i)
    <3>1. CASE i = n + 1
      <4>1. t[i] = next(x[n], i) /\ t[i - 1] = x[n]
        BY <3>1
      <4> HIDE DEF t
      <4> QED BY <3>1, <4>1
    <3>2. CASE i = 0
      BY <2>2, <3>2
    <3>3. CASE i # n + 1 /\ i # 0
      <4>1. t[i] = x[i] /\ t[i - 1] = x[i - 1] /\ i \in 0..n
        BY <3>3
      <4> HIDE DEF t
      <4> QED BY <2>2, <3>3, <4>1
    <3> QED BY <3>1, <3>2, <3>3
  <2>4. t = [i \in 0..(n + 1) |-> IF i = 0 THEN << >> ELSE next(t[i - 1], i)]
    BY <2>3
  <2> HIDE DEF t
  <2>5. IsForward(L, b, n + 1, t)
    BY <2>4 DEF IsForward, next
  <2> QED BY <2>5
<1> HIDE DEF S
<1>3. \A n \in Nat : n \in S
  BY <1>1, <1>2, InductionOnNat
<1> QED BY <1>3 DEF S

LEMMA ForwardSolves ==
  ASSUME NEW n \in Nat, NEW L \in Matrix(n, n), \A i \in 1..n : L[i][i] = 1,
         \A i, j \in 1..n : i < j => L[i][j] = 0, NEW b \in [1..n -> Field],
         NEW y, y = solveByForwardSubstitution(L, b)
  PROVE  y \in [1..n -> Field] /\ \A i \in 1..n : Congruent(Pair(L[i], y, n), b[i])
<1>1. Len(L) = n /\ \A i, j \in 1..n : L[i][j] \in Field /\ L[i][j] \in Int
  BY MatrixRows
<1>2. PICK x : IsForward(L, b, n, x) /\ y = x[n]
  <2>1. \E x : IsForward(L, b, n, x)
    BY ForwardExists
  <2>2. y = (CHOOSE x : IsForward(L, b, n, x))[n]
    BY <1>1 DEF solveByForwardSubstitution, IsForward
  <2> QED BY <2>1, <2>2
<1> DEFINE Solved(i) == x[i] \in [1..i -> Field]
                        /\ \A a \in 1..i : Congruent(Pair(L[a], x[i], a), b[a])
           S == {i \in Nat : i \in 0..n => Solved(i)}
<1>3. 0 \in S
  <2>1. x[0] = << >>
    BY <1>2 DEF IsForward
  <2>2. << >> \in [1..0 -> Field] /\ 1..0 = {}
    OBVIOUS
  <2>3. Solved(0)
    BY <2>1, <2>2
  <2> QED BY <2>3
<1>4. ASSUME NEW i \in Nat, i \in S PROVE i + 1 \in S
  <2> SUFFICES ASSUME i + 1 \in 0..n PROVE Solved(i + 1)
    OBVIOUS
  <2> DEFINE k == i + 1
             u == x[i]
             w == x[k]
             c == Dot(u, L[k])
             v == ((b[k] + Negative(c)) * InvMod(L[k][k])) % P
  <2>1. Solved(i) /\ k \in 1..n /\ i \in 0..n /\ k \in Nat
    BY <1>4
  <2>2. w = Append(u, v)
    <3> DEFINE next(z, j) == Append(z, ((b[j] + Negative(Dot(z, L[j]))) * InvMod(L[j][j])) % P)
    <3>1. k \in 0..n /\ k # 0 /\ k - 1 = i
      BY <2>1
    <3>2. x = [j \in 0..n |-> IF j = 0 THEN << >> ELSE next(x[j - 1], j)]
      BY <1>2 DEF IsForward
    <3> HIDE DEF next, k
    <3>3. x[k] = next(x[k - 1], k)
      BY <3>1, <3>2
    <3> QED BY <3>1, <3>3 DEF next
  <2>3. u \in [1..i -> Field] /\ (\A a \in 1..i : Congruent(Pair(L[a], u, a), b[a]))
    BY <2>1
  <2> HIDE DEF k, u, w
  <2>4. c \in Field /\ Congruent(c, Pair(u, L[k], i)) /\ Pair(u, L[k], i) \in Int
    <3>1. \A a \in 1..i : L[k][a] \in Field
      BY <1>1, <2>1
    <3> QED BY <2>3, <3>1, DotFacts
  <2>5. L[k][k] = 1 /\ L[k][k] \in Field /\ b[k] \in Field
    BY <1>1, <2>1
  <2> HIDE DEF c
  <2>6. v \in Field /\ Congruent(c + 1 * v, b[k])
    <3>1. L[k][k] # 0
      BY <2>5
    <3> QED BY <2>4, <2>5, <3>1, UnknownFacts
  <2> HIDE DEF v
  <2>7. w \in [1..k -> Field] /\ w[k] = v /\ \A a \in 1..i : w[a] = u[a]
    <3>1. IsAppended(Append(u, v), u, v, i, Field)
      BY <2>3, <2>6, AppendFacts
    <3> QED BY <2>2, <3>1 DEF k, IsAppended
  <2>8. ASSUME NEW a \in 1..i PROVE Congruent(Pair(L[a], w, a), b[a])
    <3>1. \A q \in 1..a : Products(L[a], w, a)[q] = Products(L[a], u, a)[q]
      BY <2>7 DEF Products
    <3>2. Pair(L[a], w, a) = Pair(L[a], u, a)
      BY <3>1, TotalEqual DEF Pair
    <3> QED BY <2>3, <3>2
  <2>9. Congruent(Pair(L[k], w, k), b[k])
    <3> DEFINE f == Products(L[k], w, k)
               g == Products(L[k], u, i)
    <3>1. \A q \in 1..i : f[q] = g[q]
      BY <2>7 DEF Products, k
    <3>2. f[k] = L[k][k] * w[k]
      BY <2>1 DEF Products
    <3>3. Pair(L[k], w, k) = Total(f, k) /\ Pair(L[k], u, i) = Total(g, i)
      BY DEF Pair
    <3>4. Pair(L[k], u, i) = Pair(u, L[k], i)
      <4>1. \A q \in 1..i : u[q] \in Int /\ L[k][q] \in Int
        <5>1. \A q \in 1..i : q \in 1..n
          BY <2>1 DEF k
        <5> QED BY <1>1, <2>1, <2>3, <5>1, FieldInt
      <4> QED BY <4>1, PairFacts
    <3> HIDE DEF f, g
    <3>5. Total(f, k) = Total(f, i) + f[k] /\ Total(f, i) = Total(g, i)
      BY <3>1, TotalStep, TotalEqual DEF k
    <3> DEFINE e == Pair(u, L[k], i)
    <3>6. Pair(L[k], w, k) = e + v
      <4>1. 1 * v = v
        BY <2>6, ModulusFacts
      <4> QED BY <2>5, <2>7, <3>2, <3>3, <3>4, <3>5, <4>1
    <3>7. Congruent(c, e) /\ e \in Int /\ c \in Int /\ v \in Int /\ b[k] \in Int /\ 1 * v = v
      BY <2>4, <2>5, <2>6, FieldInt
    <3> HIDE DEF e
    <3>8. Congruent(e + v, c + v) /\ c + v \in Int /\ e + v \in Int
      <4>1. Congruent(e, c) /\ Congruent(v, v)
        BY <3>7, CongruentSym, CongruentRefl
      <4> QED BY <3>7, <4>1, CongruentAdd
    <3>9. Congruent(c + v, b[k])
      BY <2>6, <3>7
    <3> QED BY <3>6, <3>7, <3>8, <3>9, CongruentTrans
  <2>10. \A a \in 1..k : a = k \/ a \in 1..i
    BY DEF k
  <2>11. w \in [1..k -> Field] /\ \A a \in 1..k : Congruent(Pair(L[a], w, a), b[a])
    BY <2>7, <2>8, <2>9, <2>10
  <2> QED BY <2>11 DEF w, k
<1>5. \A i \in Nat : i \in S
  <2> HIDE DEF S
  <2> QED BY <1>3, <1>4, InductionOnNat
<1>6. y \in [1..n -> Field] /\ \A a \in 1..n : Congruent(Pair(L[a], y, a), b[a])
  BY <1>2, <1>5
<1>7. ASSUME NEW a \in 1..n PROVE Pair(L[a], y, n) = Pair(L[a], y, a)
  <2> DEFINE f == Products(L[a], y, n)
  <2>1. \A q \in 1..n : L[a][q] \in Int /\ y[q] \in Int /\ f[q] = L[a][q] * y[q]
    BY <1>1, <1>6, ModulusFacts DEF Products
  <2>2. \A q \in (a + 1)..n : f[q] = 0
    <3> SUFFICES ASSUME NEW q \in (a + 1)..n PROVE f[q] = 0
      OBVIOUS
    <3>1. q \in 1..n /\ a < q
      OBVIOUS
    <3>2. L[a][q] = 0 /\ f[q] = L[a][q] * y[q] /\ y[q] \in Int
      BY <2>1, <3>1
    <3> HIDE DEF f
    <3> QED BY <3>2
  <2>3. \A q \in 1..a : Products(L[a], y, a)[q] = f[q]
    BY DEF Products
  <2>4. \A q \in 1..n : f[q] \in Int
    <3> HIDE DEF f
    <3> QED BY <2>1, IntTimes
  <2> HIDE DEF f
  <2>5. Total(f, a) \in Int
    BY <2>4, TotalInt
  <2>6. Total(f, n) = Total(f, a) /\ Pair(L[a], y, a) = Total(f, a)
    BY <2>2, <2>3, <2>5, TotalZeros, TotalEqual DEF Pair
  <2> QED BY <2>6 DEF Pair, f
<1> QED BY <1>6, <1>7

\* A vector that differs from another in one place, where that is 0.
IsUpdate(a, u, w, c, m) == Pair(a, w, m) = Pair(a, u, m) + a[c] * w[c]

LEMMA PairUpdate ==
  ASSUME NEW m \in Nat, NEW a, NEW u, NEW w, NEW c \in 1..m,
         \A j \in 1..m : a[j] \in Int /\ u[j] \in Int /\ w[j] \in Int /\ (j # c => w[j] = u[j]),
         u[c] = 0
  PROVE  IsUpdate(a, u, w, c, m)
<1> DEFINE f == Products(a, u, m)
           h == Products(a, w, m)
           g == [j \in 1..m |-> IF j = c THEN a[c] * w[c] ELSE 0]
<1>1. \A j \in 1..m : f[j] = a[j] * u[j] /\ h[j] = a[j] * w[j] /\ f[j] \in Int /\ h[j] \in Int
  BY PairFacts
<1>2. \A j \in 1..m : g[j] = IF j = c THEN a[c] * w[c] ELSE 0
  OBVIOUS
<1> HIDE DEF f, g, h
<1>3. \A j \in 1..m : f[j] \in Int /\ g[j] \in Int /\ h[j] = f[j] + g[j]
  <2> SUFFICES ASSUME NEW j \in 1..m
               PROVE  f[j] \in Int /\ g[j] \in Int /\ h[j] = f[j] + g[j]
    OBVIOUS
  <2>1. CASE j = c
    <3>1. f[c] = a[c] * 0 /\ a[c] \in Int /\ h[c] = g[c] /\ h[c] \in Int
      BY <1>1, <1>2, <2>1
    <3>2. f[c] = 0
      BY <3>1
    <3> QED BY <2>1, <3>1, <3>2
  <2>2. CASE j # c
    <3>1. w[j] = u[j]
      BY <2>2
    <3>2. h[j] = f[j] /\ g[j] = 0 /\ f[j] \in Int
      BY <1>1, <1>2, <2>2, <3>1
    <3> QED BY <3>2
  <2> QED BY <2>1, <2>2
<1>4. Total(h, m) = Total(f, m) + Total(g, m)
  BY <1>3, TotalAdd
<1>5. Total(g, m) = g[c]
  <2>1. \A q \in 1..m : g[q] \in Int /\ (q # c => g[q] = 0)
    BY <1>2, <1>3
  <2>2. Total(g, 0) = 0 /\ c \in Nat /\ c <= m /\ c > 0 /\ 0 <= m /\ 0 \in Nat
    BY TotalStep
  <2>3. Total(g, m) = Total(g, 0) + IF c > 0 THEN g[c] ELSE 0
    BY <2>1, <2>2, TotalSingle
  <2>4. g[c] \in Int
    BY <2>1
  <2> QED BY <2>2, <2>3, <2>4
<1> QED BY <1>2, <1>4, <1>5 DEF IsUpdate, Pair, f, h

IsBackward(A, p, m, x) ==
  x = [i \in 1..(Len(p) + 1) |->
        IF i > Len(p) THEN Zeros(m)
        ELSE [x[i + 1] EXCEPT ![p[i]] =
               ((A[i][m + 1] + Negative(Dot(x[i + 1], A[i]))) * InvMod(A[i][p[i]])) % P]]

LEMMA BackwardExists ==
  ASSUME NEW A, NEW p, NEW m, Len(p) \in Nat
  PROVE  \E x : IsBackward(A, p, m, x)
<1> DEFINE l == Len(p)
           next(x, i) == [x EXCEPT ![p[i]] =
                           ((A[i][m + 1] + Negative(Dot(x, A[i]))) * InvMod(A[i][p[i]])) % P]
           Is(j, x) == x = [i \in (l + 1 - j)..(l + 1) |->
                             IF i > l THEN Zeros(m) ELSE next(x[i + 1], i)]
           S == {j \in Nat : j <= l => \E x : Is(j, x)}
<1> HIDE DEF l, next
<1>0. l \in Nat
  BY DEF l
<1>1. 0 \in S
  <2> DEFINE t == [i \in (l + 1)..(l + 1) |-> Zeros(m)]
  <2>1. t = [i \in (l + 1)..(l + 1) |-> IF i > l THEN Zeros(m) ELSE next(t[i + 1], i)]
    BY <1>0
  <2> HIDE DEF t
  <2>2. l + 1 - 0 = l + 1
    BY <1>0
  <2>3. Is(0, t)
    BY <2>1, <2>2
  <2> QED BY <2>3
<1>2. ASSUME NEW j \in Nat, j \in S PROVE j + 1 \in S
  <2> SUFFICES ASSUME j + 1 <= l PROVE \E x : Is(j + 1, x)
    OBVIOUS
  <2>1. PICK x : Is(j, x)
    BY <1>0, <1>2
  <2> DEFINE k == l - j
             t == [i \in k..(l + 1) |-> IF i = k THEN next(x[k + 1], i) ELSE x[i]]
  <2>2. k \in Nat /\ k >= 1 /\ k <= l /\ l + 1 - j = k + 1 /\ l + 1 - (j + 1) = k
    BY <1>0
  <2>3. x = [i \in (k + 1)..(l + 1) |-> IF i > l THEN Zeros(m) ELSE next(x[i + 1], i)]
    BY <2>1, <2>2
  <2> HIDE DEF k
  <2>4. ASSUME NEW i \in k..(l + 1)
        PROVE  t[i] = IF i > l THEN Zeros(m) ELSE next(t[i + 1], i)
    <3>1. CASE i = k
      <4>1. t[i] = next(x[k + 1], i) /\ t[i + 1] = x[k + 1]
        BY <1>0, <2>2, <3>1
      <4> HIDE DEF t
      <4> QED BY <1>0, <2>2, <3>1, <4>1
    <3>2. CASE i > l
      BY <1>0, <2>2, <2>3, <3>2
    <3>3. CASE i # k /\ ~(i > l)
      <4>1. t[i] = x[i] /\ t[i + 1] = x[i + 1] /\ i \in (k + 1)..(l + 1)
        BY <1>0, <2>2, <3>3
      <4> HIDE DEF t
      <4> QED BY <2>3, <3>3, <4>1
    <3> QED BY <3>1, <3>2, <3>3
  <2>5. t = [i \in k..(l + 1) |-> IF i > l THEN Zeros(m) ELSE next(t[i + 1], i)]
    BY <2>4
  <2> HIDE DEF t
  <2>6. Is(j + 1, t)
    BY <2>2, <2>5
  <2> QED BY <2>6
<1> HIDE DEF S
<1>3. \A j \in Nat : j \in S
  BY <1>1, <1>2, InductionOnNat
<1>4. PICK x : Is(l, x)
  BY <1>0, <1>3 DEF S
<1>5. l + 1 - l = 1
  BY <1>0
<1>6. x = [i \in 1..(l + 1) |-> IF i > l THEN Zeros(m) ELSE next(x[i + 1], i)]
  BY <1>4, <1>5
<1>7. IsBackward(A, p, m, x)
  BY <1>6 DEF IsBackward, l, next
<1> QED BY <1>7

LEMMA BackwardSolves ==
  ASSUME NEW n \in Nat, n >= 1, NEW m \in Nat, NEW A \in Matrix(n, m + 1),
         NEW p \in Seq(1..m), IsEchelon(A, n, m + 1, p),
         NEW v, v = solveByBackwardSubstitution(A, p)
  PROVE  v \in [1..m -> Field] /\ \A i \in 1..n : Congruent(Pair(A[i], v, m), A[i][m + 1])
<1> DEFINE l == Len(p)
           e == m + 1
<1>1. l \in Nat /\ l <= n /\ \A i \in 1..l : p[i] \in 1..m
  BY DEF IsEchelon
<1>2. /\ \A a, b \in 1..l : a < b => p[a] < p[b]
      /\ \A a \in 1..l : A[a][p[a]] # 0
      /\ \A a \in 1..l : \A j \in 1..(p[a] - 1) : A[a][j] = 0
      /\ \A a \in (l + 1)..n, j \in 1..e : A[a][j] = 0
  BY DEF IsEchelon
<1>3. e \in Nat /\ Len(A[1]) - 1 = m /\ \A a \in 1..n, j \in 1..e : A[a][j] \in Field
  <2>1. e \in Nat /\ 1 \in 1..n /\ A \in Matrix(n, e)
    OBVIOUS
  <2>2. DOMAIN A[1] = 1..e /\ A[1] \in [1..e -> Field] /\ \A a \in 1..n, j \in 1..e : A[a][j] \in Field
    <3> HIDE DEF e
    <3> QED BY <2>1, MatrixRows DEF Matrix
  <2>3. Len(A[1]) = e
    <3> HIDE DEF e
    <3> QED BY <2>1, <2>2, FunctionIsSeq
  <2> QED BY <2>1, <2>2, <2>3
<1> HIDE DEF l
<1>4. PICK x : IsBackward(A, p, m, x) /\ v = x[1]
  <2>1. \E x : IsBackward(A, p, m, x)
    BY <1>1, BackwardExists DEF l
  <2>2. v = (CHOOSE x : IsBackward(A, p, m, x))[1]
    BY <1>3 DEF solveByBackwardSubstitution, IsBackward
  <2> QED BY <2>1, <2>2
<1> DEFINE next(z, i) == [z EXCEPT ![p[i]] =
                           ((A[i][e] + Negative(Dot(z, A[i]))) * InvMod(A[i][p[i]])) % P]
<1>5. x = [i \in 1..(l + 1) |-> IF i > l THEN Zeros(m) ELSE next(x[i + 1], i)]
  BY <1>4 DEF IsBackward, l
<1> HIDE DEF next, e
<1> DEFINE Met(a, z) == Congruent(Pair(A[a], z, m), A[a][e])
           Good(i) == /\ x[i] \in [1..m -> Field]
                      /\ \A b \in 1..l : b < i => x[i][p[b]] = 0
                      /\ \A a \in 1..n : a >= i => Met(a, x[i])
           S == {j \in Nat : j <= l => Good(l + 1 - j)}
<1>6. ASSUME NEW a \in 1..n, NEW j \in 1..m PROVE A[a][j] \in Field /\ A[a][j] \in Int /\ A[a][e] \in Field
  <2>1. j \in 1..e /\ e \in 1..e
    BY DEF e
  <2> QED BY <1>3, <2>1, FieldInt
<1>7. ASSUME NEW z \in [1..m -> Field], NEW a \in 1..n, a > l PROVE Met(a, z)
  <2>1. \A j \in 1..m : A[a][j] = 0
    <3>1. a \in (l + 1)..n /\ \A j \in 1..m : j \in 1..e
      BY <1>1, <1>7 DEF e
    <3> QED BY <1>2, <3>1
  <2>2. A[a][e] = 0
    <3>1. a \in (l + 1)..n /\ e \in 1..e
      BY <1>1, <1>3, <1>7 DEF e
    <3> QED BY <1>2, <3>1
  <2> DEFINE f == Products(A[a], z, m)
  <2>3. \A j \in 1..m : f[j] = 0
    <3> SUFFICES ASSUME NEW j \in 1..m PROVE f[j] = 0
      OBVIOUS
    <3>1. f[j] = A[a][j] * z[j] /\ A[a][j] = 0 /\ z[j] \in Int
      BY <2>1, FieldInt DEF Products
    <3> HIDE DEF f
    <3> QED BY <3>1
  <2> HIDE DEF f
  <2>4. Total(f, 0) = 0 /\ Total(f, m) = Total(f, 0)
    <3>1. Total(f, 0) = 0
      BY TotalStep
    <3> QED BY <2>3, <3>1, TotalZeros
  <2>5. Pair(A[a], z, m) = 0
    BY <2>4 DEF Pair, f
  <2> QED BY <2>2, <2>5, CongruentRefl
<1>8. 0 \in S
  <2>1. x[l + 1] = Zeros(m) /\ l + 1 - 0 = l + 1
    BY <1>1, <1>5
  <2>2. Zeros(m) \in [1..m -> Field] /\ \A j \in 1..m : Zeros(m)[j] = 0
    BY ModulusFacts DEF Zeros
  <2>3. \A a \in 1..n : a >= l + 1 => Met(a, Zeros(m))
    <3> HIDE DEF Met
    <3> QED BY <1>1, <1>7, <2>2
  <2> HIDE DEF Met
  <2>4. Good(l + 1)
    BY <1>1, <2>1, <2>2, <2>3
  <2> HIDE DEF Good
  <2> QED BY <2>1, <2>4
<1>9. ASSUME NEW j \in Nat, j \in S PROVE j + 1 \in S
  <2> SUFFICES ASSUME j + 1 <= l PROVE Good(l + 1 - (j + 1))
    OBVIOUS
  <2> DEFINE i == l - j
             k == i + 1
             u == x[k]
             w == x[i]
             c == p[i]
             d == Dot(u, A[i])
             q == ((A[i][e] + Negative(d)) * InvMod(A[i][c])) % P
  <2>1. i \in 1..l /\ i \in 1..n /\ k = l + 1 - j /\ i = l + 1 - (j + 1) /\ k \in Nat
    BY <1>1
  <2>2. Good(k)
    <3>1. Good(l + 1 - j)
      BY <1>1, <1>9
    <3> HIDE DEF Good
    <3> QED BY <2>1, <3>1
  <2>3. w = [u EXCEPT ![c] = q]
    <3> HIDE DEF i
    <3>1. i \in 1..(l + 1) /\ ~(i > l)
      BY <1>1, <2>1
    <3>2. x[i] = next(x[i + 1], i)
      BY <1>5, <3>1
    <3> QED BY <3>2 DEF next
  <2> SUFFICES Good(i)
    BY <2>1
  <2>4. c \in 1..m
    BY <1>1, <2>1
  <2> HIDE DEF i
  <2>5. u \in [1..m -> Field] /\ u[c] = 0
    <3>1. i < k
      BY <2>1
    <3> HIDE DEF k
    <3> QED BY <2>1, <2>2, <3>1
  <2>6. \A a \in 1..n : a >= k => Met(a, u)
    BY <2>2
  <2>7. \A b \in 1..l : b < i => u[p[b]] = 0
    <3>1. \A b \in 1..l : b < i => b < k
      BY <2>1
    <3> QED BY <2>2, <3>1
  <2> HIDE DEF k, u, w, c, Met
  <2>8. d \in Field /\ Congruent(d, Pair(u, A[i], m)) /\ Pair(u, A[i], m) \in Int
    <3>1. \A a \in 1..m : A[i][a] \in Field
      BY <1>6, <2>1
    <3> QED BY <2>5, <3>1, DotFacts
  <2> HIDE DEF d
  <2>9. A[i][c] \in Field /\ A[i][c] # 0 /\ A[i][e] \in Field
    BY <1>2, <1>6, <2>1, <2>4 DEF c
  <2>10. q \in Field /\ Congruent(d + A[i][c] * q, A[i][e])
    BY <2>8, <2>9, UnknownFacts
  <2> HIDE DEF q
  <2>11. w \in [1..m -> Field] /\ w[c] = q /\ \A a \in 1..m : a # c => w[a] = u[a]
    BY <2>3, <2>4, <2>5, <2>10
  <2>12. ASSUME NEW a \in 1..n
         PROVE  /\ Pair(A[a], w, m) = Pair(A[a], u, m) + A[a][c] * q
                /\ Pair(A[a], u, m) \in Int /\ Pair(A[a], u, m) = Pair(u, A[a], m)
    <3>1. \A b \in 1..m : A[a][b] \in Int /\ u[b] \in Int /\ w[b] \in Int /\ (b # c => w[b] = u[b])
      BY <1>6, <2>5, <2>11, FieldInt
    <3>2. Pair(A[a], w, m) = Pair(A[a], u, m) + A[a][c] * w[c]
      <4> DEFINE r == A[a]
      <4>1. \A b \in 1..m : r[b] \in Int /\ u[b] \in Int /\ w[b] \in Int /\ (b # c => w[b] = u[b])
        BY <3>1
      <4> HIDE DEF r
      <4>2. IsUpdate(r, u, w, c, m)
        BY <2>4, <2>5, <4>1, PairUpdate
      <4> QED BY <4>2 DEF IsUpdate, r
    <3>3. Pair(A[a], u, m) \in Int /\ Pair(A[a], u, m) = Pair(u, A[a], m)
      BY <3>1, PairFacts
    <3> QED BY <2>11, <3>2, <3>3
  <2>13. Met(i, w)
    <3> DEFINE g == Pair(u, A[i], m)
               h == A[i][c] * q
    <3>1. Pair(A[i], w, m) = g + h
      BY <2>1, <2>12
    <3>2. g \in Int /\ Congruent(d, g) /\ d \in Int /\ Congruent(d + h, A[i][e]) /\ A[i][e] \in Int
      BY <2>8, <2>9, <2>10, FieldInt
    <3>3. h \in Int
      <4>1. A[i][c] \in Int /\ q \in Int
        BY <2>9, <2>10, FieldInt
      <4> QED BY <4>1, IntTimes
    <3> HIDE DEF g, h
    <3>4. Congruent(g, d) /\ Congruent(h, h)
      BY <3>2, <3>3, CongruentSym, CongruentRefl
    <3>5. Congruent(g + h, d + h) /\ g + h \in Int /\ d + h \in Int
      BY <3>2, <3>3, <3>4, CongruentAdd
    <3>6. Congruent(g + h, A[i][e])
      BY <3>2, <3>5, CongruentTrans
    <3> QED BY <3>1, <3>6 DEF Met
  <2>14. ASSUME NEW a \in 1..n, a >= k PROVE Met(a, w)
    <3>1. CASE a > l
      BY <1>7, <2>11, <3>1
    <3>2. CASE ~(a > l)
      <4>1. a \in 1..l /\ i < a
        BY <1>1, <2>1, <2>14, <3>2 DEF k
      <4>2. p[i] < p[a] /\ p[i] \in 1..m /\ p[a] \in 1..m
        BY <1>1, <1>2, <2>1, <4>1
      <4>3. c \in 1..(p[a] - 1)
        BY <4>2 DEF c
      <4>4. A[a][c] = 0
        BY <1>2, <4>1, <4>3
      <4>5. Pair(A[a], w, m) = Pair(A[a], u, m) + 0 * q /\ Pair(A[a], u, m) \in Int
        BY <2>12, <4>4
      <4>6. q \in Int
        BY <2>10, FieldInt
      <4>7. Pair(A[a], w, m) = Pair(A[a], u, m)
        BY <4>5, <4>6
      <4> QED BY <2>6, <2>14, <4>7 DEF Met
    <3> QED BY <3>1, <3>2
  <2>15. \A a \in 1..n : a >= i => Met(a, w)
    <3>1. \A a \in 1..n : a >= i => a = i \/ a >= k
      BY <2>1 DEF k
    <3> QED BY <2>13, <2>14, <3>1
  <2>16. \A b \in 1..l : b < i => w[p[b]] = 0
    <3> SUFFICES ASSUME NEW b \in 1..l, b < i PROVE w[p[b]] = 0
      OBVIOUS
    <3>1. p[b] < p[i] /\ p[b] \in 1..m /\ p[i] \in 1..m
      BY <1>1, <1>2, <2>1
    <3>2. p[b] # c
      BY <3>1 DEF c
    <3> QED BY <2>7, <2>11, <3>1, <3>2
  <2> QED BY <2>11, <2>15, <2>16 DEF w
<1>10. \A j \in Nat : j \in S
  <2> HIDE DEF S
  <2> QED BY <1>8, <1>9, InductionOnNat
<1>11. Good(1)
  <2>1. l + 1 - l = 1
    BY <1>1
  <2>2. Good(l + 1 - l)
    <3> HIDE DEF Good
    <3> QED BY <1>1, <1>10
  <2> HIDE DEF Good
  <2> QED BY <2>1, <2>2
<1>12. v \in [1..m -> Field] /\ \A a \in 1..n : Met(a, v)
  <2> HIDE DEF Met
  <2> QED BY <1>4, <1>11
<1> QED BY <1>12 DEF e

-----------------------------------------------------------------------------
(* Solutions before and after the elimination. *)

LEMMA CongruentDifference ==
  ASSUME NEW a \in Int, NEW b \in Int
  PROVE  Congruent(a - b, 0) <=> Congruent(a, b)
<1>1. ASSUME Congruent(a - b, 0) PROVE Congruent(a, b)
  <2>1. PICK k \in Int : a - b = 0 + P * k
    BY <1>1 DEF Congruent
  <2> DEFINE q == P * k
  <2>2. q \in Int /\ a - b = 0 + q
    BY <2>1, ModulusFacts
  <2> HIDE DEF q
  <2>3. a = b + q
    BY <2>2
  <2> QED BY <2>3 DEF Congruent, q
<1>2. ASSUME Congruent(a, b) PROVE Congruent(a - b, 0)
  <2>1. PICK k \in Int : a = b + P * k
    BY <1>2 DEF Congruent
  <2> DEFINE q == P * k
  <2>2. q \in Int /\ a = b + q
    BY <2>1, ModulusFacts
  <2> HIDE DEF q
  <2>3. a - b = 0 + q
    BY <2>2
  <2> QED BY <2>3 DEF Congruent, q
<1> QED BY <1>1, <1>2

\* From a + c to a, where c is congruent to d.
LEMMA CongruentCancel ==
  ASSUME NEW a \in Int, NEW b \in Int, NEW c \in Int, NEW d \in Int,
         Congruent(c + a, d + b), Congruent(c, d)
  PROVE  Congruent(a, b)
<1>1. PICK k \in Int : c + a = d + b + P * k
  BY DEF Congruent
<1>2. PICK l \in Int : c = d + P * l
  BY DEF Congruent
<1>3. P * k \in Int /\ P * l \in Int /\ k - l \in Int /\ P * (k - l) = P * k - P * l
  <2> DEFINE p == P
  <2>1. p \in Int
    BY ModulusFacts
  <2> HIDE DEF p
  <2>2. p * k \in Int /\ p * l \in Int /\ k - l \in Int /\ p * (k - l) = p * k - p * l
    BY <2>1
  <2> QED BY <2>2 DEF p
<1> DEFINE q == P * k
           r == P * l
           s == P * (k - l)
<1>4. q \in Int /\ r \in Int /\ s = q - r /\ c + a = (d + b) + q /\ c = d + r
  BY <1>1, <1>2, <1>3
<1> HIDE DEF q, r, s
<1>5. a = b + s
  BY <1>4
<1> QED BY <1>3, <1>5 DEF Congruent, s

LEMMA UnitPair ==
  ASSUME NEW n \in Nat, NEW q \in 1..n, NEW g, \A i \in 1..n : g[i] \in Int
  PROVE  Pair(Identity(n)[q], g, n) = g[q]
<1> DEFINE f == Products(Identity(n)[q], g, n)
<1>1. \A i \in 1..n : f[i] = IF i = q THEN g[q] ELSE 0
  <2> SUFFICES ASSUME NEW i \in 1..n PROVE f[i] = IF i = q THEN g[q] ELSE 0
    OBVIOUS
  <2>1. f[i] = Identity(n)[q][i] * g[i] /\ Identity(n)[q][i] = IF q = i THEN 1 ELSE 0
    BY IdentityFacts DEF Products
  <2>2. g[i] \in Int /\ 1 * g[i] = g[i] /\ 0 * g[i] = 0
    OBVIOUS
  <2> HIDE DEF f
  <2> QED BY <2>1, <2>2
<1> HIDE DEF f
<1>2. /\ \A i \in 1..n : f[i] \in Int
      /\ \A i \in (0 + 1)..n : i # q => f[i] = 0
  BY <1>1
<1>3. Total(f, 0) = 0 /\ 0 \in Nat /\ 0 <= n /\ q \in Nat /\ q <= n /\ q > 0
  BY TotalStep
<1>4. Total(f, n) = Total(f, 0) + IF q > 0 THEN f[q] ELSE 0
  BY <1>2, <1>3, TotalSingle
<1>5. f[q] = g[q] /\ g[q] \in Int
  BY <1>1
<1> QED BY <1>3, <1>4, <1>5 DEF Pair, f

\* Nothing is lost in a permutation.
LEMMA PermutedCongruent ==
  ASSUME NEW n \in Nat, NEW Q, IsPermuted(Q, n), NEW g, NEW h,
         \A i \in 1..n : g[i] \in Int /\ h[i] \in Int,
         \A i \in 1..n : Congruent(Pair(Q[i], g, n), Pair(Q[i], h, n))
  PROVE  \A q \in 1..n : Congruent(g[q], h[q])
<1> SUFFICES ASSUME NEW q \in 1..n PROVE Congruent(g[q], h[q])
  OBVIOUS
<1>1. PICK i \in 1..n : Q[i] = Identity(n)[q]
  BY DEF IsPermuted
<1>2. Pair(Q[i], g, n) = g[q] /\ Pair(Q[i], h, n) = h[q]
  BY <1>1, UnitPair
<1> QED BY <1>2

\* A lower triangular matrix with ones in its diagonal.
IsUnitLower(L, n) ==
  /\ L \in Matrix(n, n)
  /\ \A i \in 1..n : L[i][i] = 1
  /\ \A i, j \in 1..n : i < j => L[i][j] = 0

LEMMA LowerPair ==
  ASSUME NEW n \in Nat, NEW L, IsUnitLower(L, n), NEW g, \A i \in 1..n : g[i] \in Int,
         NEW i \in 1..n
  PROVE  Pair(L[i], g, i - 1) \in Int /\ Pair(L[i], g, n) = Pair(L[i], g, i - 1) + g[i]
<1> DEFINE f == Products(L[i], g, n)
<1>1. \A q \in 1..n : L[i][q] \in Int
  <2>1. L \in Matrix(n, n)
    BY DEF IsUnitLower
  <2> QED BY <2>1, MatrixRows
<1>2. \A q \in 1..n : f[q] = L[i][q] * g[q] /\ f[q] \in Int
  BY <1>1, PairFacts
<1>3. f[i] = g[i] /\ g[i] \in Int
  <2>1. f[i] = 1 * g[i] /\ g[i] \in Int
    BY <1>2 DEF IsUnitLower
  <2> HIDE DEF f
  <2> QED BY <2>1
<1>4. \A q \in (i + 1)..n : f[q] = 0
  <2> SUFFICES ASSUME NEW q \in (i + 1)..n PROVE f[q] = 0
    OBVIOUS
  <2>1. q \in 1..n /\ i < q
    OBVIOUS
  <2>2. f[q] = 0 * g[q] /\ g[q] \in Int
    BY <1>2, <2>1 DEF IsUnitLower
  <2> HIDE DEF f
  <2> QED BY <2>2
<1>5. \A q \in 1..(i - 1) : Products(L[i], g, i - 1)[q] = f[q]
  BY DEF Products
<1> HIDE DEF f
<1>6. i \in Nat /\ i - 1 \in Nat /\ i <= n /\ i - 1 + 1 = i
  OBVIOUS
<1>7. Total(f, i) \in Int /\ Total(f, i - 1) \in Int
  <2>1. \A q \in 0..n : Total(f, q) \in Int
    BY <1>2, TotalInt
  <2> QED BY <1>6, <2>1
<1>8. Total(f, n) = Total(f, i)
  BY <1>4, <1>6, <1>7, TotalZeros
<1>9. Total(f, i) = Total(f, i - 1) + f[i]
  <2>1. Total(f, i - 1 + 1) = Total(f, i - 1) + f[i - 1 + 1]
    BY <1>6, TotalStep
  <2> QED BY <1>6, <2>1
<1>10. Pair(L[i], g, i - 1) = Total(f, i - 1)
  BY <1>5, <1>6, TotalEqual DEF Pair
<1> QED BY <1>3, <1>7, <1>8, <1>9, <1>10 DEF Pair, f

\* Nor is anything lost in such a matrix.
LEMMA LowerCongruent ==
  ASSUME NEW n \in Nat, NEW L, IsUnitLower(L, n), NEW g, NEW h,
         \A i \in 1..n : g[i] \in Int /\ h[i] \in Int,
         \A i \in 1..n : Congruent(Pair(L[i], g, n), Pair(L[i], h, n))
  PROVE  \A q \in 1..n : Congruent(g[q], h[q])
<1> DEFINE S == {k \in Nat : \A q \in 1..n : q <= k => Congruent(g[q], h[q])}
<1>1. 0 \in S
  OBVIOUS
<1>2. ASSUME NEW k \in Nat, k \in S PROVE k + 1 \in S
  <2> SUFFICES ASSUME k + 1 \in 1..n PROVE Congruent(g[k + 1], h[k + 1])
    BY <1>2
  <2> DEFINE i == k + 1
             c == Pair(L[i], g, k)
             d == Pair(L[i], h, k)
  <2>1. i \in 1..n /\ i - 1 = k /\ g[i] \in Int /\ h[i] \in Int
    OBVIOUS
  <2>2. Pair(L[i], g, n) = c + g[i] /\ Pair(L[i], h, n) = d + h[i] /\ c \in Int /\ d \in Int
    <3> HIDE DEF i
    <3>1. Pair(L[i], g, i - 1) \in Int /\ Pair(L[i], g, n) = Pair(L[i], g, i - 1) + g[i]
      BY <2>1, LowerPair
    <3>2. Pair(L[i], h, i - 1) \in Int /\ Pair(L[i], h, n) = Pair(L[i], h, i - 1) + h[i]
      BY <2>1, LowerPair
    <3> QED BY <2>1, <3>1, <3>2
  <2>3. Congruent(c, d)
    <3>1. \A q \in 1..k : L[i][q] \in Int /\ g[q] \in Int /\ h[q] \in Int /\ Congruent(g[q], h[q])
      <4>1. \A q \in 1..k : q \in 1..n /\ q <= k
        OBVIOUS
      <4>2. L \in Matrix(n, n)
        BY DEF IsUnitLower
      <4>3. \A q \in 1..n : L[i][q] \in Int
        BY <4>2, <2>1, MatrixRows
      <4> HIDE DEF i
      <4> QED BY <1>2, <4>1, <4>3
    <3> HIDE DEF i
    <3> QED BY <3>1, PairCongruent
  <2>4. Congruent(c + g[i], d + h[i])
    BY <2>1, <2>2
  <2> HIDE DEF c, d, i
  <2>5. Congruent(g[i], h[i])
    BY <2>1, <2>2, <2>3, <2>4, CongruentCancel
  <2> QED BY <2>5 DEF i
<1> HIDE DEF S
<1>3. \A k \in Nat : k \in S
  BY <1>1, <1>2, InductionOnNat
<1>4. n \in S
  BY <1>3
<1> QED BY <1>4 DEF S

\* Q times A and L times U are the same, column by column.
IsFactored(A, U, Q, L, n, m) ==
  /\ A \in Matrix(n, m) /\ U \in Matrix(n, m) /\ Q \in Matrix(n, n) /\ L \in Matrix(n, n)
  /\ \A i \in 1..n, j \in 1..m :
       Congruent(Total(Terms(Q, A, n, i, j), n), Total(Terms(L, U, n, i, j), n))

IsIntVector(z, m) == \A j \in 1..m : z[j] \in Int

IsImage(g, A, z, n, m) == \A q \in 1..n : g[q] = Pair(A[q], z, m)

IsRowSum(u, Q, A, n, m, i) == \A j \in 1..m : u[j] = Total(Terms(Q, A, n, i, j), n)

LEMMA RowTimesVector ==
  ASSUME NEW n \in Nat, NEW m \in Nat, NEW A \in Matrix(n, m), NEW Q \in Matrix(n, n),
         NEW z, IsIntVector(z, m), NEW g, IsImage(g, A, z, n, m),
         NEW i \in 1..n, NEW u, IsRowSum(u, Q, A, n, m, i)
  PROVE  Pair(u, z, m) = Pair(Q[i], g, n) /\ IsIntVector(u, m)
<1> DEFINE c == Q[i]
<1>1. \A q \in 1..n : c[q] \in Int /\ \A j \in 1..m : A[q][j] \in Int
  BY MatrixRows
<1>2. \A j \in 1..m : u[j] = Total([q \in 1..n |-> c[q] * A[q][j]], n) /\ u[j] \in Int
  <2> SUFFICES ASSUME NEW j \in 1..m
               PROVE  u[j] = Total([q \in 1..n |-> c[q] * A[q][j]], n) /\ u[j] \in Int
    OBVIOUS
  <2>1. \A q \in 1..n : A[q][j] * c[q] = c[q] * A[q][j]
    <3> HIDE DEF c
    <3> QED BY <1>1, IntTimes
  <2>2. Terms(Q, A, n, i, j) = [q \in 1..n |-> c[q] * A[q][j]]
    BY <2>1 DEF Terms
  <2>3. \A q \in 0..n : Total(Terms(Q, A, n, i, j), q) \in Int
    BY TermsInt
  <2>4. n \in 0..n
    OBVIOUS
  <2> QED BY <2>2, <2>3, <2>4 DEF IsRowSum
<1> HIDE DEF c
<1>3. \A j \in 1..m : z[j] \in Int /\ \A q \in 1..n : A[q][j] \in Int
  BY <1>1 DEF IsIntVector
<1>4. \A q \in 1..n : c[q] \in Int
  BY <1>1
<1>5. Exchanges(c, A, z, n)
  BY <1>4, PairExchange
<1>6. Pair(u, z, m) = Pair(c, g, n)
  <2>1. /\ \A j \in 1..m : u[j] = Total([q \in 1..n |-> c[q] * A[q][j]], n)
        /\ \A q \in 1..n : g[q] = Pair(A[q], z, m)
    BY <1>2 DEF IsImage
  <2> QED BY <1>3, <1>5, <2>1 DEF Exchanges
<1> QED BY <1>2, <1>6 DEF c, IsIntVector

AgreeUnder(Q, g, L, h, n) ==
  /\ \A q \in 1..n : g[q] \in Int /\ h[q] \in Int
  /\ \A i \in 1..n : Congruent(Pair(Q[i], g, n), Pair(L[i], h, n))

LEMMA FactoredVector ==
  ASSUME NEW n \in Nat, NEW m \in Nat, NEW A, NEW U, NEW Q, NEW L, IsFactored(A, U, Q, L, n, m),
         NEW z, IsIntVector(z, m), NEW g, IsImage(g, A, z, n, m), NEW h, IsImage(h, U, z, n, m)
  PROVE  AgreeUnder(Q, g, L, h, n)
<1>1. /\ A \in Matrix(n, m) /\ U \in Matrix(n, m) /\ Q \in Matrix(n, n) /\ L \in Matrix(n, n)
      /\ \A i \in 1..n, j \in 1..m :
           Congruent(Total(Terms(Q, A, n, i, j), n), Total(Terms(L, U, n, i, j), n))
  BY DEF IsFactored
<1>2. \A q \in 1..n : g[q] \in Int /\ h[q] \in Int
  <2>1. \A q \in 1..n, j \in 1..m : A[q][j] \in Int /\ U[q][j] \in Int
    BY <1>1, MatrixRows
  <2>2. \A q \in 1..n : Pair(A[q], z, m) \in Int
    BY <2>1, PairFacts DEF IsIntVector
  <2>3. \A q \in 1..n : Pair(U[q], z, m) \in Int
    BY <2>1, PairFacts DEF IsIntVector
  <2> QED BY <2>2, <2>3 DEF IsImage
<1>3. ASSUME NEW i \in 1..n PROVE Congruent(Pair(Q[i], g, n), Pair(L[i], h, n))
  <2> DEFINE u == [j \in 1..m |-> Total(Terms(Q, A, n, i, j), n)]
             w == [j \in 1..m |-> Total(Terms(L, U, n, i, j), n)]
  <2>1. IsRowSum(u, Q, A, n, m, i) /\ IsRowSum(w, L, U, n, m, i)
    BY DEF IsRowSum
  <2> HIDE DEF u, w
  <2>2. Pair(u, z, m) = Pair(Q[i], g, n) /\ IsIntVector(u, m)
    BY <1>1, <2>1, RowTimesVector
  <2>3. Pair(w, z, m) = Pair(L[i], h, n) /\ IsIntVector(w, m)
    BY <1>1, <2>1, RowTimesVector
  <2>4. \A j \in 1..m : z[j] \in Int /\ u[j] \in Int /\ w[j] \in Int /\ Congruent(u[j], w[j])
    BY <1>1, <2>1, <2>2, <2>3 DEF IsRowSum, IsIntVector
  <2>5. Congruent(Pair(u, z, m), Pair(w, z, m))
    BY <2>4, PairCongruent
  <2> QED BY <2>2, <2>3, <2>5
<1> QED BY <1>2, <1>3 DEF AgreeUnder

LEMMA PLUFactored ==
  ASSUME NEW n \in Nat, NEW m \in Nat, n >= 1, NEW A \in Matrix(n, m), NEW F, F = PLU(A)
  PROVE  /\ IsFactored(A, F.M, F.Perm, F.L, n, m) /\ IsPermuted(F.Perm, n)
         /\ IsUnitLower(F.L, n) /\ IsEchelon(F.M, n, m, F.pivots) /\ F.pivots \in Seq(1..m)
<1>1. F \in ElimStates(n, m) /\ FactoredBy(A, n, m, F.M, F.Perm, F.L, Len(F.pivots))
  BY PLUFacts
<1>2. IsEchelon(F.M, n, m, F.pivots) /\ IsPermuted(F.Perm, n)
  BY PLUEchelon
<1> DEFINE U == F.M
           Q == F.Perm
           L == F.L
           l == Len(F.pivots)
<1>3. FactoredBy(A, n, m, U, Q, L, l)
  BY <1>1
<1> HIDE DEF U, Q, L, l
<1>4. IsUnitLower(L, n)
  BY <1>3 DEF FactoredBy, IsUnitLower
<1>5. IsFactored(A, U, Q, L, n, m)
  <2>1. \A i \in 1..n, j \in 1..m :
           Congruent(Total(Terms(Q, A, n, i, j), n), Total(Terms(L, U, n, i, j), n))
    BY <1>3, FactoredProduct
  <2> QED BY <1>3, <2>1 DEF FactoredBy, IsFactored
<1>6. F.pivots \in Seq(1..m)
  BY <1>2 DEF IsEchelon
<1> QED BY <1>2, <1>4, <1>5, <1>6 DEF U, Q, L

\* What the eliminated matrix takes to 0 is what the matrix takes to 0.
LEMMA SameKernel ==
  ASSUME NEW n \in Nat, NEW m \in Nat, NEW A, NEW U, NEW Q, NEW L, IsFactored(A, U, Q, L, n, m),
         IsPermuted(Q, n), IsUnitLower(L, n), NEW z, IsIntVector(z, m)
  PROVE  (\A i \in 1..n : Congruent(Pair(A[i], z, m), 0))
           <=> \A i \in 1..n : Congruent(Pair(U[i], z, m), 0)
<1> DEFINE g == [q \in 1..n |-> Pair(A[q], z, m)]
           h == [q \in 1..n |-> Pair(U[q], z, m)]
           o == [q \in 1..n |-> 0]
<1>0. IsImage(g, A, z, n, m) /\ IsImage(h, U, z, n, m)
  BY DEF IsImage
<1>1. /\ \A q \in 1..n : g[q] = Pair(A[q], z, m)
      /\ \A q \in 1..n : h[q] = Pair(U[q], z, m)
      /\ \A q \in 1..n : o[q] = 0 /\ o[q] \in Int
  OBVIOUS
<1> HIDE DEF g, h, o
<1>2. /\ \A q \in 1..n : g[q] \in Int /\ h[q] \in Int
      /\ \A i \in 1..n : Congruent(Pair(Q[i], g, n), Pair(L[i], h, n))
  <2>1. AgreeUnder(Q, g, L, h, n)
    BY <1>0, FactoredVector
  <2> QED BY <2>1 DEF AgreeUnder
<1>3. \A i, j \in 1..n : Q[i][j] \in Int /\ L[i][j] \in Int
  <2>1. Q \in Matrix(n, n) /\ L \in Matrix(n, n)
    BY DEF IsFactored
  <2> QED BY <2>1, MatrixRows
<1>4. ASSUME NEW c, \A j \in 1..n : c[j] \in Int PROVE Pair(c, o, n) = 0
  <2> DEFINE f == Products(c, o, n)
  <2>1. \A j \in 1..n : f[j] = 0
    <3> SUFFICES ASSUME NEW j \in 1..n PROVE f[j] = 0
      OBVIOUS
    <3>1. f[j] = c[j] * 0 /\ c[j] \in Int
      BY <1>1, <1>4 DEF Products
    <3> HIDE DEF f
    <3> QED BY <3>1
  <2> HIDE DEF f
  <2>2. Total(f, 0) = 0 /\ Total(f, n) = Total(f, 0)
    <3>1. Total(f, 0) = 0
      BY TotalStep
    <3> QED BY <2>1, <3>1, TotalZeros
  <2> QED BY <2>2 DEF Pair, f
<1>5. \A i \in 1..n : Pair(Q[i], o, n) = 0 /\ Pair(L[i], o, n) = 0
  BY <1>3, <1>4
<1>6. \A i \in 1..n : Pair(Q[i], g, n) \in Int /\ Pair(L[i], h, n) \in Int
  BY <1>2, <1>3, PairFacts
<1>7. ASSUME \A i \in 1..n : Congruent(g[i], 0) PROVE \A i \in 1..n : Congruent(h[i], 0)
  <2>1. ASSUME NEW i \in 1..n PROVE Congruent(Pair(L[i], h, n), Pair(L[i], o, n))
    <3>1. \A j \in 1..n : Q[i][j] \in Int /\ g[j] \in Int /\ o[j] \in Int /\ Congruent(g[j], o[j])
      BY <1>1, <1>2, <1>3, <1>7
    <3>2. Congruent(Pair(Q[i], g, n), Pair(Q[i], o, n))
      BY <3>1, PairCongruent
    <3> DEFINE a == Pair(Q[i], g, n)
               b == Pair(L[i], h, n)
    <3>3. Congruent(a, 0) /\ Congruent(a, b) /\ a \in Int /\ b \in Int /\ 0 \in Int
      BY <1>2, <1>5, <1>6, <3>2
    <3> HIDE DEF a, b
    <3>4. Congruent(b, 0)
      <4>1. Congruent(b, a)
        BY <3>3, CongruentSym
      <4> QED BY <3>3, <4>1, CongruentTrans
    <3> QED BY <1>5, <3>4 DEF b
  <2>2. \A i \in 1..n : h[i] \in Int /\ o[i] \in Int
    BY <1>1, <1>2
  <2>3. \A i \in 1..n : Congruent(h[i], o[i])
    BY <2>1, <2>2, LowerCongruent
  <2> QED BY <1>1, <2>3
<1>8. ASSUME \A i \in 1..n : Congruent(h[i], 0) PROVE \A i \in 1..n : Congruent(g[i], 0)
  <2>1. ASSUME NEW i \in 1..n PROVE Congruent(Pair(Q[i], g, n), Pair(Q[i], o, n))
    <3>1. \A j \in 1..n : L[i][j] \in Int /\ h[j] \in Int /\ o[j] \in Int /\ Congruent(h[j], o[j])
      BY <1>1, <1>2, <1>3, <1>8
    <3>2. Congruent(Pair(L[i], h, n), Pair(L[i], o, n))
      BY <3>1, PairCongruent
    <3> DEFINE a == Pair(Q[i], g, n)
               b == Pair(L[i], h, n)
    <3>3. Congruent(b, 0) /\ Congruent(a, b) /\ a \in Int /\ b \in Int /\ 0 \in Int
      BY <1>2, <1>5, <1>6, <3>2
    <3> HIDE DEF a, b
    <3>4. Congruent(a, 0)
      BY <3>3, CongruentTrans
    <3> QED BY <1>5, <3>4 DEF a
  <2>2. \A i \in 1..n : g[i] \in Int /\ o[i] \in Int
    BY <1>1, <1>2
  <2>3. \A i \in 1..n : Congruent(g[i], o[i])
    BY <2>1, <2>2, PermutedCongruent
  <2> QED BY <1>1, <2>3
<1> QED BY <1>1, <1>7, <1>8

LEMMA PairZeros ==
  ASSUME NEW n \in Nat, NEW a, NEW z, IsIntVector(z, n), \A j \in 1..n : a[j] = 0
  PROVE  Pair(a, z, n) = 0
<1> DEFINE f == Products(a, z, n)
<1>1. \A j \in 1..n : f[j] = 0
  <2> SUFFICES ASSUME NEW j \in 1..n PROVE f[j] = 0
    OBVIOUS
  <2>1. f[j] = a[j] * z[j] /\ a[j] = 0 /\ z[j] \in Int
    BY DEF Products, IsIntVector
  <2> HIDE DEF f
  <2> QED BY <2>1
<1> HIDE DEF f
<1>2. Total(f, 0) = 0
  BY TotalStep
<1>3. Total(f, n) = Total(f, 0)
  BY <1>1, <1>2, TotalZeros
<1> QED BY <1>2, <1>3 DEF Pair, f

\* The unknowns, and a last place for the right-hand side.
Extended(x, k) == [j \in 1..(k + 1) |-> IF j = k + 1 THEN -1 ELSE x[j]]

LEMMA ExtendedPair ==
  ASSUME NEW k \in Nat, NEW a, NEW x, IsIntVector(a, k + 1), IsIntVector(x, k)
  PROVE  /\ IsIntVector(Extended(x, k), k + 1) /\ Pair(a, x, k) \in Int
         /\ Pair(a, Extended(x, k), k + 1) = Pair(a, x, k) - a[k + 1]
         /\ Congruent(Pair(a, Extended(x, k), k + 1), 0) <=> Congruent(Pair(a, x, k), a[k + 1])
<1> DEFINE e == k + 1
           z == Extended(x, k)
           f == Products(a, z, e)
           g == Products(a, x, k)
<1>1. e \in Nat /\ e \in 1..e /\ \A j \in 1..k : j \in 1..e /\ j # e
  OBVIOUS
<1>2. z[e] = -1 /\ \A j \in 1..k : z[j] = x[j]
  BY <1>1 DEF Extended
<1>3. \A j \in 1..e : j = e \/ j \in 1..k
  OBVIOUS
<1>4. IsIntVector(z, e)
  <2>1. -1 \in Int
    OBVIOUS
  <2> HIDE DEF z, e
  <2> QED BY <1>2, <1>3, <2>1 DEF IsIntVector
<1>5. \A j \in 1..k : a[j] \in Int /\ x[j] \in Int
  BY <1>1 DEF IsIntVector
<1>6. Pair(a, x, k) \in Int
  BY <1>5, PairFacts
<1>7. f[e] = -a[e] /\ a[e] \in Int
  <2>1. f[e] = a[e] * z[e]
    BY <1>1 DEF Products
  <2>2. a[e] \in Int
    BY <1>1 DEF IsIntVector
  <2> HIDE DEF f, z, e
  <2> QED BY <1>2, <2>1, <2>2
<1>8. \A j \in 1..k : f[j] = g[j]
  <2>1. \A j \in 1..k : f[j] = a[j] * z[j] /\ g[j] = a[j] * x[j]
    BY <1>1 DEF Products
  <2> HIDE DEF f, g, z
  <2> QED BY <1>2, <2>1
<1> HIDE DEF f, g, z
<1>9. Total(f, e) = Total(f, k) + f[e] /\ Total(f, k) = Total(g, k)
  BY <1>8, TotalStep, TotalEqual
<1>10. Pair(a, z, e) = Total(f, e) /\ Pair(a, x, k) = Total(g, k)
  BY DEF Pair, f, g
<1> DEFINE c == Pair(a, x, k)
           b == a[e]
<1>11. Pair(a, z, e) = c - b /\ c \in Int /\ b \in Int
  <2>1. Pair(a, z, e) = c + (-b) /\ c \in Int /\ b \in Int
    BY <1>6, <1>7, <1>9, <1>10
  <2> HIDE DEF c, b
  <2> QED BY <2>1
<1> HIDE DEF c, b
<1>12. Congruent(Pair(a, z, e), 0) <=> Congruent(c, b)
  BY <1>11, CongruentDifference
<1> QED BY <1>4, <1>11, <1>12 DEF c, b, z, e

LEMMA AugmentedFacts ==
  ASSUME NEW n \in Nat, NEW m \in Nat, NEW A \in Matrix(n, m), NEW v \in [1..n -> Field]
  PROVE  /\ Augmented(A, v) \in Matrix(n, m + 1)
         /\ \A i \in 1..n : /\ Augmented(A, v)[i][m + 1] = v[i]
                            /\ \A j \in 1..m : Augmented(A, v)[i][j] = A[i][j]
<1> DEFINE C == Augmented(A, v)
<1>1. DOMAIN A = 1..n /\ \A i \in 1..n : A[i] \in [1..m -> Field]
  BY DEF Matrix
<1>2. C = [i \in 1..n |-> Append(A[i], v[i])]
  BY <1>1 DEF Augmented
<1>3. \A i \in 1..n : /\ Append(A[i], v[i]) \in [1..(m + 1) -> Field]
                      /\ Append(A[i], v[i])[m + 1] = v[i]
                      /\ \A j \in 1..m : Append(A[i], v[i])[j] = A[i][j]
  <2> SUFFICES ASSUME NEW i \in 1..n
               PROVE  /\ Append(A[i], v[i]) \in [1..(m + 1) -> Field]
                      /\ Append(A[i], v[i])[m + 1] = v[i]
                      /\ \A j \in 1..m : Append(A[i], v[i])[j] = A[i][j]
    OBVIOUS
  <2> DEFINE a == A[i]
             b == v[i]
  <2>1. a \in [1..m -> Field] /\ b \in Field
    BY <1>1
  <2> HIDE DEF a, b
  <2>2. IsAppended(Append(a, b), a, b, m, Field)
    BY <2>1, AppendFacts
  <2> QED BY <2>2 DEF a, b, IsAppended
<1> QED BY <1>2, <1>3 DEF Matrix

\* x is a solution of A x = v.
IsSolution(A, x, v, n, m) == \A i \in 1..n : Congruent(Pair(A[i], x, m), v[i])

LEMMA SolutionFound ==
  ASSUME NEW n \in Nat, n >= 1, NEW m \in Nat, NEW A \in Matrix(n, m), NEW v \in [1..n -> Field],
         NEW C, C = Augmented(A, v), NEW G, G = PLU(C)
  PROVE  /\ Rank(A) = Rank(C) =>
              /\ solveByBackwardSubstitution(G.M, G.pivots) \in [1..m -> Field]
              /\ IsSolution(A, solveByBackwardSubstitution(G.M, G.pivots), v, n, m)
         /\ \A x : IsIntVector(x, m) /\ IsSolution(A, x, v, n, m) => Rank(A) = Rank(C)
<1> DEFINE e == m + 1
           U == G.M
           Q == G.Perm
           L == G.L
           p == G.pivots
<1>1. /\ C \in Matrix(n, e) /\ e \in Nat /\ e \in 1..e
      /\ \A i \in 1..n : C[i][e] = v[i] /\ \A j \in 1..m : C[i][j] = A[i][j]
  <2>1. e \in Nat /\ e \in 1..e
    OBVIOUS
  <2>2. /\ C \in Matrix(n, m + 1)
        /\ \A i \in 1..n : C[i][m + 1] = v[i] /\ \A j \in 1..m : C[i][j] = A[i][j]
    <3>1. Augmented(A, v) = C
      OBVIOUS
    <3> QED BY <3>1, AugmentedFacts
  <2> QED BY <2>1, <2>2
<1>2. /\ PLU(C).pivots \in Seq(1..m) <=> Rank(A) = Rank(C)
      /\ ~(PLU(C).pivots \in Seq(1..m)) =>
           Len(PLU(C).pivots) \in 1..n /\ PLU(C).pivots[Len(PLU(C).pivots)] = m + 1
  BY <1>1, SameRank, SMTT(40)
<1>3. /\ IsFactored(C, U, Q, L, n, e) /\ IsPermuted(Q, n) /\ IsUnitLower(L, n)
      /\ IsEchelon(U, n, e, p) /\ p \in Seq(1..e)
  <2> HIDE DEF e
  <2> QED BY <1>1, PLUFactored
<1>4. U \in Matrix(n, e)
  BY <1>3 DEF IsFactored
<1>5. p \in Seq(1..m) <=> Rank(A) = Rank(C)
  BY <1>2
<1>6. ~(p \in Seq(1..m)) => Len(p) \in 1..n /\ p[Len(p)] = e
  BY <1>2
<1> HIDE DEF U, Q, L, p
<1>7. \A i \in 1..n : IsIntVector(U[i], e) /\ IsIntVector(C[i], e)
  <2> HIDE DEF e
  <2>1. \A i \in 1..n, j \in 1..e : U[i][j] \in Int /\ C[i][j] \in Int
    BY <1>1, <1>4, MatrixRows
  <2> QED BY <2>1 DEF IsIntVector
<1>8. ASSUME NEW x, IsIntVector(x, m)
      PROVE  (\A i \in 1..n : Congruent(Pair(C[i], x, m), C[i][e]))
               <=> \A i \in 1..n : Congruent(Pair(U[i], x, m), U[i][e])
  <2> DEFINE z == Extended(x, m)
  <2>1. \A i \in 1..n : /\ IsIntVector(z, e)
                        /\ Congruent(Pair(C[i], z, e), 0) <=> Congruent(Pair(C[i], x, m), C[i][e])
                        /\ Congruent(Pair(U[i], z, e), 0) <=> Congruent(Pair(U[i], x, m), U[i][e])
    BY <1>7, <1>8, ExtendedPair
  <2>2. IsIntVector(z, e)
    <3>1. 1 \in 1..n
      OBVIOUS
    <3> QED BY <2>1, <3>1
  <2> HIDE DEF z, e
  <2>3. (\A i \in 1..n : Congruent(Pair(C[i], z, e), 0))
           <=> \A i \in 1..n : Congruent(Pair(U[i], z, e), 0)
    BY <1>1, <1>3, <2>2, SameKernel
  <2> QED BY <2>1, <2>3
<1>9. ASSUME NEW x, IsIntVector(x, m)
      PROVE  IsSolution(A, x, v, n, m) <=> \A i \in 1..n : Congruent(Pair(C[i], x, m), C[i][e])
  <2>1. ASSUME NEW i \in 1..n PROVE Pair(C[i], x, m) = Pair(A[i], x, m) /\ C[i][e] = v[i]
    <3>1. Products(C[i], x, m) = Products(A[i], x, m)
      BY <1>1 DEF Products
    <3> QED BY <1>1, <3>1 DEF Pair
  <2> HIDE DEF e
  <2> QED BY <2>1 DEF IsSolution
<1>10. ASSUME Rank(A) = Rank(C), NEW x, x = solveByBackwardSubstitution(U, p)
       PROVE  x \in [1..m -> Field] /\ IsSolution(A, x, v, n, m)
  <2>1. p \in Seq(1..m) /\ U \in Matrix(n, m + 1) /\ IsEchelon(U, n, m + 1, p)
    BY <1>3, <1>4, <1>5, <1>10
  <2>2. x \in [1..m -> Field] /\ \A i \in 1..n : Congruent(Pair(U[i], x, m), U[i][m + 1])
    BY <1>10, <2>1, BackwardSolves
  <2>3. IsIntVector(x, m)
    BY <2>2, FieldInt DEF IsIntVector
  <2> QED BY <1>8, <1>9, <2>2, <2>3
<1>11. ASSUME NEW x, IsIntVector(x, m), IsSolution(A, x, v, n, m) PROVE Rank(A) = Rank(C)
  <2>1. \A i \in 1..n : Congruent(Pair(U[i], x, m), U[i][e])
    <3> HIDE DEF e
    <3> QED BY <1>8, <1>9, <1>11
  <2> SUFFICES ASSUME ~(p \in Seq(1..m)) PROVE FALSE
    BY <1>5
  <2> DEFINE l == Len(p)
  <2>2. l \in 1..n /\ p[l] = e
    BY <1>6
  <2>3. l \in 1..Len(p)
    BY <2>2
  <2>4. U[l][e] # 0 /\ \A j \in 1..(e - 1) : U[l][j] = 0
    <3> HIDE DEF e, l
    <3> QED BY <1>3, <2>2, <2>3 DEF IsEchelon
  <2>5. \A j \in 1..m : U[l][j] = 0
    BY <2>4
  <2>6. Pair(U[l], x, m) = 0
    <3> HIDE DEF l
    <3> QED BY <1>11, <2>5, PairZeros
  <2>7. Congruent(0, U[l][e])
    <3> HIDE DEF l, e
    <3> QED BY <2>1, <2>2, <2>6
  <2>8. U[l][e] \in Field /\ 0 \in Field
    <3> HIDE DEF l, e
    <3> QED BY <1>1, <1>4, <2>2, MatrixRows, ModulusFacts
  <2>9. 0 = U[l][e]
    <3> HIDE DEF l, e
    <3> QED BY <2>7, <2>8, CongruentField
  <2> QED BY <2>4, <2>9
<1>12. Rank(A) = Rank(C) =>
         /\ solveByBackwardSubstitution(U, p) \in [1..m -> Field]
         /\ IsSolution(A, solveByBackwardSubstitution(U, p), v, n, m)
  BY <1>10
<1> QED BY <1>11, <1>12 DEF U, p

\* Columns of a factored matrix are factored.
Columns(A, own, n, k) == [i \in 1..n |-> [j \in 1..k |-> A[i][own[j]]]]

LEMMA ColumnsFactored ==
  ASSUME NEW n \in Nat, NEW m \in Nat, NEW A, NEW U, NEW Q, NEW L, IsFactored(A, U, Q, L, n, m),
         NEW k \in Nat, NEW own \in [1..k -> 1..m]
  PROVE  IsFactored(Columns(A, own, n, k), Columns(U, own, n, k), Q, L, n, k)
<1> DEFINE B == Columns(A, own, n, k)
           V == Columns(U, own, n, k)
<1>1. /\ A \in Matrix(n, m) /\ U \in Matrix(n, m) /\ Q \in Matrix(n, n) /\ L \in Matrix(n, n)
      /\ \A i \in 1..n, j \in 1..m :
           Congruent(Total(Terms(Q, A, n, i, j), n), Total(Terms(L, U, n, i, j), n))
  BY DEF IsFactored
<1>2. \A i \in 1..n, j \in 1..m : A[i][j] \in Field /\ U[i][j] \in Field
  BY <1>1, MatrixRows
<1>3. \A i \in 1..n, j \in 1..k : B[i][j] = A[i][own[j]] /\ V[i][j] = U[i][own[j]]
  BY DEF Columns
<1>4. B \in Matrix(n, k) /\ V \in Matrix(n, k)
  BY <1>2 DEF Columns, Matrix
<1>5. ASSUME NEW i \in 1..n, NEW j \in 1..k
      PROVE  Congruent(Total(Terms(Q, B, n, i, j), n), Total(Terms(L, V, n, i, j), n))
  <2>1. own[j] \in 1..m
    OBVIOUS
  <2>2. Terms(Q, B, n, i, j) = Terms(Q, A, n, i, own[j])
    BY <1>3 DEF Terms
  <2>3. Terms(L, V, n, i, j) = Terms(L, U, n, i, own[j])
    BY <1>3 DEF Terms
  <2> HIDE DEF B, V
  <2> QED BY <1>1, <2>1, <2>2, <2>3
<1> QED BY <1>1, <1>4, <1>5 DEF IsFactored

\* Before the elimination it is the rows of the span program that are combined.
LEMMA SolutionsAgree ==
  ASSUME NEW n \in Nat, n >= 1, NEW k \in Nat, NEW A, NEW U, NEW Q, NEW L,
         IsFactored(A, U, Q, L, n, k), IsPermuted(Q, n), IsUnitLower(L, n),
         NEW y, y = solveByForwardSubstitution(L, TimesVector(Q, e1(n)))
  PROVE  /\ y \in [1..n -> Field]
         /\ \A x : IsIntVector(x, k) =>
              (IsSolution(U, x, y, n, k) <=> IsSolution(A, x, e1(n), n, k))
<1> DEFINE c == e1(n)
           b == TimesVector(Q, c)
<1>1. Q \in Matrix(n, n) /\ L \in Matrix(n, n)
  BY DEF IsFactored
<1>2. \A i, j \in 1..n : Q[i][j] \in Field /\ L[i][j] \in Field /\ Q[i][j] \in Int /\ L[i][j] \in Int
  BY <1>1, MatrixRows
<1>3. c \in [1..n -> Field] /\ \A i \in 1..n : c[i] \in Field /\ c[i] \in Int
  BY ModulusFacts DEF e1
<1>4. DOMAIN Q = 1..n /\ \A i \in 1..n : Q[i] \in [1..n -> Field]
  BY <1>1 DEF Matrix
<1>5. ASSUME NEW i \in 1..n
      PROVE  /\ b[i] \in Field /\ Congruent(b[i], Pair(Q[i], c, n)) /\ Pair(Q[i], c, n) \in Int
             /\ b[i] = Dot(Q[i], c)
  <2> DEFINE u == Q[i]
  <2>1. b[i] = Dot(u, c)
    BY <1>4 DEF TimesVector
  <2>2. u \in [1..n -> Field] /\ \A j \in 1..n : c[j] \in Field
    BY <1>3, <1>4
  <2> HIDE DEF u, b, c
  <2>3. Dot(u, c) \in Field /\ Congruent(Dot(u, c), Pair(u, c, n)) /\ Pair(u, c, n) \in Int
    BY <2>2, DotFacts
  <2> QED BY <2>1, <2>3 DEF u
<1>6. b \in [1..n -> Field]
  <2>1. b = [i \in 1..n |-> Dot(Q[i], c)]
    BY <1>4 DEF TimesVector
  <2> HIDE DEF c
  <2> QED BY <1>5, <2>1
<1> HIDE DEF b, c
<1>7. y \in [1..n -> Field] /\ \A i \in 1..n : Congruent(Pair(L[i], y, n), b[i])
  <2>1. /\ \A i \in 1..n : L[i][i] = 1
        /\ \A i, j \in 1..n : i < j => L[i][j] = 0
    BY DEF IsUnitLower
  <2>2. y = solveByForwardSubstitution(L, b)
    BY DEF b, c
  <2> QED BY <1>1, <1>6, <2>1, <2>2, ForwardSolves
<1>8. \A i \in 1..n : y[i] \in Int
  BY <1>7, FieldInt
<1>9. ASSUME NEW i \in 1..n
      PROVE  /\ Congruent(Pair(L[i], y, n), Pair(Q[i], c, n))
             /\ Pair(L[i], y, n) \in Int /\ Pair(Q[i], c, n) \in Int
  <2>1. Pair(L[i], y, n) \in Int
    BY <1>2, <1>8, PairFacts
  <2>2. b[i] \in Int /\ Congruent(b[i], Pair(Q[i], c, n)) /\ Pair(Q[i], c, n) \in Int
    BY <1>5, FieldInt
  <2>3. Congruent(Pair(L[i], y, n), b[i])
    BY <1>7
  <2> QED BY <2>1, <2>2, <2>3, CongruentTrans
<1>10. ASSUME NEW x, IsIntVector(x, k)
       PROVE  IsSolution(U, x, y, n, k) <=> IsSolution(A, x, c, n, k)
  <2> DEFINE g == [q \in 1..n |-> Pair(A[q], x, k)]
             h == [q \in 1..n |-> Pair(U[q], x, k)]
  <2>1. IsImage(g, A, x, n, k) /\ IsImage(h, U, x, n, k)
    BY DEF IsImage
  <2>2. /\ \A q \in 1..n : g[q] = Pair(A[q], x, k)
        /\ \A q \in 1..n : h[q] = Pair(U[q], x, k)
    OBVIOUS
  <2> HIDE DEF g, h
  <2>3. AgreeUnder(Q, g, L, h, n)
    BY <1>10, <2>1, FactoredVector
  <2>4. \A q \in 1..n : g[q] \in Int /\ h[q] \in Int
    BY <2>3 DEF AgreeUnder
  <2>5. \A i \in 1..n : Pair(Q[i], g, n) \in Int /\ Pair(L[i], h, n) \in Int
    BY <1>2, <2>4, PairFacts
  <2>6. ASSUME NEW i \in 1..n
        PROVE  Congruent(Pair(L[i], h, n), Pair(L[i], y, n))
                 <=> Congruent(Pair(Q[i], g, n), Pair(Q[i], c, n))
    <3> DEFINE s == Pair(L[i], h, n)
               t == Pair(L[i], y, n)
               u == Pair(Q[i], g, n)
               w == Pair(Q[i], c, n)
    <3>1. s \in Int /\ t \in Int /\ u \in Int /\ w \in Int /\ Congruent(t, w) /\ Congruent(u, s)
      BY <1>9, <2>3, <2>5 DEF AgreeUnder
    <3> HIDE DEF s, t, u, w
    <3>2. Congruent(s, u) /\ Congruent(w, t)
      BY <3>1, CongruentSym
    <3>3. ASSUME Congruent(s, t) PROVE Congruent(u, w)
      <4>1. Congruent(u, t)
        BY <3>1, <3>3, CongruentTrans
      <4> QED BY <3>1, <4>1, CongruentTrans
    <3>4. ASSUME Congruent(u, w) PROVE Congruent(s, t)
      <4>1. Congruent(s, w)
        BY <3>1, <3>2, <3>4, CongruentTrans
      <4> QED BY <3>1, <3>2, <4>1, CongruentTrans
    <3> QED BY <3>3, <3>4 DEF s, t, u, w
  <2>7. ASSUME IsSolution(U, x, y, n, k) PROVE IsSolution(A, x, c, n, k)
    <3>1. \A q \in 1..n : Congruent(h[q], y[q])
      BY <2>2, <2>7 DEF IsSolution
    <3>2. \A i \in 1..n : Congruent(Pair(L[i], h, n), Pair(L[i], y, n))
      BY <1>2, <1>8, <2>4, <3>1, PairCongruent
    <3>3. \A i \in 1..n : Congruent(Pair(Q[i], g, n), Pair(Q[i], c, n))
      BY <2>6, <3>2
    <3>4. \A i \in 1..n : g[i] \in Int /\ c[i] \in Int
      BY <1>3, <2>4
    <3>5. \A q \in 1..n : Congruent(g[q], c[q])
      BY <3>3, <3>4, PermutedCongruent
    <3> QED BY <2>2, <3>5 DEF IsSolution
  <2>8. ASSUME IsSolution(A, x, c, n, k) PROVE IsSolution(U, x, y, n, k)
    <3>1. \A q \in 1..n : Congruent(g[q], c[q])
      BY <2>2, <2>8 DEF IsSolution
    <3>2. \A i \in 1..n : Congruent(Pair(Q[i], g, n), Pair(Q[i], c, n))
      BY <1>2, <1>3, <2>4, <3>1, PairCongruent
    <3>3. \A i \in 1..n : Congruent(Pair(L[i], h, n), Pair(L[i], y, n))
      BY <2>6, <3>2
    <3>4. \A i \in 1..n : h[i] \in Int /\ y[i] \in Int
      BY <1>8, <2>4
    <3>5. \A q \in 1..n : Congruent(h[q], y[q])
      BY <3>3, <3>4, LowerCongruent
    <3> QED BY <2>2, <3>5 DEF IsSolution
  <2> QED BY <2>7, <2>8
<1> QED BY <1>7, <1>10 DEF c

-----------------------------------------------------------------------------
(* The certificate. *)

\* An access structure with r rows and d columns, and coins for it.
IsStructure(a, r, d) ==
  /\ r \in Nat /\ d \in Nat /\ r >= 1 /\ d >= 1
  /\ a.M \in Matrix(r, d) /\ a.L \in Seq(Replicas) /\ Len(a.L) = r
  /\ a.plu = PLU(Transpose(a.M)) /\ a.U = a.plu.M
  /\ a.y = solveByForwardSubstitution(a.plu.L, TimesVector(a.plu.Perm, e1(d)))
  /\ \A i \in 1..d : Coins[i] \in Field

LEMMA StructureOf ==
  ASSUME NEW c \in Confs, NEW a, a = initialize(c)
  PROVE  /\ \E r, d \in Nat : IsStructure(a, r, d)
         /\ a.M = createMspWithInsertionAlgorithm(from_json(c.quorum)).M
         /\ a.L = createMspWithInsertionAlgorithm(from_json(c.quorum)).L
         /\ a.formula = from_json(c.quorum)
<1>1. /\ a.L \in Seq(Replicas) /\ a.formula = from_json(c.quorum)
      /\ a.plu = PLU(Transpose(a.M)) /\ a.U = a.plu.M
      /\ a.y = solveByForwardSubstitution(a.plu.L, TimesVector(a.plu.Perm, e1(Len(a.M[1]))))
  BY InitializeFacts
<1>2. PICK r \in Nat, d \in Nat : r >= 1 /\ d >= 1 /\ a.M \in Matrix(r, d) /\ Len(a.L) = r
  BY InitializeFacts
<1> DEFINE msp == createMspWithInsertionAlgorithm(from_json(c.quorum))
<1>3. a.M = msp.M /\ a.L = msp.L
  <2> HIDE DEF msp
  <2> QED BY DEF initialize, msp
<1>4. Len(a.M[1]) = d
  <2>1. a.M[1] \in [1..d -> Field]
    BY <1>2 DEF Matrix
  <2> QED BY <2>1, FunctionIsSeq
<1>5. \A i \in 1..d : Coins[i] \in Field
  <2>1. Coins \in Seq(Field) /\ d <= Len(Coins)
    BY <1>3, <1>4, CoinsAssumption
  <2>2. \A i \in 1..d : i \in 1..Len(Coins)
    BY <2>1
  <2> QED BY <2>1, <2>2
<1>6. IsStructure(a, r, d)
  BY <1>1, <1>2, <1>4, <1>5 DEF IsStructure
<1> QED BY <1>1, <1>3, <1>6

\* The rows of M that belong to reps, as columns.
OwnedRows(a, d, reps) == Columns(Transpose(a.M), Owned(a, reps), d, Len(Owned(a, reps)))

LEMMA OwnedFacts ==
  ASSUME NEW a, NEW r, NEW d, IsStructure(a, r, d), NEW reps
  PROVE  LET own == Owned(a, reps)
         IN  /\ own = Ascending({j \in 1..r : a.L[j] \in reps}, r)
             /\ Len(own) \in Nat /\ own \in [1..Len(own) -> 1..r] /\ DOMAIN own = 1..Len(own)
             /\ \A j \in 1..Len(own) : a.L[own[j]] \in reps
             /\ \A i \in 1..r : a.L[i] \in reps => \E j \in 1..Len(own) : own[j] = i
<1> DEFINE own == Owned(a, reps)
           S == {j \in 1..r : a.L[j] \in reps}
<1>1. r \in Nat /\ DOMAIN a.L = 1..r /\ Len(a.L) = r
  BY DEF IsStructure
<1>2. own = Ascending(S, r)
  BY <1>1 DEF Owned
<1>3. /\ Ascending(S, r) \in Seq(1..r)
      /\ \A i \in 1..Len(Ascending(S, r)) : Ascending(S, r)[i] \in S \cap (1..r)
      /\ \A j \in S \cap (1..r) : /\ Cardinality(S \cap (1..j)) \in 1..Len(Ascending(S, r))
                                  /\ Ascending(S, r)[Cardinality(S \cap (1..j))] = j
  <2> HIDE DEF S
  <2> QED BY <1>1, AscendingFacts
<1> HIDE DEF own
<1>4. own \in Seq(1..r)
  BY <1>2, <1>3
<1>5. Len(own) \in Nat /\ own \in [1..Len(own) -> 1..r] /\ DOMAIN own = 1..Len(own)
  BY <1>4, LenProperties
<1>6. \A j \in 1..Len(own) : own[j] \in S
  BY <1>2, <1>3
<1>7. \A i \in S : \E j \in 1..Len(own) : own[j] = i
  <2>1. \A i \in S : i \in S \cap (1..r)
    OBVIOUS
  <2> HIDE DEF S
  <2> QED BY <1>2, <1>3, <2>1
<1> QED BY <1>2, <1>5, <1>6, <1>7 DEF own

\* The group is accepted when its rows can be combined to the first unit vector,
\* and then the recombination vector does that.
LEMMA Recombination ==
  ASSUME NEW a, NEW r, NEW d, IsStructure(a, r, d), NEW reps, NEW k, k = Len(Owned(a, reps)),
         NEW A, A = OwnedRows(a, d, reps)
  PROVE  /\ isAuthorizedGroupWithPLU(a, reps) =>
              /\ getRecombinationVector(a, reps) \in [1..k -> Field]
              /\ IsSolution(A, getRecombinationVector(a, reps), e1(d), d, k)
         /\ \A x : IsIntVector(x, k) /\ IsSolution(A, x, e1(d), d, k)
                     => isAuthorizedGroupWithPLU(a, reps)
<1> DEFINE own == Owned(a, reps)
           T == Transpose(a.M)
           F == a.plu
           U == F.M
           Q == F.Perm
           L == F.L
           B == Columns(U, own, d, k)
           C == Augmented(B, a.y)
           G == PLU(C)
<1>1. /\ r \in Nat /\ d \in Nat /\ r >= 1 /\ d >= 1 /\ a.M \in Matrix(r, d)
      /\ F = PLU(T) /\ a.U = U
      /\ a.y = solveByForwardSubstitution(L, TimesVector(Q, e1(d)))
  BY DEF IsStructure
<1>2. k \in Nat /\ own \in [1..k -> 1..r] /\ DOMAIN own = 1..k
  BY OwnedFacts
<1>3. T \in Matrix(d, r)
  BY <1>1, TransposeFacts
<1>4. A = Columns(T, own, d, k)
  BY DEF OwnedRows
<1> HIDE DEF own, T
<1>5. IsFactored(T, U, Q, L, d, r) /\ IsPermuted(Q, d) /\ IsUnitLower(L, d)
  <2> HIDE DEF F
  <2> QED BY <1>1, <1>3, PLUFactored
<1> HIDE DEF U, Q, L, F
<1>6. IsFactored(A, B, Q, L, d, k)
  BY <1>1, <1>2, <1>4, <1>5, ColumnsFactored
<1>7. B \in Matrix(d, k)
  BY <1>6 DEF IsFactored
<1>8. getColsOfUOwnedByReps(a, reps) = B
  <2>1. DOMAIN U = 1..d
    BY <1>5 DEF IsFactored, Matrix
  <2> QED BY <1>1, <1>2, <2>1 DEF getColsOfUOwnedByReps, Columns, own
<1> HIDE DEF B
<1> DEFINE y == a.y
<1>9. /\ y \in [1..d -> Field]
      /\ \A x : IsIntVector(x, k) => (IsSolution(B, x, y, d, k) <=> IsSolution(A, x, e1(d), d, k))
  <2>1. y = solveByForwardSubstitution(L, TimesVector(Q, e1(d)))
    BY <1>1
  <2> HIDE DEF y
  <2> QED BY <1>1, <1>2, <1>5, <1>6, <2>1, SolutionsAgree
<1>10. /\ isAuthorizedGroupWithPLU(a, reps) <=> Rank(B) = Rank(C)
       /\ getRecombinationVector(a, reps) = solveByBackwardSubstitution(G.M, G.pivots)
  BY <1>8 DEF isAuthorizedGroupWithPLU, getRecombinationVector
<1>11. C = Augmented(B, y)
  OBVIOUS
<1> HIDE DEF y, C
<1>12. /\ Rank(B) = Rank(C) =>
            /\ solveByBackwardSubstitution(G.M, G.pivots) \in [1..k -> Field]
            /\ IsSolution(B, solveByBackwardSubstitution(G.M, G.pivots), y, d, k)
       /\ \A x : IsIntVector(x, k) /\ IsSolution(B, x, y, d, k) => Rank(B) = Rank(C)
  BY <1>1, <1>2, <1>7, <1>9, <1>11, SolutionFound
<1>13. \A x \in [1..k -> Field] : IsIntVector(x, k)
  BY FieldInt DEF IsIntVector
<1> HIDE DEF G
<1> QED BY <1>9, <1>10, <1>12, <1>13

LEMMA SharesFacts ==
  ASSUME NEW a, NEW r, NEW d, IsStructure(a, r, d), NEW s, s = shareRandSecret(a)
  PROVE  /\ s \in [1..r -> Field]
         /\ \A j \in 1..r : /\ Congruent(s[j], Pair(a.M[j], Coins, d))
                            /\ Pair(a.M[j], Coins, d) \in Int
<1>1. /\ d \in Nat /\ a.M \in Matrix(r, d) /\ \A i \in 1..d : Coins[i] \in Field
  BY DEF IsStructure
<1>2. DOMAIN a.M = 1..r /\ \A j \in 1..r : a.M[j] \in [1..d -> Field]
  BY <1>1 DEF Matrix
<1>3. s = [j \in 1..r |-> Dot(a.M[j], Coins)]
  BY <1>2 DEF shareRandSecret, TimesVector
<1>4. ASSUME NEW j \in 1..r
      PROVE  /\ Dot(a.M[j], Coins) \in Field /\ Congruent(Dot(a.M[j], Coins), Pair(a.M[j], Coins, d))
             /\ Pair(a.M[j], Coins, d) \in Int
  <2> DEFINE u == a.M[j]
  <2>1. u \in [1..d -> Field]
    BY <1>2
  <2> HIDE DEF u
  <2>2. /\ Dot(u, Coins) \in Field /\ Congruent(Dot(u, Coins), Pair(u, Coins, d))
        /\ Pair(u, Coins, d) \in Int
    BY <1>1, <2>1, DotFacts
  <2> QED BY <2>2 DEF u
<1> QED BY <1>3, <1>4

\* The part certificates of the owners.
ArePartsOf(ps, s, a) == \A q \in Replicas : ps[q] = Part(s, a, q)

\* The shares of reps come together in the order of the rows.
LEMMA RecoveredShares ==
  ASSUME NEW a, NEW r, NEW d, IsStructure(a, r, d), NEW s, s \in [1..r -> Field],
         \A j \in 1..r : s[j] # 0, NEW ps, ArePartsOf(ps, s, a), NEW reps,
         NEW k, k = Len(Owned(a, reps))
  PROVE  recoverGenThreshSig(a, ps, reps)
           = Dot([j \in 1..k |-> s[Owned(a, reps)[j]]], getRecombinationVector(a, reps))
<1> DEFINE own == Owned(a, reps)
           before(j) == {i \in 1..j : a.L[i] = a.L[j]}
           temp == [j \in DOMAIN a.L |->
                      IF a.L[j] \in reps THEN ps[a.L[j]][Cardinality(before(j))] ELSE 0]
           full == Ascending({j \in DOMAIN temp : temp[j] # 0}, Len(temp))
           x == getRecombinationVector(a, reps)
<1>1. recoverGenThreshSig(a, ps, reps) = Dot([j \in DOMAIN full |-> temp[full[j]]], x)
  BY DEF recoverGenThreshSig
<1>2. r \in Nat /\ a.L \in Seq(Replicas) /\ Len(a.L) = r /\ DOMAIN a.L = 1..r
      /\ \A j \in 1..r : a.L[j] \in Replicas
  BY DEF IsStructure
<1>3. /\ own = Ascending({j \in 1..r : a.L[j] \in reps}, r)
      /\ own \in [1..k -> 1..r] /\ DOMAIN own = 1..k
      /\ \A j \in 1..k : a.L[own[j]] \in reps
  <2>1. own = Ascending({j \in 1..r : a.L[j] \in reps}, r)
    BY OwnedFacts
  <2>2. own \in [1..k -> 1..r] /\ DOMAIN own = 1..k
    BY OwnedFacts
  <2>3. \A j \in 1..k : a.L[own[j]] \in reps
    BY OwnedFacts
  <2> QED BY <2>1, <2>2, <2>3
<1> HIDE DEF own, x
<1>4. ASSUME NEW j \in 1..r PROVE ps[a.L[j]][Cardinality(before(j))] = s[j]
  <2> DEFINE q == a.L[j]
             S == {i \in 1..r : a.L[i] \in {q}}
             o == Owned(a, {q})
             c == Cardinality(before(j))
  <2>1. q \in Replicas /\ ps[q] = [i \in DOMAIN o |-> s[o[i]]]
    <3>1. q \in Replicas
      BY <1>2
    <3> HIDE DEF q
    <3> QED BY <3>1 DEF ArePartsOf, Part
  <2>2. o = Ascending(S, r) /\ DOMAIN o = 1..Len(o)
    <3> HIDE DEF q
    <3> QED BY OwnedFacts
  <2>3. S \cap (1..j) = before(j)
    BY <1>2
  <2>4. j \in S \cap (1..r)
    OBVIOUS
  <2>5. c \in 1..Len(o) /\ o[c] = j
    <3>1. /\ Cardinality(S \cap (1..j)) \in 1..Len(Ascending(S, r))
          /\ Ascending(S, r)[Cardinality(S \cap (1..j))] = j
      <4> HIDE DEF S
      <4> QED BY <1>2, <2>4, AscendingFacts
    <3> HIDE DEF S, before, o
    <3> QED BY <2>2, <2>3, <3>1
  <2> HIDE DEF o, c, S
  <2>6. ps[q][c] = s[o[c]]
    BY <2>1, <2>2, <2>5
  <2> QED BY <2>5, <2>6 DEF q, c
<1> HIDE DEF before
<1>5. temp = [j \in 1..r |-> IF a.L[j] \in reps THEN s[j] ELSE 0]
  BY <1>2, <1>4
<1> HIDE DEF temp
<1>6. DOMAIN temp = 1..r /\ Len(temp) = r
  <2>1. \A j \in 1..r : s[j] \in Field \cup {0}
    OBVIOUS
  <2>2. temp \in [1..r -> Field \cup {0}]
    BY <1>5, <2>1
  <2> QED BY <1>2, <2>2, FunctionIsSeq
<1>7. {j \in DOMAIN temp : temp[j] # 0} = {j \in 1..r : a.L[j] \in reps}
  BY <1>5, <1>6
<1>8. full = own
  BY <1>3, <1>6, <1>7
<1> HIDE DEF full
<1>9. [j \in DOMAIN full |-> temp[full[j]]] = [j \in 1..k |-> s[own[j]]]
  <2>1. \A j \in 1..k : temp[own[j]] = s[own[j]]
    BY <1>3, <1>5
  <2> QED BY <1>3, <1>8, <2>1
<1> QED BY <1>1, <1>9 DEF own, x

\* Combined in this way the shares of reps give the secret.
LEMMA SecretRecovered ==
  ASSUME NEW a, NEW r, NEW d, IsStructure(a, r, d), NEW s, s = shareRandSecret(a), NEW reps,
         NEW own, own = Owned(a, reps), NEW k, k = Len(own), NEW x \in [1..k -> Field],
         IsSolution(OwnedRows(a, d, reps), x, e1(d), d, k)
  PROVE  Dot([j \in 1..k |-> s[own[j]]], x) = Coins[1]
<1> DEFINE A == OwnedRows(a, d, reps)
           Y == [j \in 1..k |-> a.M[own[j]]]
           u == [q \in 1..d |-> Total([j \in 1..k |-> x[j] * Y[j][q]], k)]
           w == [j \in 1..k |-> Pair(Y[j], Coins, d)]
           v == [j \in 1..k |-> s[own[j]]]
<1>1. /\ r \in Nat /\ d \in Nat /\ r >= 1 /\ d >= 1 /\ a.M \in Matrix(r, d)
      /\ \A i \in 1..d : Coins[i] \in Field /\ Coins[i] \in Int
  BY FieldInt DEF IsStructure
<1>2. k \in Nat /\ own \in [1..k -> 1..r]
  BY OwnedFacts
<1>3. /\ s \in [1..r -> Field]
      /\ \A j \in 1..r : /\ Congruent(s[j], Pair(a.M[j], Coins, d))
                         /\ Pair(a.M[j], Coins, d) \in Int
  BY SharesFacts
<1>4. \A j \in 1..k, q \in 1..d : Y[j][q] = a.M[own[j]][q] /\ Y[j][q] \in Int
  <2>1. \A i \in 1..r, q \in 1..d : a.M[i][q] \in Int
    <3> DEFINE M == a.M
    <3>1. M \in Matrix(r, d)
      BY <1>1
    <3> HIDE DEF M
    <3>2. \A i \in 1..r, q \in 1..d : M[i][q] \in Int
      BY <1>1, <3>1, MatrixRows
    <3> QED BY <3>2 DEF M
  <2>2. \A j \in 1..k : own[j] \in 1..r
    BY <1>2
  <2> QED BY <2>1, <2>2
<1>5. \A j \in 1..k : x[j] \in Int /\ x[j] \in Field
  BY FieldInt
<1>6. ASSUME NEW j \in 1..k
      PROVE  v[j] \in Field /\ v[j] \in Int /\ w[j] \in Int /\ Congruent(v[j], w[j])
  <2>1. own[j] \in 1..r /\ v[j] = s[own[j]] /\ w[j] = Pair(a.M[own[j]], Coins, d)
    BY <1>2
  <2> HIDE DEF v, w
  <2> QED BY <1>3, <2>1, FieldInt
<1>7. v \in [1..k -> Field]
  <2>1. v = [j \in 1..k |-> v[j]]
    OBVIOUS
  <2> HIDE DEF v
  <2> QED BY <1>6, <2>1
<1>8. Exchanges(x, Y, Coins, k)
  <2> HIDE DEF Y
  <2> QED BY <1>2, <1>5, PairExchange
<1>9. Pair(u, Coins, d) = Pair(x, w, k)
  <2>1. \A q \in 1..d : u[q] = Total([j \in 1..k |-> x[j] * Y[j][q]], k)
    OBVIOUS
  <2>2. \A j \in 1..k : w[j] = Pair(Y[j], Coins, d)
    OBVIOUS
  <2>3. \A q \in 1..d : Coins[q] \in Int /\ \A j \in 1..k : Y[j][q] \in Int
    BY <1>1, <1>4
  <2> HIDE DEF u, w, Y
  <2> QED BY <1>1, <1>8, <2>1, <2>2, <2>3 DEF Exchanges
<1>10. ASSUME NEW q \in 1..d
       PROVE  u[q] \in Int /\ Congruent(u[q], e1(d)[q]) /\ e1(d)[q] \in Int
  <2>1. \A j \in 1..k : A[q][j] = Y[j][q]
    <3>1. Transpose(a.M) \in Matrix(d, r) /\ \A i \in 1..r : Transpose(a.M)[q][i] = a.M[i][q]
      BY <1>1, TransposeFacts
    <3>2. \A j \in 1..k : A[q][j] = Transpose(a.M)[q][own[j]]
      BY DEF OwnedRows, Columns
    <3>3. \A j \in 1..k : own[j] \in 1..r
      BY <1>2
    <3> HIDE DEF A, Y
    <3> QED BY <1>4, <3>1, <3>2, <3>3
  <2> HIDE DEF A
  <2>2. \A j \in 1..k : A[q][j] * x[j] = x[j] * Y[j][q]
    <3> HIDE DEF Y
    <3> QED BY <1>4, <1>5, <2>1, IntTimes
  <2>3. Pair(A[q], x, k) = u[q]
    <3>1. Products(A[q], x, k) = [j \in 1..k |-> x[j] * Y[j][q]]
      <4> HIDE DEF Y
      <4> QED BY <2>2 DEF Products
    <3> QED BY <3>1 DEF Pair
  <2>4. Pair(A[q], x, k) \in Int
    <3>1. \A j \in 1..k : A[q][j] \in Int /\ x[j] \in Int
      <4> HIDE DEF Y
      <4> QED BY <1>4, <1>5, <2>1
    <3> QED BY <1>2, <3>1, PairFacts
  <2>5. Congruent(Pair(A[q], x, k), e1(d)[q])
    BY DEF IsSolution, A
  <2>6. e1(d)[q] \in Int
    BY DEF e1
  <2> HIDE DEF u
  <2> QED BY <2>3, <2>4, <2>5, <2>6
<1>11. Congruent(Pair(u, Coins, d), Coins[1]) /\ Coins[1] \in Field /\ Pair(u, Coins, d) \in Int
  <2>1. \A q \in 1..d : Coins[q] \in Int /\ u[q] \in Int /\ e1(d)[q] \in Int /\ Congruent(u[q], e1(d)[q])
    BY <1>1, <1>10
  <2> HIDE DEF u
  <2>2. Congruent(Pair(u, Coins, d), Pair(e1(d), Coins, d))
    BY <1>1, <2>1, PairCongruent
  <2>3. Pair(u, Coins, d) \in Int
    BY <1>1, <2>1, PairFacts
  <2>4. 1 \in 1..d
    BY <1>1
  <2>5. Pair(Identity(d)[1], Coins, d) = Coins[1]
    BY <1>1, <2>4, UnitPair
  <2>6. e1(d) = Identity(d)[1]
    BY <2>4 DEF e1, Identity
  <2> QED BY <1>1, <2>2, <2>3, <2>4, <2>5, <2>6
<1>12. Dot(v, x) = Pair(v, x, k) % P /\ Dot(v, x) \in Field /\ Pair(v, x, k) \in Int
       /\ Congruent(Dot(v, x), Pair(v, x, k))
  <2> HIDE DEF v
  <2> QED BY <1>2, <1>5, <1>7, DotFacts
<1>13. Congruent(Pair(v, x, k), Pair(w, x, k)) /\ Pair(w, x, k) = Pair(x, w, k) /\ Pair(w, x, k) \in Int
  <2>1. \A j \in 1..k : x[j] \in Int /\ v[j] \in Int /\ w[j] \in Int /\ Congruent(v[j], w[j])
    BY <1>5, <1>6
  <2> HIDE DEF v, w
  <2>2. Congruent(Pair(v, x, k), Pair(w, x, k))
    BY <1>2, <2>1, PairCongruent
  <2>3. Pair(w, x, k) = Pair(x, w, k) /\ Pair(w, x, k) \in Int
    BY <1>2, <2>1, PairFacts
  <2> QED BY <2>2, <2>3
<1> DEFINE e == Dot(v, x)
           f == Pair(v, x, k)
           g == Pair(w, x, k)
<1>14. /\ e \in Field /\ e \in Int /\ f \in Int /\ g \in Int /\ Coins[1] \in Field /\ Coins[1] \in Int
       /\ Congruent(e, f) /\ Congruent(f, g) /\ Congruent(g, Coins[1])
  <2>1. 1 \in 1..d
    BY <1>1
  <2> HIDE DEF v, w, u
  <2> QED BY <1>1, <1>9, <1>11, <1>12, <1>13, <2>1, FieldInt
<1> HIDE DEF e, f, g
<1>15. Congruent(e, g)
  BY <1>14, CongruentTrans
<1>16. Congruent(e, Coins[1])
  BY <1>14, <1>15, CongruentTrans
<1>17. e = Coins[1]
  BY <1>14, <1>16, CongruentField
<1> QED BY <1>17 DEF e

\* Without a vote there is no quorum: every formula selects something.
LEMMA NoQuorumAtFirst ==
  ASSUME NEW c, IsListing(c)
  PROVE  ~evalFomula(from_json(c), {})
<1> DEFINE N == Len(c)
           f == CHOOSE g : IsMet(c, {}, g)
           Good(k) == \A n \in 1..N : n > N - k => ~f[n]
           S == {k \in Nat : Good(k)}
<1>1. N \in Nat /\ N >= 1 /\ DOMAIN c = 1..N
  BY ListingFacts
<1>2. IsMet(c, {}, f)
  BY MetExists
<1>3. Satisfied(c, {}) <=> f[1]
  BY DEF Satisfied, IsMet
<1> HIDE DEF f
<1>4. \A n \in 1..N : f[n] <=> Worth(c, {}, f, n)
  <2>1. f = [n \in 1..N |-> Worth(c, {}, f, n)]
    BY <1>1, <1>2, MetIsWorth
  <2> QED BY <2>1
<1>5. Good(0)
  BY <1>1
<1>6. ASSUME NEW k \in Nat, Good(k) PROVE Good(k + 1)
  <2> SUFFICES ASSUME NEW n \in 1..N, n > N - (k + 1), f[n] PROVE FALSE
    OBVIOUS
  <2>1. Worth(c, {}, f, n)
    BY <1>4
  <2>2. \A i \in NestedPlaces(c, n) : c[n].outOf[i].formula \in (n + 1)..N
    BY ListingFacts
  <2>3. \A m \in (n + 1)..N : ~f[m]
    BY <1>1, <1>6
  <2>4. \A i \in DOMAIN c[n].outOf :
          ~(IF IsNested(c[n].outOf[i]) THEN f[c[n].outOf[i].formula]
            ELSE c[n].outOf[i].id \in {})
    <3> HIDE DEF N
    <3> QED BY <2>2, <2>3 DEF NestedPlaces
  <2>5. {i \in DOMAIN c[n].outOf :
           IF IsNested(c[n].outOf[i]) THEN f[c[n].outOf[i].formula]
           ELSE c[n].outOf[i].id \in {}} = {}
    BY <2>4
  <2>6. 0 >= c[n].select
    BY <2>1, <2>5, FS_EmptySet DEF Worth
  <2>7. c[n].select \in Nat /\ c[n].select >= 1
    BY ListingFacts
  <2> QED BY <2>6, <2>7
<1>7. \A m \in Nat : m \in S
  <2>1. 0 \in S /\ \A m \in Nat : m \in S => m + 1 \in S
    BY <1>5, <1>6
  <2> HIDE DEF S
  <2> QED BY <2>1, InductionOnNat
<1>8. Good(N)
  <2>1. N \in S
    BY <1>1, <1>7
  <2> HIDE DEF Good
  <2> QED BY <2>1
<1>9. ~f[1]
  BY <1>1, <1>8
<1> QED BY <1>3, <1>9, EvalIsSatisfied

\* The parts are those of the dealer's shares, and the certificate is the one
\* that was recovered when the quorum was reached.
CertInv ==
  /\ voted \subseteq Replicas
  /\ conf.generalized => ArePartsOf(parts, shareRandSecret(acc), acc)
  /\ ~conf.generalized => \A q \in Replicas : parts[q] = <<share(KeyThreshold(nreplicas), q)>>
  /\ evalFomula(acc.formula, voted) => cert = compute(voted)

LEMMA CertInvHolds == Spec => [](AccInv /\ CertInv)
<1>1. Init => AccInv /\ CertInv
  <2> SUFFICES ASSUME Init PROVE AccInv /\ CertInv
    OBVIOUS
  <2>1. AccInv
    BY DEF Init, AccInv
  <2>2. ASSUME conf.generalized PROVE ArePartsOf(parts, shareRandSecret(acc), acc)
    <3> DEFINE s == shareRandSecret(acc)
    <3>1. parts = [q \in Replicas |-> Part(s, acc, q)]
      BY <2>2 DEF Init
    <3> HIDE DEF s
    <3>2. ArePartsOf(parts, s, acc)
      BY <3>1 DEF ArePartsOf
    <3> QED BY <3>2 DEF s
  <2>3. ~evalFomula(acc.formula, voted)
    <3>1. conf \in Confs /\ acc = initialize(conf) /\ voted = {}
      BY DEF Init
    <3>2. acc.formula = from_json(conf.quorum) /\ IsListing(conf.quorum)
      BY <3>1, InitializeFacts, ConfAssumption
    <3> QED BY <3>1, <3>2, NoQuorumAtFirst
  <2>4. voted \subseteq Replicas
    BY DEF Init
  <2>5. ASSUME ~conf.generalized, NEW q \in Replicas
        PROVE  parts[q] = <<share(KeyThreshold(nreplicas), q)>>
    BY <2>5 DEF Init
  <2> QED BY <2>1, <2>2, <2>3, <2>4, <2>5 DEF CertInv
<1>2. AccInv /\ CertInv /\ [Next]_vars => AccInv' /\ CertInv'
  <2> SUFFICES ASSUME AccInv, CertInv, [Next]_vars PROVE AccInv' /\ CertInv'
    OBVIOUS
  <2>1. CASE \E q \in Replicas : Vote(q)
    <3>1. PICK q \in Replicas : Vote(q)
      BY <2>1
    <3>2. /\ UNCHANGED <<conf, acc, parts>> /\ voted' \subseteq Replicas
          /\ cert' = IF evalFomula(acc.formula, voted') THEN compute(voted') ELSE cert
      BY <3>1 DEF Vote, CertInv
    <3>3. AccInv'
      BY <3>2 DEF AccInv
    <3>4. evalFomula(acc.formula, voted)' => cert' = compute(voted)'
      BY <3>2 DEF compute
    <3> QED BY <3>2, <3>3, <3>4 DEF CertInv
  <2>2. CASE UNCHANGED vars
    <3>1. compute(voted)' = compute(voted)
      BY <2>2 DEF vars, compute
    <3> QED BY <2>2, <3>1 DEF vars, AccInv, CertInv
  <2> QED BY <2>1, <2>2 DEF Next
<1> QED BY <1>1, <1>2, PTL DEF Spec

\* No share is 0, which the recovery would take for one that is missing.
NoShareIsZero == \A j \in DOMAIN acc.L : shareRandSecret(acc)[j] # 0

LEMMA CertOfKeys ==
  ASSUME AccInv, CertInv, conf.generalized, NoShareIsZero,
         evalFomula(acc.formula, voted) => isAuthorizedGroupWithPLU(acc, voted)
  PROVE  CertVerifies
<1> SUFFICES ASSUME evalFomula(acc.formula, voted) PROVE cert = Coins[1]
  BY DEF CertVerifies
<1> DEFINE s == shareRandSecret(acc)
           own == Owned(acc, voted)
           k == Len(own)
           x == getRecombinationVector(acc, voted)
<1>1. PICK r \in Nat, d \in Nat : IsStructure(acc, r, d)
  BY StructureOf DEF AccInv
<1>2. s \in [1..r -> Field]
  BY <1>1, SharesFacts
<1>3. \A j \in 1..r : s[j] # 0
  <2>1. DOMAIN acc.L = 1..r
    BY <1>1 DEF IsStructure
  <2> QED BY <2>1 DEF NoShareIsZero
<1>4. ArePartsOf(parts, s, acc) /\ cert = recoverGenThreshSig(acc, parts, voted)
  BY DEF CertInv, compute
<1> HIDE DEF s, own, x
<1>5. cert = Dot([j \in 1..k |-> s[own[j]]], x)
  BY <1>1, <1>2, <1>3, <1>4, RecoveredShares DEF own, x
<1>6. x \in [1..k -> Field] /\ IsSolution(OwnedRows(acc, d, voted), x, e1(d), d, k)
  BY <1>1, Recombination DEF own, x
<1>7. s = shareRandSecret(acc) /\ own = Owned(acc, voted) /\ k = Len(own)
  BY DEF s, own
<1> HIDE DEF k
<1>8. Dot([j \in 1..k |-> s[own[j]]], x) = Coins[1]
  BY <1>1, <1>6, <1>7, SecretRecovered
<1> QED BY <1>5, <1>8

-----------------------------------------------------------------------------
(* Points of a polynomial. *)

\* What is not 0 modulo P has an inverse.
LEMMA UnitInverse ==
  ASSUME NEW a \in Int, a # 0, -P < a, a < P
  PROVE  /\ InvMod(a % P) \in Field /\ InvMod(a % P) \in Int
         /\ Congruent(a * InvMod(a % P), 1)
         /\ \E b \in Int : Congruent(a * b, 1)
<1> DEFINE f == a % P
<1>1. f \in Field /\ Congruent(f, a) /\ Congruent(a, f) /\ f \in Int
  BY ModInField, ModulusFacts
<1>2. f # 0
  <2> SUFFICES ASSUME f = 0 PROVE FALSE
    OBVIOUS
  <2>1. PICK k \in Int : a = f + P * k
    BY <1>1 DEF Congruent
  <2>2. a = P * k
    BY <1>1, <2>1, ModulusFacts
  <2>3. k = 0 \/ k >= 1 \/ k <= -1
    OBVIOUS
  <2>4. k >= 1 => P * k >= P
    BY ModulusFacts
  <2>5. k <= -1 => P * k <= -P
    BY ModulusFacts
  <2> QED BY <2>2, <2>3, <2>4, <2>5, ModulusFacts
<1> HIDE DEF f
<1>3. InvMod(f) \in Field /\ Congruent(f * InvMod(f), 1)
  BY <1>1, <1>2, InverseFacts
<1> DEFINE b == InvMod(f)
<1>4. b \in Int
  BY <1>3, ModulusFacts
<1>5. Congruent(f * b, 1)
  BY <1>3
<1> HIDE DEF b
<1>6. Congruent(a * b, f * b)
  BY <1>1, <1>4, CongruentTimes
<1> DEFINE u == a * b
           w == f * b
<1>7. u \in Int /\ w \in Int
  BY <1>1, <1>4, IntTimes
<1>8. Congruent(u, w) /\ Congruent(w, 1)
  BY <1>5, <1>6
<1> HIDE DEF u, w
<1>9. Congruent(u, 1)
  BY <1>7, <1>8, CongruentTrans
<1>10. b = InvMod(a % P)
  BY DEF b, f
<1> QED BY <1>3, <1>4, <1>9, <1>10 DEF u, b, f

LEMMA TimesZero ==
  ASSUME NEW a \in Int, NEW b \in Int, Congruent(a, 0)
  PROVE  Congruent(b * a, 0) /\ Congruent(a * b, 0)
<1>1. PICK k \in Int : a = 0 + P * k
  BY DEF Congruent
<1>2. k * b \in Int /\ (P * k) * b = P * (k * b) /\ a = P * k /\ a * b = b * a /\ a * b \in Int
  BY <1>1, ModulusFacts, IntTimes
<1> DEFINE u == k * b
<1>3. u \in Int /\ a * b = P * u
  BY <1>2
<1> HIDE DEF u
<1>4. a * b = 0 + P * u
  BY <1>2, <1>3
<1> QED BY <1>2, <1>3, <1>4 DEF Congruent

LEMMA TimesOne ==
  ASSUME NEW a \in Int, NEW b \in Int, Congruent(a, 1)
  PROVE  Congruent(a * b, b)
<1>1. PICK k \in Int : a = 1 + P * k
  BY DEF Congruent
<1> DEFINE u == k * b
           w == P * k
<1>2. u \in Int /\ w \in Int /\ a = 1 + w
  BY <1>1, ModulusFacts, IntTimes
<1>3. w * b = P * u
  BY ModulusFacts, IntTimes
<1> HIDE DEF u, w
<1>4. a * b = 1 * b + w * b
  BY <1>2, IntTimes
<1>5. a * b = b + P * u
  BY <1>3, <1>4
<1> QED BY <1>2, <1>5 DEF Congruent

LEMMA UnitCancels ==
  ASSUME NEW a \in Int, a # 0, -P < a, a < P, NEW c \in Int, Congruent(a * c, 0)
  PROVE  Congruent(c, 0)
<1>1. PICK b \in Int : Congruent(a * b, 1)
  BY UnitInverse
<1> DEFINE u == a * b
           w == a * c
<1>2. u \in Int /\ w \in Int /\ u * c = b * w /\ u * c \in Int /\ b * w \in Int /\ 1 * c = c /\ b * 0 = 0
  <2>1. u \in Int /\ w \in Int /\ 1 * c = c /\ b * 0 = 0
    BY IntTimes
  <2>2. u = b * a
    BY IntTimes
  <2>3. (b * a) * c = b * (a * c)
    BY IntTimes
  <2>4. u * c = b * w
    BY <2>2, <2>3
  <2> HIDE DEF u, w
  <2>5. u * c \in Int /\ b * w \in Int
    BY <2>1, IntTimes
  <2> QED BY <2>1, <2>4, <2>5
<1>3. Congruent(u, 1) /\ Congruent(w, 0)
  BY <1>1
<1> HIDE DEF u, w
<1>4. Congruent(u * c, c)
  BY <1>2, <1>3, TimesOne
<1>5. Congruent(b * w, 0)
  BY <1>2, <1>3, TimesZero
<1> DEFINE z == u * c
<1>6. z \in Int /\ Congruent(z, c) /\ Congruent(z, 0)
  BY <1>2, <1>4, <1>5
<1> HIDE DEF z
<1>7. Congruent(c, z)
  BY <1>6, CongruentSym
<1> QED BY <1>6, <1>7, CongruentTrans

Points(v, e) == [j \in 1..v |-> Power(j, e)]

\* x[1] * 1^e + ... + x[v] * v^e
Moment(x, v, e) == Pair(x, Points(v, e), v)

LEMMA MomentFacts ==
  ASSUME NEW v \in Nat, NEW x, IsIntVector(x, v), NEW e \in Nat
  PROVE  /\ IsIntVector(Points(v, e), v) /\ Moment(x, v, e) \in Int
         /\ \A j \in 1..v : Points(v, e)[j] = Power(j, e) /\ Power(j, e) \in Int
<1>1. \A j \in 1..v : Points(v, e)[j] = Power(j, e) /\ Power(j, e) \in Int
  <2>1. \A j \in 1..v : j \in Int
    OBVIOUS
  <2>2. \A j \in 1..v : Power(j, e) \in Field
    BY <2>1, PowerInField
  <2> QED BY <2>2, ModulusFacts DEF Points
<1>2. IsIntVector(Points(v, e), v)
  BY <1>1 DEF IsIntVector
<1> HIDE DEF Points
<1>3. Moment(x, v, e) \in Int
  <2> DEFINE p == Points(v, e)
  <2>1. IsIntVector(p, v)
    BY <1>2
  <2> HIDE DEF p
  <2>2. Pair(x, p, v) \in Int
    BY <2>1, PairFacts DEF IsIntVector
  <2> QED BY <2>2 DEF Moment, p
<1> QED BY <1>1, <1>2, <1>3

\* z is x times the polynomial that is 0 at point t.
IsShift(z, x, t, v) == \A j \in 1..v : Congruent(z[j], x[j] * (j - t))

LEMMA MomentShift ==
  ASSUME NEW v \in Nat, NEW x, IsIntVector(x, v), NEW t \in Int,
         NEW z, IsIntVector(z, v), IsShift(z, x, t, v), NEW e \in Nat
  PROVE  Congruent(Moment(z, v, e), Moment(x, v, e + 1) + (-t) * Moment(x, v, e))
<1> DEFINE A == Products(z, Points(v, e), v)
           B == Products(x, Points(v, e + 1), v)
           C == Products(x, Points(v, e), v)
           E == [j \in 1..v |-> (-t) * C[j]]
           D == [j \in 1..v |-> B[j] + E[j]]
<1>1. -t \in Int /\ e + 1 \in Nat
  OBVIOUS
<1>2. \A j \in 1..v : j \in Int /\ x[j] \in Int /\ z[j] \in Int /\ j - t \in Int
  BY DEF IsIntVector
<1>3. ASSUME NEW j \in 1..v
      PROVE  A[j] \in Int /\ B[j] \in Int /\ C[j] \in Int /\ E[j] \in Int /\ D[j] \in Int
             /\ D[j] = B[j] + E[j] /\ E[j] = (-t) * C[j] /\ Congruent(A[j], D[j])
  <2> DEFINE p == Power(j, e)
             q == Power(j, e + 1)
             f == j - t
             xj == x[j]
             zj == z[j]
  <2>1. p \in Int /\ q \in Int /\ Points(v, e)[j] = p /\ Points(v, e + 1)[j] = q
    BY <1>1, MomentFacts
  <2>2. q = (p * j) % P
    BY PowerStep
  <2>3. xj \in Int /\ zj \in Int /\ f \in Int /\ j \in Int /\ -t \in Int /\ j = f + t /\ f = j + (-t)
    BY <1>1, <1>2
  <2>4. Congruent(zj, xj * f)
    BY DEF IsShift
  <2>5. A[j] = zj * p /\ B[j] = xj * q /\ C[j] = xj * p
    BY <2>1 DEF Products
  <2>6. E[j] = (-t) * C[j] /\ D[j] = B[j] + E[j]
    OBVIOUS
  <2> HIDE DEF p, q, f, xj, zj, A, B, C, D, E
  <2> DEFINE pj == p * j
             xp == xj * p
             xf == xj * f
             txp == (-t) * xp
             xpj == xj * pj
             xq == xj * q
             zp == zj * p
             xfp == xf * p
  <2>7. pj \in Int /\ xp \in Int /\ xf \in Int
    BY <2>1, <2>3, IntTimes
  <2>8. txp \in Int /\ xpj \in Int /\ xq \in Int /\ zp \in Int /\ xfp \in Int
    <3> HIDE DEF pj, xp, xf
    <3> QED BY <1>1, <2>1, <2>3, <2>7, IntTimes
  <2>9. xfp = xpj + txp
    <3>1. xf * p = xj * (f * p)
      BY <2>1, <2>3, IntTimes
    <3>2. f * p = j * p + (-t) * p
      BY <2>1, <2>3, IntTimes
    <3>3. j * p = p * j /\ j * p \in Int /\ (-t) * p \in Int
      BY <2>1, <2>3, IntTimes
    <3> DEFINE jp == j * p
               tp == (-t) * p
    <3>4. xf * p = xj * (jp + tp) /\ jp \in Int /\ tp \in Int /\ jp = pj
      BY <3>1, <3>2, <3>3
    <3>5. xj * tp = txp
      <4>1. xj * tp = (xj * (-t)) * p
        BY <2>1, <2>3, IntTimes
      <4>2. xj * (-t) = (-t) * xj
        BY <2>3, IntTimes
      <4>3. ((-t) * xj) * p = (-t) * (xj * p)
        BY <2>1, <2>3, IntTimes
      <4> QED BY <4>1, <4>2, <4>3
    <3> HIDE DEF jp, tp
    <3>6. xj * (jp + tp) = xj * jp + xj * tp
      BY <2>3, <3>4, IntTimes
    <3> QED BY <3>4, <3>5, <3>6
  <2>10. Congruent(q, pj)
    <3> HIDE DEF pj
    <3> QED BY <2>2, <2>7, ModInField DEF pj
  <2>11. Congruent(zp, xfp)
    <3> HIDE DEF xf
    <3> QED BY <2>1, <2>3, <2>4, <2>7, CongruentTimes DEF xf
  <2>12. Congruent(xq, xpj)
    <3> HIDE DEF pj
    <3> QED BY <2>1, <2>3, <2>7, <2>10, CongruentTimes
  <2>13. A[j] = zp /\ B[j] = xq /\ C[j] = xp /\ E[j] = txp
    BY <2>5, <2>6
  <2> HIDE DEF zp, xq, xp, txp, xpj, xfp
  <2>14. Congruent(xq + txp, xpj + txp)
    BY <2>8, <2>12, CongruentAdd, CongruentRefl
  <2> DEFINE u == xq + txp
  <2>15. Congruent(u, xfp) /\ u \in Int /\ D[j] = u
    BY <2>6, <2>8, <2>9, <2>13, <2>14
  <2> HIDE DEF u
  <2>16. Congruent(xfp, u)
    BY <2>8, <2>15, CongruentSym
  <2>17. Congruent(zp, u)
    BY <2>8, <2>11, <2>15, <2>16, CongruentTrans
  <2> QED BY <2>6, <2>7, <2>8, <2>13, <2>15, <2>17
<1>4. /\ Moment(z, v, e) = Total(A, v) /\ Moment(x, v, e + 1) = Total(B, v)
      /\ Moment(x, v, e) = Total(C, v)
  BY DEF Moment, Pair
<1> HIDE DEF A, B, C, D, E
<1>5. Congruent(Total(A, v), Total(D, v))
  BY <1>3, TotalCongruent
<1>6. Total(D, v) = Total(B, v) + Total(E, v)
  BY <1>3, TotalAdd
<1>7. Total(E, v) = (-t) * Total(C, v)
  BY <1>1, <1>3, TotalScale
<1> QED BY <1>4, <1>5, <1>6, <1>7

IsOutsideZero(x, T, n) == \A j \in 1..n : j \notin T => x[j] = 0

IsZeroUpTo(x, v, c) == \A e \in 1..c : Congruent(Moment(x, v, e), 0)

LEMMA PointFacts ==
  ASSUME NEW v \in Nat, v < P, NEW t \in 1..v
  PROVE  /\ t \in Int /\ t # 0 /\ -P < t /\ t < P
         /\ \A j \in 1..v : j # t => j - t \in Int /\ j - t # 0 /\ -P < j - t /\ j - t < P
BY ModulusFacts

\* Fewer points than moments that are 0: so is the sum.
IsFew(x, T, v, c) ==
  /\ T \subseteq 1..v /\ Cardinality(T) <= c
  /\ IsIntVector(x, v) /\ IsOutsideZero(x, T, v) /\ IsZeroUpTo(x, v, c)

LEMMA FewStep ==
  ASSUME NEW v \in Nat, v < P, NEW c \in Nat, NEW T, NEW x, IsFew(x, T, v, c + 1), NEW t \in T,
         NEW z, z = [j \in 1..v |-> x[j] * (j - t)]
  PROVE  /\ IsFew(z, T \ {t}, v, c)
         /\ Congruent(Moment(z, v, 0), 0) => Congruent(Moment(x, v, 0), 0)
<1>1. T \subseteq 1..v /\ IsIntVector(x, v) /\ IsOutsideZero(x, T, v) /\ Cardinality(T) <= c + 1
      /\ IsZeroUpTo(x, v, c + 1)
  BY DEF IsFew
<1>2. t \in 1..v /\ t \in Int /\ -t \in Int
  BY <1>1
<1>3. \A j \in 1..v : x[j] \in Int /\ j - t \in Int /\ z[j] = x[j] * (j - t)
  BY <1>1, <1>2 DEF IsIntVector
<1>4. \A j \in 1..v : z[j] \in Int
  <2> SUFFICES ASSUME NEW j \in 1..v PROVE z[j] \in Int
    OBVIOUS
  <2> DEFINE a == x[j]
             b == j - t
  <2>1. a \in Int /\ b \in Int /\ z[j] = a * b
    BY <1>3
  <2> HIDE DEF a, b
  <2> QED BY <2>1, IntTimes
<1>5. IsIntVector(z, v)
  BY <1>4 DEF IsIntVector
<1>6. IsShift(z, x, t, v)
  <2> HIDE DEF IsIntVector
  <2>1. \A j \in 1..v : Congruent(z[j], z[j])
    BY <1>4, CongruentRefl
  <2> QED BY <1>3, <2>1 DEF IsShift
<1>7. IsOutsideZero(z, T \ {t}, v)
  <2> SUFFICES ASSUME NEW j \in 1..v, j \notin T \ {t} PROVE z[j] = 0
    BY DEF IsOutsideZero
  <2>1. CASE j = t
    <3> DEFINE a == x[j]
    <3>1. a \in Int /\ j - t = 0 /\ z[j] = a * (j - t)
      BY <1>2, <1>3, <2>1
    <3> HIDE DEF a
    <3> QED BY <3>1
  <2>2. CASE j # t
    <3>1. x[j] = 0
      BY <1>1, <2>2 DEF IsOutsideZero
    <3> DEFINE b == j - t
    <3>2. b \in Int /\ z[j] = 0 * b
      BY <1>3, <3>1
    <3> HIDE DEF b
    <3> QED BY <3>2
  <2> QED BY <2>1, <2>2
<1>8. IsFiniteSet(T) /\ Cardinality(T \ {t}) <= c
  <2>1. IsFiniteSet(1..v)
    BY FS_Interval
  <2>2. IsFiniteSet(T)
    BY <1>1, <2>1, FS_Subset
  <2>3. Cardinality(T) \in Nat /\ Cardinality(T \ {t}) = Cardinality(T) - 1
    BY <2>2, FS_RemoveElement, FS_CardinalityType
  <2> QED BY <1>1, <2>2, <2>3
<1>9. ASSUME NEW e \in 0..c
      PROVE  /\ Congruent(Moment(z, v, e), Moment(x, v, e + 1) + (-t) * Moment(x, v, e))
             /\ Moment(z, v, e) \in Int /\ Moment(x, v, e + 1) \in Int /\ Moment(x, v, e) \in Int
             /\ Congruent(Moment(x, v, e + 1), 0)
             /\ e > 0 => Congruent(Moment(x, v, e), 0)
  <2>1. e \in Nat /\ e + 1 \in Nat /\ e + 1 \in 1..(c + 1) /\ (e > 0 => e \in 1..(c + 1))
    OBVIOUS
  <2>2. Congruent(Moment(z, v, e), Moment(x, v, e + 1) + (-t) * Moment(x, v, e))
    BY <1>1, <1>2, <1>5, <1>6, <2>1, MomentShift
  <2>3. Moment(z, v, e) \in Int /\ Moment(x, v, e + 1) \in Int /\ Moment(x, v, e) \in Int
    BY <1>1, <1>5, <2>1, MomentFacts
  <2>4. Congruent(Moment(x, v, e + 1), 0) /\ (e > 0 => Congruent(Moment(x, v, e), 0))
    BY <1>1, <2>1 DEF IsZeroUpTo
  <2> QED BY <2>2, <2>3, <2>4
<1>10. IsZeroUpTo(z, v, c)
  <2> SUFFICES ASSUME NEW e \in 1..c PROVE Congruent(Moment(z, v, e), 0)
    BY DEF IsZeroUpTo
  <2> DEFINE a == Moment(z, v, e)
             b == Moment(x, v, e + 1)
             d == Moment(x, v, e)
             s == (-t) * d
             w == b + s
  <2>1. e \in 0..c /\ e > 0
    OBVIOUS
  <2>2. a \in Int /\ b \in Int /\ d \in Int /\ Congruent(a, b + (-t) * d)
    BY <1>9, <2>1
  <2>3. Congruent(b, 0) /\ Congruent(d, 0)
    BY <1>9, <2>1
  <2> HIDE DEF a, b, d
  <2>4. Congruent(s, 0) /\ s \in Int
    BY <1>2, <2>2, <2>3, TimesZero, IntTimes
  <2>5. Congruent(a, b + s)
    BY <2>2
  <2> HIDE DEF s
  <2>6. w \in Int /\ Congruent(a, w)
    BY <2>2, <2>4, <2>5
  <2> DEFINE o == 0
  <2>7. o \in Int /\ Congruent(b, o) /\ Congruent(s, o) /\ o + o = o
    BY <2>3, <2>4
  <2> HIDE DEF o
  <2>8. Congruent(w, o)
    <3>1. Congruent(b + s, o + o)
      BY <2>2, <2>4, <2>7, CongruentAdd
    <3> QED BY <2>7, <3>1
  <2> HIDE DEF w
  <2>9. Congruent(a, o)
    BY <2>2, <2>6, <2>7, <2>8, CongruentTrans
  <2> QED BY <2>9 DEF a, o
<1>11. ASSUME Congruent(Moment(z, v, 0), 0) PROVE Congruent(Moment(x, v, 0), 0)
  <2> DEFINE a == Moment(z, v, 0)
             b == Moment(x, v, 1)
             d == Moment(x, v, 0)
             s == (-t) * d
             w == b + s
             o == 0
  <2>1. 0 \in 0..c /\ 0 + 1 = 1
    OBVIOUS
  <2>2. a \in Int /\ b \in Int /\ d \in Int /\ Congruent(a, b + (-t) * d) /\ Congruent(b, 0)
    BY <1>9, <2>1
  <2>3. Congruent(a, o) /\ o \in Int /\ Congruent(b, o) /\ o + o = o
    BY <1>11, <2>2
  <2> HIDE DEF a, b, d, o
  <2>4. s \in Int
    BY <1>2, <2>2, IntTimes
  <2>5. Congruent(a, b + s)
    BY <2>2
  <2> HIDE DEF s
  <2>6. w \in Int /\ Congruent(a, w)
    BY <2>2, <2>4, <2>5
  <2> HIDE DEF w
  <2>7. Congruent(w, a) /\ Congruent(w, o)
    BY <2>2, <2>3, <2>6, CongruentSym, CongruentTrans
  <2>8. Congruent(o, b)
    BY <2>2, <2>3, CongruentSym
  <2>9. Congruent(w, b)
    BY <2>2, <2>3, <2>6, <2>7, <2>8, CongruentTrans
  <2>10. Congruent(b + s, b + o)
    <3>1. b + o = b
      BY <2>2 DEF o
    <3> QED BY <2>9, <3>1 DEF w
  <2>11. Congruent(b, b)
    BY <2>2, CongruentRefl
  <2>12. Congruent(s, o)
    BY <2>2, <2>3, <2>4, <2>10, <2>11, CongruentCancel
  <2>13. Congruent((-t) * d, 0)
    BY <2>12 DEF s, o
  <2> DEFINE f == -t
  <2>14. f \in Int /\ f # 0 /\ -P < f /\ f < P
    BY <1>2, PointFacts, ModulusFacts
  <2>15. Congruent(f * d, 0)
    BY <2>13
  <2> HIDE DEF f
  <2>16. Congruent(d, 0)
    BY <2>2, <2>14, <2>15, UnitCancels
  <2> QED BY <2>16 DEF d
<1> QED BY <1>1, <1>5, <1>7, <1>8, <1>10, <1>11 DEF IsFew

LEMMA FewPoints ==
  ASSUME NEW v \in Nat, v < P
  PROVE  \A c \in Nat : \A T, x : IsFew(x, T, v, c) => Congruent(Moment(x, v, 0), 0)
<1> DEFINE Good(c) == \A T, x : IsFew(x, T, v, c) => Congruent(Moment(x, v, 0), 0)
           S == {c \in Nat : Good(c)}
<1>1. ASSUME NEW c \in Nat, NEW T, NEW x, IsFew(x, T, v, c), T = {}
      PROVE  Congruent(Moment(x, v, 0), 0)
  <2>1. IsIntVector(x, v) /\ \A j \in 1..v : x[j] = 0
    BY <1>1 DEF IsFew, IsOutsideZero
  <2> DEFINE p == Points(v, 0)
  <2>2. IsIntVector(p, v)
    BY <2>1, MomentFacts
  <2> HIDE DEF p
  <2>3. Pair(x, p, v) = 0
    BY <2>1, <2>2, PairZeros
  <2>4. Moment(x, v, 0) = 0
    BY <2>3 DEF Moment, p
  <2> QED BY <2>4, CongruentRefl
<1>2. Good(0)
  <2> SUFFICES ASSUME NEW T, NEW x, IsFew(x, T, v, 0) PROVE T = {}
    BY <1>1
  <2>1. T \subseteq 1..v /\ Cardinality(T) <= 0 /\ IsFiniteSet(1..v)
    BY FS_Interval DEF IsFew
  <2>2. IsFiniteSet(T)
    BY <2>1, FS_Subset
  <2>3. Cardinality(T) = 0
    BY <2>1, <2>2, FS_CardinalityType
  <2> QED BY <2>2, <2>3, FS_EmptySet
<1>3. ASSUME NEW c \in Nat, Good(c) PROVE Good(c + 1)
  <2> SUFFICES ASSUME NEW T, NEW x, IsFew(x, T, v, c + 1) PROVE Congruent(Moment(x, v, 0), 0)
    OBVIOUS
  <2>1. CASE T = {}
    BY <1>1, <2>1
  <2>2. CASE T # {}
    <3>1. PICK t \in T : TRUE
      BY <2>2
    <3> DEFINE z == [j \in 1..v |-> x[j] * (j - t)]
    <3>2. /\ IsFew(z, T \ {t}, v, c)
          /\ Congruent(Moment(z, v, 0), 0) => Congruent(Moment(x, v, 0), 0)
      <4>1. \A w : w = z => /\ IsFew(w, T \ {t}, v, c)
                            /\ Congruent(Moment(w, v, 0), 0) => Congruent(Moment(x, v, 0), 0)
        BY FewStep
      <4> HIDE DEF z
      <4> QED BY <4>1
    <3> HIDE DEF z
    <3> QED BY <1>3, <3>2
  <2> QED BY <2>1, <2>2
<1>4. \A m \in Nat : m \in S
  <2>1. 0 \in S /\ \A m \in Nat : m \in S => m + 1 \in S
    BY <1>2, <1>3
  <2> HIDE DEF S
  <2> QED BY <2>1, InductionOnNat
<1> QED BY <1>4

\* As many points as moments: they can be 0 with a sum of 1.
IsEnough(x, T, v, c) ==
  /\ IsIntVector(x, v) /\ IsOutsideZero(x, T, v)
  /\ Congruent(Moment(x, v, 0), 1) /\ IsZeroUpTo(x, v, c)

LEMMA SumOfPoints ==
  ASSUME NEW v \in Nat, NEW x, IsIntVector(x, v)
  PROVE  Moment(x, v, 0) = Total(x, v)
<1>1. \A j \in 1..v : x[j] \in Int /\ Products(x, Points(v, 0), v)[j] = x[j]
  <2> SUFFICES ASSUME NEW j \in 1..v
               PROVE  x[j] \in Int /\ Products(x, Points(v, 0), v)[j] = x[j]
    OBVIOUS
  <2>1. x[j] \in Int /\ Points(v, 0)[j] = 1
    BY PowerStep DEF IsIntVector, Points
  <2> DEFINE a == x[j]
  <2>2. a \in Int /\ Products(x, Points(v, 0), v)[j] = a * 1
    BY <2>1 DEF Products
  <2>3. a * 1 = a
    <3> HIDE DEF a
    <3> QED BY <2>2
  <2> QED BY <2>2, <2>3
<1>2. Total(Products(x, Points(v, 0), v), v) = Total(x, v)
  <2> DEFINE p == Products(x, Points(v, 0), v)
  <2>1. \A j \in 1..v : p[j] = x[j]
    BY <1>1
  <2> HIDE DEF p
  <2>2. Total(p, v) = Total(x, v)
    BY <2>1, TotalEqual
  <2> QED BY <2>2 DEF p
<1> QED BY <1>2 DEF Moment, Pair

\* From the weights x of the other points to those with point t.
Reweighed(x, t, j) == x[j] * ((-t) * (CHOOSE b \in Int : Congruent((j - t) * b, 1)))

LEMMA ReweighedFacts ==
  ASSUME NEW v \in Nat, v < P, NEW t \in 1..v, NEW x, IsIntVector(x, v), NEW j \in 1..v, j # t
  PROVE  /\ Reweighed(x, t, j) \in Int /\ (x[j] = 0 => Reweighed(x, t, j) = 0)
         /\ Congruent((-t) * x[j], Reweighed(x, t, j) * (j - t))
<1> DEFINE d == j - t
           s == -t
           a == x[j]
           b == CHOOSE b \in Int : Congruent(d * b, 1)
           sb == s * b
           w == a * sb
           db == d * b
           sa == s * a
           wd == w * d
<1>1. d \in Int /\ d # 0 /\ -P < d /\ d < P /\ s \in Int /\ a \in Int
  <2>1. a \in Int
    BY DEF IsIntVector
  <2> QED BY <2>1, ModulusFacts
<1> HIDE DEF d
<1>2. b \in Int /\ Congruent(db, 1)
  BY <1>1, UnitInverse
<1>3. Reweighed(x, t, j) = w
  BY DEF Reweighed, d
<1> HIDE DEF a, b, s
<1>4. sb \in Int /\ db \in Int /\ sa \in Int
  BY <1>1, <1>2, IntTimes
<1>5. w \in Int /\ (a = 0 => w = 0)
  <2> HIDE DEF sb
  <2>1. w \in Int
    BY <1>1, <1>4, IntTimes
  <2> QED BY <1>4, <2>1
<1>6. w * d = db * sa
  <2>1. (a * sb) * d = a * (sb * d)
    BY <1>1, <1>4, IntTimes
  <2>2. sb * d = s * (b * d)
    BY <1>1, <1>2, IntTimes
  <2>3. b * d = db
    BY <1>1, <1>2, IntTimes
  <2>4. a * (s * db) = (a * s) * db
    <3> HIDE DEF db
    <3> QED BY <1>1, <1>4, IntTimes
  <2>5. a * s = sa
    BY <1>1, IntTimes
  <2>6. sa * db = db * sa
    <3> HIDE DEF sa, db
    <3> QED BY <1>4, IntTimes
  <2> HIDE DEF sa, db
  <2> QED BY <2>1, <2>2, <2>3, <2>4, <2>5, <2>6
<1> HIDE DEF db
<1>7. Congruent(db * sa, sa)
  <2> HIDE DEF sa
  <2> QED BY <1>2, <1>4, TimesOne
<1> HIDE DEF sa, w
<1>8. wd \in Int /\ Congruent(wd, sa)
  BY <1>1, <1>5, <1>6, <1>7, IntTimes
<1> HIDE DEF wd
<1>9. Congruent(sa, wd)
  BY <1>4, <1>8, CongruentSym
<1> QED BY <1>3, <1>5, <1>9 DEF a, s, d, sa, wd

LEMMA ScaledMoment ==
  ASSUME NEW v \in Nat, NEW x, IsIntVector(x, v), NEW s \in Int,
         NEW z, z = [j \in 1..v |-> s * x[j]], NEW e \in Nat
  PROVE  IsIntVector(z, v) /\ Moment(z, v, e) = s * Moment(x, v, e)
<1> DEFINE p == Points(v, e)
           A == Products(x, p, v)
           B == Products(z, p, v)
<1>1. \A j \in 1..v : x[j] \in Int /\ p[j] \in Int
  <2>1. IsIntVector(p, v)
    BY MomentFacts
  <2> HIDE DEF p
  <2> QED BY <2>1 DEF IsIntVector
<1> HIDE DEF p
<1>2. ASSUME NEW j \in 1..v PROVE z[j] \in Int /\ A[j] \in Int /\ B[j] = s * A[j]
  <2> DEFINE a == x[j]
             q == p[j]
  <2>1. a \in Int /\ q \in Int /\ z[j] = s * a /\ A[j] = a * q /\ B[j] = (s * a) * q
    BY <1>1 DEF Products
  <2> HIDE DEF a, q, A, B
  <2>2. s * a \in Int /\ a * q \in Int /\ (s * a) * q = s * (a * q)
    BY <2>1, IntTimes
  <2> QED BY <2>1, <2>2
<1>3. Moment(z, v, e) = Total(B, v) /\ Moment(x, v, e) = Total(A, v)
  BY DEF Moment, Pair, p
<1> HIDE DEF A, B
<1>4. Total(B, v) = s * Total(A, v)
  BY <1>2, TotalScale
<1> QED BY <1>2, <1>3, <1>4 DEF IsIntVector

LEMMA EnoughStep ==
  ASSUME NEW v \in Nat, v < P, NEW c \in Nat, NEW T, T \subseteq 1..v, NEW t \in T,
         NEW x, IsEnough(x, T \ {t}, v, c)
  PROVE  \E y : IsEnough(y, T, v, c + 1)
<1> DEFINE w == [j \in 1..v |-> IF j = t THEN 0 ELSE Reweighed(x, t, j)]
           W == Total(w, v)
           d == [j \in 1..v |-> IF j = t THEN 1 - W ELSE 0]
           y == [j \in 1..v |-> IF j = t THEN 1 - W ELSE Reweighed(x, t, j)]
           s == -t
           z == [j \in 1..v |-> s * x[j]]
<1>1. t \in 1..v /\ t \in Int /\ s \in Int /\ IsIntVector(x, v) /\ IsOutsideZero(x, T \ {t}, v)
      /\ Congruent(Moment(x, v, 0), 1) /\ IsZeroUpTo(x, v, c)
  BY DEF IsEnough
<1>2. \A j \in 1..v : j # t =>
        /\ Reweighed(x, t, j) \in Int /\ (x[j] = 0 => Reweighed(x, t, j) = 0)
        /\ Congruent(s * x[j], Reweighed(x, t, j) * (j - t))
  BY <1>1, ReweighedFacts
<1>3. \A j \in 1..v : w[j] \in Int
  BY <1>2
<1>4. W \in Int /\ 1 - W \in Int
  <2>1. v \in 0..v
    OBVIOUS
  <2> HIDE DEF w
  <2> QED BY <1>3, <2>1, TotalInt
<1> HIDE DEF W
<1>5. \A j \in 1..v : y[j] \in Int /\ d[j] \in Int /\ y[j] = w[j] + d[j]
  BY <1>2, <1>4
<1>6. IsIntVector(y, v)
  BY <1>5 DEF IsIntVector
<1>7. IsOutsideZero(y, T, v)
  <2> SUFFICES ASSUME NEW j \in 1..v, j \notin T PROVE y[j] = 0
    BY DEF IsOutsideZero
  <2>1. j # t /\ x[j] = 0
    BY <1>1 DEF IsOutsideZero
  <2> QED BY <1>2, <2>1
<1>8. Moment(y, v, 0) = 1
  <2>1. Total(d, v) = 1 - W
    <3>1. /\ 0 \in Nat /\ 0 <= v /\ t \in Nat /\ t <= v /\ t > 0 /\ 0 + 1 = 1
          /\ \A q \in 1..v : d[q] \in Int /\ (q # t => d[q] = 0)
      BY <1>1, <1>5
    <3>2. d[t] = 1 - W
      BY <1>1
    <3> HIDE DEF d
    <3>3. \A q \in 1..v : d[q] \in Int
      BY <3>1
    <3>4. \A q \in (0 + 1)..v : q # t => d[q] = 0
      BY <3>1
    <3>5. Total(d, v) = Total(d, 0) + IF t > 0 THEN d[t] ELSE 0
      BY <3>1, <3>3, <3>4, TotalSingle
    <3>6. Total(d, 0) = 0
      BY TotalStep
    <3> QED BY <1>4, <3>1, <3>2, <3>5, <3>6
  <2>2. Total(y, v) = Total(w, v) + Total(d, v)
    <3> HIDE DEF y, w, d
    <3> QED BY <1>3, <1>5, TotalAdd
  <2>3. Total(y, v) = 1
    <3> HIDE DEF y, w, d
    <3> QED BY <1>4, <2>1, <2>2 DEF W
  <2> HIDE DEF y
  <2> QED BY <1>6, <2>3, SumOfPoints
<1>9. IsIntVector(z, v) /\ \A e \in Nat : Moment(z, v, e) = s * Moment(x, v, e)
  <2> HIDE DEF s
  <2>1. \A e \in Nat : \A q : q = z => IsIntVector(q, v) /\ Moment(q, v, e) = s * Moment(x, v, e)
    <3> HIDE DEF z
    <3> QED BY <1>1, ScaledMoment DEF z
  <2>2. 0 \in Nat
    OBVIOUS
  <2> HIDE DEF z
  <2> QED BY <2>1, <2>2
<1>10. IsShift(z, y, t, v)
  <2> SUFFICES ASSUME NEW j \in 1..v PROVE Congruent(z[j], y[j] * (j - t))
    BY DEF IsShift
  <2>1. CASE j = t
    <3>1. x[j] = 0
      BY <1>1, <2>1 DEF IsOutsideZero
    <3>2. z[j] = s * 0 /\ s * 0 = 0
      BY <1>1, <3>1
    <3> DEFINE a == y[j]
    <3>3. a \in Int /\ j - t = 0
      BY <1>1, <1>5, <2>1
    <3> HIDE DEF a
    <3>4. a * (j - t) = 0
      BY <3>3
    <3>5. Congruent(0, 0)
      BY CongruentRefl
    <3> HIDE DEF z, y
    <3> QED BY <3>2, <3>4, <3>5 DEF a
  <2>2. CASE j # t
    BY <1>2, <2>2
  <2> QED BY <2>1, <2>2
<1> HIDE DEF y, z, w, d, s
<1>11. ASSUME NEW e \in Nat, Congruent(Moment(y, v, e), Moment(x, v, e))
       PROVE  Congruent(Moment(y, v, e + 1), 0)
  <2> DEFINE a == Moment(y, v, e)
             b == Moment(x, v, e)
             n == Moment(y, v, e + 1)
             m == Moment(z, v, e)
             sa == s * a
             sb == s * b
             o == 0
             u == n + sa
             k == sa + n
             l == sb + o
  <2>1. e + 1 \in Nat
    OBVIOUS
  <2>2. a \in Int /\ b \in Int /\ n \in Int /\ m \in Int /\ m = s * b /\ Congruent(a, b) /\ o \in Int
    BY <1>1, <1>6, <1>9, <1>11, <2>1, MomentFacts
  <2>3. Congruent(m, n + s * a)
    <3>1. Congruent(Moment(z, v, e), Moment(y, v, e + 1) + (-t) * Moment(y, v, e))
      BY <1>1, <1>6, <1>9, <1>10, MomentShift
    <3> QED BY <3>1 DEF s
  <2> HIDE DEF a, b, n, m, o
  <2>4. sa \in Int /\ sb \in Int /\ Congruent(sa, sb)
    BY <1>1, <2>2, CongruentTimes, IntTimes
  <2>5. Congruent(m, n + sa) /\ m = sb
    BY <2>2, <2>3
  <2> HIDE DEF sa, sb
  <2>6. u = k /\ l = sb /\ u \in Int /\ k \in Int /\ l \in Int
    BY <2>2, <2>4 DEF o
  <2>7. Congruent(l, k)
    BY <2>5, <2>6
  <2>8. Congruent(k, l)
    <3> HIDE DEF k, l
    <3> QED BY <2>6, <2>7, CongruentSym
  <2>9. Congruent(n, o)
    BY <2>2, <2>4, <2>8, CongruentCancel
  <2> QED BY <2>9 DEF n, o
<1>12. ASSUME NEW e \in 1..(c + 1) PROVE Congruent(Moment(y, v, e), 0)
  <2> DEFINE Good(i) == i + 1 <= c + 1 => Congruent(Moment(y, v, i + 1), 0)
             S == {i \in Nat : Good(i)}
  <2>1. Good(0)
    <3>1. Congruent(Moment(y, v, 0), Moment(x, v, 0))
      <4> DEFINE a == Moment(x, v, 0)
                 o == 1
      <4>1. a \in Int /\ Congruent(a, o) /\ o \in Int
        BY <1>1, MomentFacts
      <4> HIDE DEF a, o
      <4>2. Congruent(o, a)
        BY <4>1, CongruentSym
      <4> QED BY <1>8, <4>2 DEF a, o
    <3> QED BY <1>11, <3>1
  <2>2. ASSUME NEW i \in Nat, Good(i), i + 1 + 1 <= c + 1 PROVE Congruent(Moment(y, v, i + 1 + 1), 0)
    <3>1. i + 1 \in 1..c /\ i + 1 \in Nat /\ i + 1 <= c + 1
      BY <2>2
    <3> DEFINE f == i + 1
               a == Moment(y, v, f)
               b == Moment(x, v, f)
               o == 0
    <3>2. Congruent(a, o)
      BY <2>2, <3>1
    <3>3. Congruent(b, o)
      BY <1>1, <3>1 DEF IsZeroUpTo
    <3>4. f \in Nat
      BY <3>1
    <3> HIDE DEF f
    <3>5. a \in Int /\ b \in Int /\ o \in Int
      BY <1>1, <1>6, <3>4, MomentFacts
    <3> HIDE DEF a, b, o
    <3>6. Congruent(o, b)
      BY <3>3, <3>5, CongruentSym
    <3>7. Congruent(a, b)
      BY <3>2, <3>5, <3>6, CongruentTrans
    <3>8. Congruent(Moment(y, v, f + 1), 0)
      BY <1>11, <3>4, <3>7 DEF a, b
    <3> QED BY <3>8 DEF f
  <2>3. \A m \in Nat : m \in S
    <3>1. 0 \in S /\ \A m \in Nat : m \in S => m + 1 \in S
      BY <2>1, <2>2
    <3> HIDE DEF S
    <3> QED BY <3>1, InductionOnNat
  <2>4. e - 1 \in Nat /\ e - 1 + 1 = e /\ e <= c + 1
    BY <1>12
  <2>5. Good(e - 1)
    BY <2>3, <2>4
  <2> QED BY <2>4, <2>5
<1>13. IsZeroUpTo(y, v, c + 1)
  BY <1>12 DEF IsZeroUpTo
<1>14. Congruent(Moment(y, v, 0), 1)
  BY <1>8, CongruentRefl
<1> QED BY <1>6, <1>7, <1>13, <1>14 DEF IsEnough

LEMMA EnoughPoints ==
  ASSUME NEW v \in Nat, v < P
  PROVE  \A c \in Nat : \A T : T \subseteq 1..v /\ Cardinality(T) >= c + 1
                                 => \E x : IsEnough(x, T, v, c)
<1> DEFINE Good(c) == \A T : T \subseteq 1..v /\ Cardinality(T) >= c + 1 => \E x : IsEnough(x, T, v, c)
           S == {c \in Nat : Good(c)}
<1>1. ASSUME NEW T, T \subseteq 1..v, NEW c \in Nat, Cardinality(T) >= c + 1
      PROVE  /\ IsFiniteSet(T) /\ Cardinality(T) \in Nat /\ T # {}
             /\ \A t \in T : Cardinality(T \ {t}) = Cardinality(T) - 1
  <2>1. IsFiniteSet(T) /\ Cardinality(T) \in Nat
    <3>1. IsFiniteSet(1..v)
      BY FS_Interval
    <3>2. IsFiniteSet(T)
      BY <1>1, <3>1, FS_Subset
    <3> QED BY <3>2, FS_CardinalityType
  <2>2. T # {}
    BY <1>1, <2>1, FS_EmptySet
  <2>3. \A t \in T : Cardinality(T \ {t}) = Cardinality(T) - 1
    BY <2>1, FS_RemoveElement
  <2> QED BY <2>1, <2>2, <2>3
<1>2. Good(0)
  <2> SUFFICES ASSUME NEW T, T \subseteq 1..v, Cardinality(T) >= 0 + 1 PROVE \E x : IsEnough(x, T, v, 0)
    OBVIOUS
  <2>1. PICK t \in T : TRUE
    BY <1>1
  <2>2. t \in 1..v
    BY <2>1
  <2> DEFINE x == [j \in 1..v |-> IF j = t THEN 1 ELSE 0]
  <2>3. IsIntVector(x, v) /\ IsOutsideZero(x, T, v)
    BY <2>1 DEF IsIntVector, IsOutsideZero
  <2>4. Total(x, v) = 1
    <3>1. /\ 0 \in Nat /\ 0 <= v /\ t \in Nat /\ t <= v /\ t > 0
          /\ \A q \in 1..v : x[q] \in Int /\ (q # t => x[q] = 0)
      BY <2>2
    <3>2. x[t] = 1
      BY <2>2
    <3> HIDE DEF x
    <3>3. \A q \in 1..v : x[q] \in Int
      BY <3>1
    <3>4. \A q \in (0 + 1)..v : q # t => x[q] = 0
      BY <3>1
    <3>5. Total(x, v) = Total(x, 0) + IF t > 0 THEN x[t] ELSE 0
      BY <3>1, <3>3, <3>4, TotalSingle
    <3>6. Total(x, 0) = 0
      BY TotalStep
    <3> QED BY <3>1, <3>2, <3>5, <3>6
  <2> HIDE DEF x
  <2>5. Moment(x, v, 0) = 1
    BY <2>3, <2>4, SumOfPoints
  <2>6. Congruent(Moment(x, v, 0), 1)
    BY <2>5, CongruentRefl
  <2>7. IsZeroUpTo(x, v, 0)
    BY DEF IsZeroUpTo
  <2> QED BY <2>3, <2>6, <2>7 DEF IsEnough
<1>3. ASSUME NEW c \in Nat, Good(c) PROVE Good(c + 1)
  <2> SUFFICES ASSUME NEW T, T \subseteq 1..v, Cardinality(T) >= c + 1 + 1
               PROVE  \E x : IsEnough(x, T, v, c + 1)
    OBVIOUS
  <2>1. /\ IsFiniteSet(T) /\ Cardinality(T) \in Nat /\ T # {}
        /\ \A t \in T : Cardinality(T \ {t}) = Cardinality(T) - 1
    <3>1. c + 1 \in Nat
      OBVIOUS
    <3> QED BY <1>1, <3>1
  <2>2. PICK t \in T : TRUE
    BY <2>1
  <2>3. T \ {t} \subseteq 1..v /\ Cardinality(T \ {t}) >= c + 1
    BY <2>1
  <2>4. PICK x : IsEnough(x, T \ {t}, v, c)
    BY <1>3, <2>3
  <2> QED BY <2>4, EnoughStep
<1>4. \A m \in Nat : m \in S
  <2>1. 0 \in S /\ \A m \in Nat : m \in S => m + 1 \in S
    BY <1>2, <1>3
  <2> HIDE DEF S
  <2> QED BY <2>1, InductionOnNat
<1> QED BY <1>4

-----------------------------------------------------------------------------
(* Interpolation. *)

\* The weight a of point i with the other points up to j - 1, and with those up to j.
Grown(reps, i, j, a) ==
  IF j \in reps \ {i} THEN (a * ((j * InvMod((j - i) % P)) % P)) % P ELSE a

IsWeight(reps, i, n, w) ==
  w = [j \in 0..n |-> IF j = 0 THEN 1 ELSE Grown(reps, i, j, w[j - 1])]

LEMMA WeightExists ==
  ASSUME NEW reps, NEW i
  PROVE  \A n \in Nat : \E w : IsWeight(reps, i, n, w)
<1> DEFINE S == {m \in Nat : \E w : IsWeight(reps, i, m, w)}
<1>1. 0 \in S
  <2> DEFINE t == [j \in 0..0 |-> 1]
  <2>1. IsWeight(reps, i, 0, t)
    BY DEF IsWeight
  <2> QED BY <2>1
<1>2. ASSUME NEW m \in Nat, m \in S PROVE m + 1 \in S
  <2>1. PICK p : IsWeight(reps, i, m, p)
    BY <1>2
  <2> DEFINE t == [j \in 0..(m + 1) |-> IF j = m + 1 THEN Grown(reps, i, m + 1, p[m]) ELSE p[j]]
  <2>2. ASSUME NEW j \in 0..(m + 1)
        PROVE  t[j] = IF j = 0 THEN 1 ELSE Grown(reps, i, j, t[j - 1])
    BY <2>1 DEF IsWeight
  <2>3. IsWeight(reps, i, m + 1, t)
    BY <2>2 DEF IsWeight
  <2> HIDE DEF t
  <2> QED BY <2>3
<1> HIDE DEF S
<1>3. \A m \in Nat : m \in S
  BY <1>1, <1>2, InductionOnNat
<1> QED BY <1>3 DEF S

LEMMA WeightFacts ==
  ASSUME NEW reps, NEW i, NEW n \in Nat
  PROVE  \E w : /\ w[0] = 1 /\ Weight(reps, i, n) = w[n]
                /\ \A j \in 1..n : w[j] = Grown(reps, i, j, w[j - 1])
<1> DEFINE w == CHOOSE t : IsWeight(reps, i, n, t)
<1>1. IsWeight(reps, i, n, w)
  BY WeightExists
<1>2. Weight(reps, i, n) = w[n]
  BY DEF Weight, IsWeight, Grown
<1> HIDE DEF w
<1>3. w[0] = 1 /\ \A j \in 1..n : w[j] = Grown(reps, i, j, w[j - 1])
  BY <1>1 DEF IsWeight
<1> QED BY <1>2, <1>3

\* One point fewer, with h the inverse of the distance from point i to point q: the
\* weight of i stays, the sum meets the factor q * h, and one moment less is 0.
LEMMA LagrangeStep ==
  ASSUME NEW v \in Nat, v < P, NEW i \in 1..v, NEW q \in 1..v, q # i,
         NEW h, h = InvMod((q - i) % P), NEW S, NEW x, IsIntVector(x, v), IsOutsideZero(x, S, v),
         NEW m \in Nat, IsZeroUpTo(x, v, m + 1), NEW w \in Int, Congruent(Moment(x, v, 0), w)
  PROVE  \E y : /\ IsIntVector(y, v) /\ IsOutsideZero(y, S \ {q}, v) /\ Congruent(y[i], x[i])
                /\ Congruent(Moment(y, v, 0), (w * ((q * h) % P)) % P) /\ IsZeroUpTo(y, v, m)
<1> DEFINE s == -h
           z == [j \in 1..v |-> x[j] * (j - q)]
           y == [j \in 1..v |-> s * z[j]]
<1>1. i \in Int /\ q \in Int /\ q - i \in Int /\ h \in Int /\ h \in Field /\ Congruent((q - i) * h, 1)
      /\ s \in Int
  <2> DEFINE d == q - i
  <2>1. d \in Int /\ d # 0 /\ -P < d /\ d < P
    BY ModulusFacts
  <2> HIDE DEF d
  <2>2. InvMod(d % P) \in Field /\ InvMod(d % P) \in Int /\ Congruent(d * InvMod(d % P), 1)
    BY <2>1, UnitInverse
  <2>3. h \in Int /\ h \in Field /\ Congruent((q - i) * h, 1)
    BY <2>2 DEF d
  <2> QED BY <2>3
<1>2. ASSUME NEW j \in 1..v
      PROVE  x[j] \in Int /\ j - q \in Int /\ z[j] = x[j] * (j - q) /\ z[j] \in Int
             /\ y[j] = s * z[j] /\ y[j] \in Int
  <2>1. x[j] \in Int /\ j - q \in Int
    BY <1>1 DEF IsIntVector
  <2>2. z[j] = x[j] * (j - q) /\ y[j] = s * z[j]
    OBVIOUS
  <2>3. z[j] \in Int
    BY <2>1, <2>2, IntTimes
  <2> HIDE DEF z, y, s
  <2>4. y[j] \in Int
    BY <1>1, <2>2, <2>3, IntTimes
  <2> QED BY <2>1, <2>2, <2>3, <2>4
<1>3. IsIntVector(z, v) /\ IsIntVector(y, v)
  BY <1>2 DEF IsIntVector
<1>4. IsShift(z, x, q, v)
  <2> SUFFICES ASSUME NEW j \in 1..v PROVE Congruent(z[j], x[j] * (j - q))
    BY DEF IsShift
  <2>1. z[j] \in Int /\ z[j] = x[j] * (j - q)
    BY <1>2
  <2> HIDE DEF z
  <2> QED BY <2>1, CongruentRefl
<1>5. \A e \in Nat : Moment(y, v, e) = s * Moment(z, v, e)
  <2>1. \A e \in Nat : \A a : a = y => Moment(a, v, e) = s * Moment(z, v, e)
    <3> HIDE DEF s, z
    <3> QED BY <1>1, <1>3, ScaledMoment
  <2> QED BY <2>1
<1>6. IsOutsideZero(y, S \ {q}, v)
  <2> SUFFICES ASSUME NEW j \in 1..v, j \notin S \ {q} PROVE y[j] = 0
    BY DEF IsOutsideZero
  <2>1. x[j] = 0 \/ j - q = 0
    BY DEF IsOutsideZero
  <2>2. z[j] = 0
    <3> DEFINE a == x[j]
               b == j - q
    <3>1. a \in Int /\ b \in Int /\ (a = 0 \/ b = 0) /\ z[j] = a * b
      BY <1>2, <2>1
    <3> HIDE DEF a, b, z
    <3> QED BY <3>1
  <2>3. y[j] = s * z[j]
    BY <1>2
  <2> HIDE DEF z, y, s
  <2>4. s * 0 = 0
    BY <1>1
  <2> QED BY <2>2, <2>3, <2>4
<1>7. Congruent(y[i], x[i])
  <2> DEFINE a == x[i]
             d == q - i
             g == i - q
             u == d * h
  <2>1. a \in Int /\ d \in Int /\ g = -d /\ u \in Int /\ y[i] = s * (a * g) /\ Congruent(u, 1)
    <3>1. a \in Int /\ d \in Int /\ g = -d /\ y[i] = s * (a * g) /\ Congruent(u, 1)
      BY <1>1, <1>2
    <3> HIDE DEF a, d, g, y
    <3> QED BY <1>1, <3>1, IntTimes
  <2>2. s * (a * g) = u * a
    <3>1. s = -h /\ u = d * h
      OBVIOUS
    <3> HIDE DEF a, d, g, s, u
    <3> QED BY <1>1, <2>1, <3>1
  <2> HIDE DEF a, d, g, s, u, y
  <2>3. Congruent(u * a, a)
    BY <2>1, TimesOne
  <2> QED BY <2>1, <2>2, <2>3 DEF a
<1> HIDE DEF y, z
<1>8. \A e \in Nat : Moment(x, v, e) \in Int /\ Moment(z, v, e) \in Int
  BY <1>3, MomentFacts
<1>9. \A e \in Nat : Congruent(Moment(z, v, e), Moment(x, v, e + 1) + (-q) * Moment(x, v, e))
  BY <1>1, <1>3, <1>4, MomentShift
<1>10. ASSUME NEW e \in 0..m, NEW b \in Int, Congruent(Moment(x, v, e), b)
       PROVE  Congruent(Moment(y, v, e), (b * q) * h)
  <2> DEFINE a == Moment(x, v, e)
             n == Moment(x, v, e + 1)
             k == Moment(z, v, e)
             t == -q
             o == 0
             ta == t * a
             tb == t * b
             na == n + ta
             ob == o + tb
             sk == s * k
             sb == s * tb
  <2>1. e \in Nat /\ e + 1 \in Nat /\ e + 1 \in 1..(m + 1)
    OBVIOUS
  <2>2. a \in Int /\ n \in Int /\ k \in Int /\ t \in Int /\ o \in Int
    BY <1>1, <1>8, <2>1
  <2>3. Congruent(a, b) /\ Congruent(n, o) /\ Congruent(k, na) /\ Moment(y, v, e) = sk
    BY <1>5, <1>9, <1>10, <2>1 DEF IsZeroUpTo
  <2>4. t = -q /\ s = -h /\ o = 0
    OBVIOUS
  <2> HIDE DEF a, n, k, t, o, s
  <2>5. ta \in Int /\ tb \in Int /\ Congruent(ta, tb)
    BY <2>2, <2>3, CongruentTimes, IntTimes
  <2> HIDE DEF ta, tb
  <2>6. na \in Int /\ ob \in Int /\ Congruent(na, ob) /\ ob = tb
    <3>1. Congruent(n + ta, o + tb)
      BY <2>2, <2>3, <2>5, CongruentAdd
    <3> QED BY <2>2, <2>4, <2>5, <3>1
  <2> HIDE DEF na, ob
  <2>7. Congruent(k, tb)
    BY <2>2, <2>3, <2>5, <2>6, CongruentTrans
  <2>8. Congruent(sk, sb)
    BY <1>1, <2>2, <2>5, <2>7, CongruentTimes
  <2>9. sb = (b * q) * h
    <3>1. tb = (-q) * b /\ sb = (-h) * tb
      BY <2>4 DEF tb
    <3>2. (-h) * ((-q) * b) = (b * q) * h
      BY <1>1
    <3> QED BY <3>1, <3>2
  <2> HIDE DEF sk, sb
  <2> QED BY <2>3, <2>8, <2>9
<1> HIDE DEF s
<1>11. Congruent(Moment(y, v, 0), (w * ((q * h) % P)) % P)
  <2> DEFINE f == q * h
             g == f % P
             a == Moment(y, v, 0)
             wf == w * f
             wg == w * g
             r == wg % P
  <2>1. f \in Int /\ a \in Int /\ 0 \in 0..m /\ 0 \in Nat
    BY <1>1, <1>3, MomentFacts, IntTimes
  <2>2. Congruent(a, (w * q) * h)
    BY <1>10, <2>1
  <2>3. (w * q) * h = wf
    BY <1>1, IntTimes
  <2> HIDE DEF f
  <2>4. g \in Field /\ g \in Int /\ Congruent(f, g)
    BY <2>1, ModInField, FieldInt
  <2> HIDE DEF g
  <2>5. wf \in Int /\ wg \in Int /\ Congruent(wf, wg)
    BY <2>1, <2>4, CongruentTimes, IntTimes
  <2>6. Congruent(a, wf)
    BY <2>2, <2>3
  <2> HIDE DEF a, wf, wg
  <2>7. r \in Int /\ Congruent(wg, r)
    BY <2>5, ModInField, FieldInt
  <2> HIDE DEF r
  <2>8. Congruent(a, wg)
    BY <2>1, <2>5, <2>6, CongruentTrans
  <2>9. Congruent(a, r)
    BY <2>1, <2>5, <2>7, <2>8, CongruentTrans
  <2> QED BY <2>9 DEF a, r, wg, g, f
<1>12. IsZeroUpTo(y, v, m)
  <2> SUFFICES ASSUME NEW e \in 1..m PROVE Congruent(Moment(y, v, e), 0)
    BY DEF IsZeroUpTo
  <2>1. e \in 0..m /\ e \in 1..(m + 1) /\ 0 \in Int
    OBVIOUS
  <2>2. Congruent(Moment(x, v, e), 0)
    BY <2>1 DEF IsZeroUpTo
  <2>3. Congruent(Moment(y, v, e), (0 * q) * h)
    BY <1>10, <2>1, <2>2
  <2>4. (0 * q) * h = 0
    BY <1>1
  <2> QED BY <2>3, <2>4
<1> QED BY <1>3, <1>6, <1>7, <1>11, <1>12

\* The weights of Weight are those that make a polynomial's value at 0 of its values
\* at as many points as it has coefficients, and there are no others.
LEMMA LagrangePoints ==
  ASSUME NEW v \in Nat, v < P, NEW T, T \subseteq 1..v, NEW i \in T,
         NEW c \in Nat, c + 1 = Cardinality(T), NEW z, IsEnough(z, T, v, c)
  PROVE  Weight(T, i, v) \in Int /\ Congruent(z[i], Weight(T, i, v))
<1>1. PICK w : /\ w[0] = 1 /\ Weight(T, i, v) = w[v]
               /\ \A j \in 1..v : w[j] = Grown(T, i, j, w[j - 1])
  BY WeightFacts
<1> DEFINE Left(j) == {q \in T \ {i} : q > j}
           Good(j, x) ==
             /\ IsIntVector(x, v) /\ IsOutsideZero(x, Left(j) \cup {i}, v) /\ Congruent(x[i], z[i])
             /\ w[j] \in Int /\ Congruent(Moment(x, v, 0), w[j])
             /\ IsZeroUpTo(x, v, Cardinality(Left(j)))
           N == {j \in Nat : j <= v => \E x : Good(j, x)}
<1>0. i \in 1..v /\ \A q \in T : q \in Nat /\ q >= 1 /\ q <= v
  <2>1. \A q \in T : q \in 1..v
    OBVIOUS
  <2> QED BY <2>1
<1>2. i \in 1..v /\ IsFiniteSet(T) /\ \A j : IsFiniteSet(Left(j)) /\ Cardinality(Left(j)) \in Nat
  <2>1. IsFiniteSet(1..v)
    BY FS_Interval
  <2>2. IsFiniteSet(T)
    BY <2>1, FS_Subset
  <2>3. \A j : Left(j) \subseteq T
    OBVIOUS
  <2> HIDE DEF Left
  <2>4. \A j : IsFiniteSet(Left(j))
    BY <2>2, <2>3, FS_Subset
  <2> QED BY <2>2, <2>4, FS_CardinalityType
<1>3. IsIntVector(z, v) /\ IsOutsideZero(z, T, v) /\ Congruent(Moment(z, v, 0), 1)
      /\ IsZeroUpTo(z, v, c)
  BY DEF IsEnough
<1>4. Good(0, z)
  <2>1. Left(0) = T \ {i}
    <3>1. ASSUME NEW q \in T \ {i} PROVE q > 0
      BY <1>0
    <3> QED BY <3>1
  <2>2. Cardinality(T \ {i}) = c
    <3>1. Cardinality(T \ {i}) = Cardinality(T) - 1
      BY <1>2, FS_RemoveElement
    <3> QED BY <3>1
  <2>3. Left(0) \cup {i} = T /\ Cardinality(Left(0)) = c
    BY <2>1, <2>2
  <2>4. Congruent(z[i], z[i])
    BY <1>2, <1>3, CongruentRefl DEF IsIntVector
  <2>5. w[0] = 1 /\ w[0] \in Int /\ Congruent(Moment(z, v, 0), w[0])
    <3>1. w[0] = 1 /\ 1 \in Int
      BY <1>1
    <3> QED BY <1>3, <3>1
  <2> HIDE DEF Left
  <2>6. IsZeroUpTo(z, v, Cardinality(Left(0)))
    BY <1>3, <2>3
  <2>7. IsOutsideZero(z, Left(0) \cup {i}, v)
    BY <1>3, <2>3
  <2> QED BY <1>3, <2>4, <2>5, <2>6, <2>7
<1>5. ASSUME NEW j \in Nat, j + 1 <= v, NEW x, Good(j, x) PROVE \E y : Good(j + 1, y)
  <2> DEFINE q == j + 1
             a == w[j]
             h == InvMod((q - i) % P)
  <2>1. q \in 1..v /\ w[q] = Grown(T, i, q, a) /\ a \in Int
    BY <1>1, <1>5
  <2>2. IsIntVector(x, v) /\ IsOutsideZero(x, Left(j) \cup {i}, v) /\ Congruent(x[i], z[i])
        /\ Congruent(Moment(x, v, 0), a) /\ IsZeroUpTo(x, v, Cardinality(Left(j)))
    BY <1>5
  <2>3. CASE q \notin T \ {i}
    <3>1. Left(q) = Left(j)
      <4> SUFFICES ASSUME NEW p \in T \ {i} PROVE p > q <=> p > j
        OBVIOUS
      <4>1. p \in Nat /\ p # j + 1
        BY <1>0, <2>3
      <4> QED BY <4>1
    <3>2. w[q] = a
      BY <2>1, <2>3 DEF Grown
    <3> HIDE DEF Left, q
    <3>3. Good(q, x)
      BY <1>5, <3>1, <3>2
    <3> HIDE DEF Good
    <3>4. \E y : Good(q, y)
      BY <3>3
    <3> QED BY <3>4 DEF q
  <2>4. CASE q \in T \ {i}
    <3> DEFINE m == Cardinality(Left(q))
    <3>1. Left(q) = Left(j) \ {q} /\ q \in Left(j) /\ q # i
      <4>1. q \in Left(j) /\ q # i
        BY <2>4
      <4>2. ASSUME NEW p \in T \ {i} PROVE p > q <=> p > j /\ p # q
        <5>1. p \in Nat
          BY <1>0
        <5> QED BY <5>1
      <4>3. Left(q) = Left(j) \ {q}
        BY <4>2
      <4> QED BY <4>1, <4>3
    <3>2. Cardinality(Left(j)) = m + 1 /\ m \in Nat
      <4>1. IsFiniteSet(Left(j)) /\ Cardinality(Left(j)) \in Nat /\ m \in Nat
        BY <1>2
      <4>2. Cardinality(Left(j) \ {q}) = Cardinality(Left(j)) - 1
        <5> HIDE DEF Left, q
        <5> QED BY <3>1, <4>1, FS_RemoveElement
      <4> HIDE DEF Left, q
      <4> QED BY <3>1, <4>1, <4>2
    <3>3. (Left(j) \cup {i}) \ {q} = Left(q) \cup {i}
      BY <3>1
    <3>4. w[q] = (a * ((q * h) % P)) % P
      BY <2>1, <2>4 DEF Grown
    <3>5. w[q] \in Int
      <4> DEFINE f == q * h
                 g == f % P
                 ag == a * g
      <4>1. h \in Int
        <5> DEFINE d == q - i
        <5>1. d \in Int /\ d # 0 /\ -P < d /\ d < P
          BY <1>2, <2>1, <3>1, ModulusFacts
        <5> HIDE DEF d
        <5>2. InvMod(d % P) \in Int
          BY <5>1, UnitInverse
        <5> QED BY <5>2 DEF d
      <4> HIDE DEF h
      <4>2. f \in Int
        BY <2>1, <4>1, IntTimes
      <4> HIDE DEF f
      <4>3. g \in Int
        BY <4>2, ModInField, FieldInt
      <4> HIDE DEF g, a
      <4>4. ag \in Int
        BY <2>1, <4>3, IntTimes
      <4> HIDE DEF ag
      <4>5. ag % P \in Int
        BY <4>4, ModInField, FieldInt
      <4> QED BY <3>4, <4>5 DEF ag, g, f, a
    <3> HIDE DEF a
    <3>6. h = InvMod((q - i) % P)
      OBVIOUS
    <3> DEFINE S == Left(j) \cup {i}
    <3>7. IsOutsideZero(x, S, v) /\ IsZeroUpTo(x, v, m + 1)
      BY <2>2, <3>2
    <3>8. S \ {q} = Left(q) \cup {i}
      BY <3>3
    <3> HIDE DEF Left, q, h, S, m
    <3>9. PICK y : /\ IsIntVector(y, v) /\ IsOutsideZero(y, S \ {q}, v) /\ Congruent(y[i], x[i])
                   /\ Congruent(Moment(y, v, 0), (a * ((q * h) % P)) % P) /\ IsZeroUpTo(y, v, m)
      BY <1>2, <2>1, <2>2, <3>1, <3>2, <3>6, <3>7, LagrangeStep
    <3>10. Congruent(y[i], z[i])
      <4>1. y[i] \in Int /\ x[i] \in Int /\ z[i] \in Int
        BY <1>2, <1>3, <2>2, <3>9 DEF IsIntVector
      <4> QED BY <2>2, <3>9, <4>1, CongruentTrans
    <3>11. IsZeroUpTo(y, v, Cardinality(Left(q)))
      BY <3>9 DEF m
    <3>12. Good(q, y)
      BY <3>4, <3>5, <3>8, <3>9, <3>10, <3>11
    <3> HIDE DEF Good
    <3>13. \E b : Good(q, b)
      BY <3>12
    <3> QED BY <3>13 DEF q
  <2> QED BY <2>3, <2>4
<1>6. \A j \in Nat : j \in N
  <2>1. 0 \in N
    <3> HIDE DEF Good
    <3> QED BY <1>4
  <2>2. \A j \in Nat : j \in N => j + 1 \in N
    <3> HIDE DEF Good
    <3> QED BY <1>5
  <2> HIDE DEF N
  <2> QED BY <2>1, <2>2, InductionOnNat
<1>7. PICK x : Good(v, x)
  <2> HIDE DEF Good
  <2> QED BY <1>6
<1>8. Left(v) \cup {i} = {i}
  <2>1. ASSUME NEW q \in T PROVE ~(q > v)
    BY <1>0
  <2> QED BY <2>1
<1>9. IsIntVector(x, v) /\ IsOutsideZero(x, {i}, v) /\ Congruent(x[i], z[i])
      /\ w[v] \in Int /\ Congruent(Moment(x, v, 0), w[v])
  <2> HIDE DEF Left
  <2> QED BY <1>7, <1>8
<1> HIDE DEF Good, Left, N
<1>10. Moment(x, v, 0) = x[i]
  <2>1. \A j \in 1..v : x[j] \in Int
    BY <1>9 DEF IsIntVector
  <2>2. \A j \in (0 + 1)..v : j # i => x[j] = 0
    BY <1>9 DEF IsOutsideZero
  <2>3. 0 \in Nat /\ 0 <= v /\ i \in Nat /\ i <= v /\ i > 0
    BY <1>2
  <2>4. Total(x, v) = Total(x, 0) + IF i > 0 THEN x[i] ELSE 0
    BY <2>1, <2>2, <2>3, TotalSingle
  <2>5. Total(x, 0) = 0
    BY TotalStep
  <2>6. x[i] \in Int
    BY <1>2, <2>1
  <2> QED BY <1>9, <2>3, <2>4, <2>5, <2>6, SumOfPoints
<1>11. Congruent(z[i], w[v])
  <2> DEFINE a == x[i]
             b == z[i]
             d == w[v]
  <2>1. a \in Int /\ b \in Int /\ d \in Int /\ Congruent(a, b) /\ Congruent(a, d)
    BY <1>2, <1>3, <1>9, <1>10 DEF IsIntVector
  <2> HIDE DEF a, b, d
  <2>2. Congruent(b, a)
    BY <2>1, CongruentSym
  <2>3. Congruent(b, d)
    BY <2>1, <2>2, CongruentTrans
  <2> QED BY <2>3 DEF b, d
<1> QED BY <1>1, <1>9, <1>11

\* The values of a polynomial at the points in T, by their weights.
IsWeighed(f, T, s, n) ==
  \A i \in 1..n : f[i] = IF i \in T THEN Weight(T, i, n) * s[i] ELSE 0

\* Enough values of the dealer's polynomial give back its first coefficient.
LEMMA Interpolation ==
  ASSUME NEW n \in Nat, n < P, NEW T, T \subseteq 1..n, NEW l \in Nat, l >= 1,
         Cardinality(T) >= l, \A e \in 1..l : Coins[e] \in Field,
         NEW s, \A i \in T : s[i] = share(l, i), NEW f, IsWeighed(f, T, s, n)
  PROVE  Total(f, n) % P = Coins[1]
<1> DEFINE c == Cardinality(T) - 1
<1>1. c \in Nat /\ c + 1 = Cardinality(T) /\ Cardinality(T) >= c + 1 /\ l - 1 <= c
  <2>1. IsFiniteSet(1..n)
    BY FS_Interval
  <2>2. Cardinality(T) \in Nat
    BY <2>1, FS_Subset, FS_CardinalityType
  <2> QED BY <2>2
<1> HIDE DEF c
<1>2. PICK z : IsEnough(z, T, n, c)
  BY <1>1, EnoughPoints
<1>3. IsIntVector(z, n) /\ IsOutsideZero(z, T, n) /\ Congruent(Moment(z, n, 0), 1)
      /\ IsZeroUpTo(z, n, c)
  BY <1>2 DEF IsEnough
<1>4. \A i \in T : Weight(T, i, n) \in Int /\ Congruent(z[i], Weight(T, i, n))
  BY <1>1, <1>2, LagrangePoints
<1> DEFINE Y == [i \in 1..n |-> [e \in 1..l |-> Power(i, e - 1)]]
           u == [e \in 1..l |-> Total([i \in 1..n |-> z[i] * Y[i][e]], n)]
           W == [i \in 1..n |-> Pair(Y[i], Coins, l)]
<1>5. \A i \in 1..n, e \in 1..l : Y[i][e] = Power(i, e - 1) /\ Y[i][e] \in Int
  <2>1. \A i \in 1..n, e \in 1..l : i \in Int /\ e - 1 \in Nat
    OBVIOUS
  <2>2. \A i \in 1..n, e \in 1..l : Power(i, e - 1) \in Int
    BY <2>1, PowerInField, FieldInt
  <2> QED BY <2>2
<1>6. \A e \in 1..l : Coins[e] \in Int
  BY FieldInt
<1>7. \A i \in 1..n : z[i] \in Int
  BY <1>3 DEF IsIntVector
<1>8. Pair(u, Coins, l) = Pair(z, W, n)
  <2>1. Exchanges(z, Y, Coins, n)
    <3> HIDE DEF Y
    <3> QED BY <1>7, PairExchange
  <2>2. \A e \in 1..l : u[e] = Total([i \in 1..n |-> z[i] * Y[i][e]], n)
    OBVIOUS
  <2>3. \A i \in 1..n : W[i] = Pair(Y[i], Coins, l)
    OBVIOUS
  <2>4. \A e \in 1..l : Coins[e] \in Int /\ \A i \in 1..n : Y[i][e] \in Int
    BY <1>5, <1>6
  <2> HIDE DEF u, W, Y
  <2> QED BY <2>1, <2>2, <2>3, <2>4 DEF Exchanges
<1>9. ASSUME NEW e \in 1..l PROVE u[e] \in Int /\ Congruent(u[e], e1(l)[e]) /\ e1(l)[e] \in Int
  <2>1. e - 1 \in Nat /\ e1(l)[e] \in Int
    BY DEF e1
  <2>2. u[e] = Moment(z, n, e - 1)
    <3>1. Products(z, Points(n, e - 1), n) = [i \in 1..n |-> z[i] * Y[i][e]]
      BY <1>5 DEF Products, Points
    <3>2. u[e] = Total([i \in 1..n |-> z[i] * Y[i][e]], n)
      OBVIOUS
    <3> HIDE DEF u, Y
    <3> QED BY <3>1, <3>2 DEF Moment, Pair
  <2> HIDE DEF u
  <2>3. u[e] \in Int
    BY <1>3, <2>1, <2>2, MomentFacts
  <2>4. CASE e = 1
    <3>1. e - 1 = 0 /\ e1(l)[e] = 1
      BY <2>4 DEF e1
    <3> QED BY <1>3, <2>1, <2>2, <2>3, <3>1
  <2>5. CASE e # 1
    <3>1. e - 1 \in 1..c /\ e1(l)[e] = 0
      BY <1>1, <2>5 DEF e1
    <3>2. Congruent(Moment(z, n, e - 1), 0)
      BY <1>3, <3>1 DEF IsZeroUpTo
    <3> QED BY <2>1, <2>2, <2>3, <3>1, <3>2
  <2> QED BY <2>4, <2>5
<1>10. Congruent(Pair(u, Coins, l), Coins[1]) /\ Pair(u, Coins, l) \in Int
  <2>1. \A e \in 1..l : Coins[e] \in Int /\ u[e] \in Int /\ e1(l)[e] \in Int
                        /\ Congruent(u[e], e1(l)[e])
    BY <1>6, <1>9
  <2> HIDE DEF u
  <2>2. Congruent(Pair(u, Coins, l), Pair(e1(l), Coins, l))
    BY <2>1, PairCongruent
  <2>3. Pair(u, Coins, l) \in Int
    BY <2>1, PairFacts
  <2>4. 1 \in 1..l
    OBVIOUS
  <2>5. Pair(Identity(l)[1], Coins, l) = Coins[1]
    BY <1>6, <2>4, UnitPair
  <2>6. e1(l) = Identity(l)[1]
    BY <2>4 DEF e1, Identity
  <2> QED BY <2>2, <2>3, <2>5, <2>6
<1>11. ASSUME NEW i \in 1..n
       PROVE  W[i] \in Int /\ share(l, i) \in Int /\ Congruent(share(l, i), W[i])
  <2> DEFINE y == Y[i]
             g == Pair(Coins, y, l)
  <2>1. \A e \in 1..l : Coins[e] \in Int /\ y[e] \in Int /\ y[e] = Power(i, e - 1)
    BY <1>5, <1>6
  <2>2. W[i] = Pair(y, Coins, l)
    OBVIOUS
  <2> HIDE DEF y, W
  <2>3. Products(Coins, y, l) = [e \in 1..l |-> Coins[e] * Power(i, e - 1)]
    BY <2>1 DEF Products
  <2>4. share(l, i) = g % P
    BY <2>3 DEF share, Pair
  <2>5. g \in Int /\ g = W[i]
    BY <2>1, <2>2, PairFacts
  <2> HIDE DEF g
  <2>6. g % P \in Field /\ Congruent(g % P, g)
    BY <2>5, ModInField
  <2> QED BY <2>4, <2>5, <2>6, FieldInt
<1> DEFINE p == Products(z, W, n)
<1>12. ASSUME NEW i \in 1..n PROVE f[i] \in Int /\ p[i] \in Int /\ Congruent(f[i], p[i])
  <2> DEFINE a == z[i]
             b == W[i]
  <2>1. a \in Int /\ b \in Int /\ p[i] = a * b
    BY <1>7, <1>11 DEF Products
  <2>2. CASE i \notin T
    <3>1. a = 0 /\ f[i] = 0
      BY <1>3, <2>2 DEF IsOutsideZero, IsWeighed
    <3> HIDE DEF a, b, p
    <3>2. p[i] = 0
      BY <2>1, <3>1
    <3> QED BY <3>1, <3>2, CongruentRefl
  <2>3. CASE i \in T
    <3> DEFINE t == Weight(T, i, n)
               d == share(l, i)
    <3>1. t \in Int /\ Congruent(a, t) /\ d \in Int /\ Congruent(d, b) /\ f[i] = t * d
      BY <1>4, <1>11, <2>3 DEF IsWeighed
    <3> HIDE DEF a, b, p, t, d
    <3>2. Congruent(t, a)
      BY <2>1, <3>1, CongruentSym
    <3> DEFINE td == t * d
               tb == t * b
               ab == a * b
    <3>3. td \in Int /\ tb \in Int /\ ab \in Int /\ Congruent(td, tb) /\ Congruent(tb, ab)
      BY <2>1, <3>1, <3>2, CongruentTimes, IntTimes
    <3>4. f[i] = td /\ p[i] = ab
      BY <2>1, <3>1
    <3> HIDE DEF td, tb, ab
    <3>5. Congruent(td, ab)
      BY <3>3, CongruentTrans
    <3> QED BY <3>3, <3>4, <3>5
  <2> QED BY <2>2, <2>3
<1>13. Pair(z, W, n) = Total(p, n)
  BY DEF Pair
<1> DEFINE g == Total(f, n)
           k == Total(p, n)
           o == Coins[1]
<1>14. g \in Int /\ k \in Int /\ Congruent(g, k) /\ o \in Field /\ o \in Int /\ Congruent(k, o)
  <2>1. n \in 0..n /\ 1 \in 1..l
    OBVIOUS
  <2>2. (\A i \in 1..n : f[i] \in Int) /\ (\A i \in 1..n : p[i] \in Int)
    BY <1>12
  <2> HIDE DEF p, u, W
  <2>3. g \in Int /\ k \in Int
    BY <2>1, <2>2, TotalInt
  <2>4. Congruent(g, k)
    BY <1>12, TotalCongruent
  <2> QED BY <1>6, <1>8, <1>10, <1>13, <2>1, <2>3, <2>4
<1> HIDE DEF g, k, o
<1>15. Congruent(g, o)
  BY <1>14, CongruentTrans
<1>16. g % P = o % P
  BY <1>14, <1>15, CongruentMod
<1>17. o % P = o
  BY <1>14, ModOfField
<1> QED BY <1>16, <1>17 DEF g, o

-----------------------------------------------------------------------------
(* What a span program accepts. *)

\* The rows of M with the weights x, added up in column q.
ColumnSum(x, M, r, q) == Total([j \in 1..r |-> x[j] * M[j][q]], r)

\* The rows in T add up to the first unit vector.
SpansWith(x, M, r, d, T) ==
  /\ IsIntVector(x, r) /\ IsOutsideZero(x, T, r)
  /\ \A q \in 1..d : Congruent(ColumnSum(x, M, r, q), IF q = 1 THEN 1 ELSE 0)

Spans(M, r, d, T) == \E x : SpansWith(x, M, r, d, T)

\* A sum in two parts.
Behind(f, m) == [j \in Nat |-> f[m + j]]

LEMMA TotalSplit ==
  ASSUME NEW f, NEW m \in Nat, NEW n \in Nat, \A i \in 1..(m + n) : f[i] \in Int
  PROVE  /\ Total(f, m + n) = Total(f, m) + Total(Behind(f, m), n)
         /\ Total(f, m) \in Int /\ Total(Behind(f, m), n) \in Int
<1> DEFINE g == Behind(f, m)
           Good(i) == i <= n => Total(f, m + i) = Total(f, m) + Total(g, i)
           S == {i \in Nat : Good(i)}
<1>1. \A i \in 1..n : g[i] = f[m + i] /\ g[i] \in Int
  BY DEF Behind
<1> HIDE DEF g
<1>2. Total(f, m) \in Int /\ Total(g, n) \in Int /\ \A i \in 0..n : Total(g, i) \in Int
  <2>1. \A i \in 1..m : f[i] \in Int
    OBVIOUS
  <2>2. m \in 0..m /\ n \in 0..n
    OBVIOUS
  <2>3. Total(f, m) \in Int
    BY <2>1, <2>2, TotalInt
  <2>4. \A i \in 0..n : Total(g, i) \in Int
    BY <1>1, TotalInt
  <2> QED BY <2>2, <2>3, <2>4
<1>3. Good(0)
  <2>1. Total(g, 0) = 0
    BY TotalStep
  <2> QED BY <1>2, <2>1
<1>4. ASSUME NEW i \in Nat, Good(i), i + 1 <= n PROVE Total(f, m + (i + 1)) = Total(f, m) + Total(g, i + 1)
  <2>1. i + 1 \in 1..n /\ i \in 0..n /\ i <= n /\ m + i \in Nat /\ (m + i) + 1 = m + (i + 1)
    BY <1>4
  <2>2. Total(f, (m + i) + 1) = Total(f, m + i) + f[(m + i) + 1]
    BY <2>1, TotalStep
  <2>3. Total(g, i + 1) = Total(g, i) + g[i + 1]
    BY TotalStep
  <2>4. g[i + 1] = f[m + (i + 1)] /\ g[i + 1] \in Int /\ Total(g, i) \in Int
    BY <1>1, <1>2, <2>1
  <2>5. Total(f, m + i) = Total(f, m) + Total(g, i)
    BY <1>4, <2>1
  <2> QED BY <1>2, <2>1, <2>2, <2>3, <2>4, <2>5
<1>5. \A i \in Nat : i \in S
  <2>1. 0 \in S /\ \A i \in Nat : i \in S => i + 1 \in S
    BY <1>3, <1>4
  <2> HIDE DEF S
  <2> QED BY <2>1, InductionOnNat
<1>6. Good(n)
  BY <1>5
<1> QED BY <1>2, <1>6 DEF g

IsInThree(f, m, v, k, e) == e = m + v + k /\ IsIntVector(f, e)

LEMMA TotalThree ==
  ASSUME NEW f, NEW m \in Nat, NEW v \in Nat, NEW k \in Nat, NEW e, IsInThree(f, m, v, k, e)
  PROVE  /\ Total(f, e)
              = Total(f, m) + Total(Behind(f, m), v) + Total(Behind(f, m + v), k)
         /\ Total(f, m) \in Int /\ Total(Behind(f, m), v) \in Int
         /\ Total(Behind(f, m + v), k) \in Int
<1> DEFINE n == m + v
<1>1. n \in Nat /\ \A i \in 1..n : f[i] \in Int
  BY DEF IsIntVector, IsInThree
<1>2. e = n + k /\ \A i \in 1..(n + k) : f[i] \in Int
  BY DEF IsIntVector, IsInThree
<1>3. Total(f, n) = Total(f, m) + Total(Behind(f, m), v) /\ Total(f, m) \in Int
      /\ Total(Behind(f, m), v) \in Int
  <2>1. \A i \in 1..(m + v) : f[i] \in Int
    BY <1>1
  <2> QED BY <2>1, TotalSplit
<1> HIDE DEF n
<1>4. Total(f, n + k) = Total(f, n) + Total(Behind(f, n), k) /\ Total(Behind(f, n), k) \in Int
  BY <1>1, <1>2, TotalSplit
<1> QED BY <1>2, <1>3, <1>4 DEF n

\* The rows of the insertion: m of the old ones, those of B, k of the old ones.
IsInsertion(N, A, B, m, v, k, d, w) ==
  /\ \A i \in 1..m : /\ \A q \in 1..d : N[i][q] = A[i][q]
                     /\ \A q \in 1..(w - 1) : N[i][d + q] = 0
  /\ \A i \in 1..v : /\ \A q \in 1..d : N[m + i][q] = A[m + 1][q]
                     /\ \A q \in 1..(w - 1) : N[m + i][d + q] = B[i][q + 1]
  /\ \A i \in 1..k : /\ \A q \in 1..d : N[m + v + i][q] = A[m + 1 + i][q]
                     /\ \A q \in 1..(w - 1) : N[m + v + i][d + q] = 0

LEMMA ConcatEntries ==
  ASSUME NEW d \in Nat, NEW u \in [1..d -> Field], NEW e \in Nat, NEW z \in [1..e -> Field]
  PROVE  /\ \A q \in 1..d : (u \o z)[q] = u[q]
         /\ \A q \in 1..e : (u \o z)[d + q] = z[q]
<1>1. u \in Seq(Field) /\ Len(u) = d /\ z \in Seq(Field) /\ Len(z) = e
  BY FunctionIsSeq
<1>2. \A q \in 1..(Len(u) + Len(z)) :
        (u \o z)[q] = IF q <= Len(u) THEN u[q] ELSE z[q - Len(u)]
  BY <1>1, ConcatProperties
<1>3. \A q \in 1..d : q \in 1..(Len(u) + Len(z)) /\ q <= Len(u)
  BY <1>1
<1>4. \A q \in 1..e : d + q \in 1..(Len(u) + Len(z)) /\ ~(d + q <= Len(u)) /\ d + q - Len(u) = q
  BY <1>1
<1> QED BY <1>2, <1>3, <1>4

LEMMA InsertionEntries ==
  ASSUME NEW m \in Nat, NEW v \in Nat, NEW k \in Nat, NEW d \in Nat, NEW w \in Nat, v >= 1, w >= 1,
         NEW A \in Matrix(m + 1 + k, d), NEW B \in Matrix(v, w),
         NEW N, N = performInsertion(A, B, m + 1)
  PROVE  IsInsertion(N, A, B, m, v, k, d, w)
<1> DEFINE e   == w - 1
           pad == Zeros(e)
           r   == m + 1 + k
           n   == r + v - 1
<1>1. /\ r \in Nat /\ Len(A) = r /\ Len(B) = v /\ Len(B[1]) = w
      /\ \A i \in 1..r : A[i] \in [1..d -> Field]
      /\ \A i \in 1..v : B[i] \in [1..w -> Field] /\ B[i] \in Seq(Field) /\ Len(B[i]) = w
  BY FunctionIsSeq DEF Matrix
<1>2. e \in Nat /\ pad \in [1..e -> Field] /\ \A q \in 1..e : pad[q] = 0
  BY ModulusFacts DEF Zeros
<1>3. \A i \in 1..v : Tail(B[i]) \in [1..e -> Field] /\ \A q \in 1..e : Tail(B[i])[q] = B[i][q + 1]
  <2> SUFFICES ASSUME NEW i \in 1..v
               PROVE  Tail(B[i]) \in [1..e -> Field] /\ \A q \in 1..e : Tail(B[i])[q] = B[i][q + 1]
    OBVIOUS
  <2> DEFINE b == B[i]
  <2>1. b \in Seq(Field) /\ Len(b) = w /\ b # << >>
    BY <1>1
  <2> HIDE DEF b
  <2>2. Tail(b) \in Seq(Field) /\ Len(Tail(b)) = e /\ \A q \in 1..e : Tail(b)[q] = b[q + 1]
    BY <2>1, HeadTailProperties
  <2> DEFINE z == Tail(b)
  <2>3. z \in Seq(Field) /\ Len(z) = e
    BY <2>2
  <2> HIDE DEF z
  <2>4. z \in [1..e -> Field]
    BY <2>3
  <2> QED BY <2>2, <2>4 DEF b, z
<1> HIDE DEF pad
<1> DEFINE old(i) == A[i] \o pad
           new(i) == A[m + 1] \o Tail(B[i])
<1>4. N = [i \in 1..n |->
             IF i < m + 1 THEN old(i)
             ELSE IF i < m + 1 + v THEN new(i - (m + 1) + 1) ELSE old(i - v + 1)]
  BY <1>1 DEF performInsertion, pad
<1> HIDE DEF old, new
<1>5. \A i \in 1..m : N[i] = old(i) /\ i \in 1..r
  <2> SUFFICES ASSUME NEW i \in 1..m PROVE N[i] = old(i) /\ i \in 1..r
    OBVIOUS
  <2>1. i \in 1..n /\ i < m + 1 /\ i \in 1..r
    OBVIOUS
  <2> HIDE DEF n, r
  <2> QED BY <1>4, <2>1
<1>6. \A i \in 1..v : N[m + i] = new(i) /\ m + 1 \in 1..r
  <2> SUFFICES ASSUME NEW i \in 1..v PROVE N[m + i] = new(i) /\ m + 1 \in 1..r
    OBVIOUS
  <2> DEFINE g == m + i
  <2>1. g \in 1..n /\ ~(g < m + 1) /\ g < m + 1 + v /\ g - (m + 1) + 1 = i /\ m + 1 \in 1..r
    OBVIOUS
  <2> HIDE DEF n, r, g
  <2>2. N[g] = new(g - (m + 1) + 1)
    BY <1>4, <2>1
  <2> QED BY <2>1, <2>2 DEF g
<1>7. \A i \in 1..k : N[m + v + i] = old(m + 1 + i) /\ m + 1 + i \in 1..r
  <2> SUFFICES ASSUME NEW i \in 1..k PROVE N[m + v + i] = old(m + 1 + i) /\ m + 1 + i \in 1..r
    OBVIOUS
  <2> DEFINE g == m + v + i
             h == m + 1 + i
  <2>1. g \in 1..n /\ ~(g < m + 1) /\ ~(g < m + 1 + v) /\ g - v + 1 = h /\ h \in 1..r
    OBVIOUS
  <2> HIDE DEF n, r, g, h
  <2>2. N[g] = old(g - v + 1)
    BY <1>4, <2>1
  <2> QED BY <2>1, <2>2 DEF g, h
<1> HIDE DEF e
<1>8. ASSUME NEW i \in 1..m
      PROVE  (\A q \in 1..d : N[i][q] = A[i][q]) /\ (\A q \in 1..e : N[i][d + q] = 0)
  <2> DEFINE u == A[i]
  <2>1. u \in [1..d -> Field] /\ N[i] = u \o pad
    BY <1>1, <1>5 DEF old
  <2> HIDE DEF u
  <2>2. (\A q \in 1..d : (u \o pad)[q] = u[q]) /\ (\A q \in 1..e : (u \o pad)[d + q] = pad[q])
    BY <1>2, <2>1, ConcatEntries
  <2> QED BY <1>2, <2>1, <2>2 DEF u
<1>9. ASSUME NEW i \in 1..v
      PROVE  (\A q \in 1..d : N[m + i][q] = A[m + 1][q]) /\ (\A q \in 1..e : N[m + i][d + q] = B[i][q + 1])
  <2> DEFINE u == A[m + 1]
             z == Tail(B[i])
  <2>1. u \in [1..d -> Field] /\ N[m + i] = u \o z
    BY <1>1, <1>6 DEF new
  <2>2. z \in [1..e -> Field] /\ \A q \in 1..e : z[q] = B[i][q + 1]
    BY <1>3
  <2> HIDE DEF u, z
  <2>3. (\A q \in 1..d : (u \o z)[q] = u[q]) /\ (\A q \in 1..e : (u \o z)[d + q] = z[q])
    BY <1>2, <2>1, <2>2, ConcatEntries
  <2> QED BY <2>1, <2>2, <2>3 DEF u
<1>10. ASSUME NEW i \in 1..k
       PROVE  (\A q \in 1..d : N[m + v + i][q] = A[m + 1 + i][q])
              /\ (\A q \in 1..e : N[m + v + i][d + q] = 0)
  <2> DEFINE u == A[m + 1 + i]
  <2>1. u \in [1..d -> Field] /\ N[m + v + i] = u \o pad
    BY <1>1, <1>7 DEF old
  <2> HIDE DEF u
  <2>2. (\A q \in 1..d : (u \o pad)[q] = u[q]) /\ (\A q \in 1..e : (u \o pad)[d + q] = pad[q])
    BY <1>2, <2>1, ConcatEntries
  <2> QED BY <1>2, <2>1, <2>2 DEF u
<1> QED BY <1>8, <1>9, <1>10 DEF IsInsertion, e

\* x weighs the rows of the insertion as y does those before it.
Merges(x, y, m, v, k) ==
  /\ \A i \in 1..m : y[i] = x[i]
  /\ Congruent(Total(Behind(x, m), v), y[m + 1])
  /\ \A i \in 1..k : y[m + 1 + i] = x[m + v + i]

LEMMA ColumnProducts ==
  ASSUME NEW r \in Nat, NEW d \in Nat, NEW M \in Matrix(r, d), NEW x, IsIntVector(x, r), NEW q \in 1..d
  PROVE  \A j \in 1..r : M[j][q] \in Int /\ x[j] \in Int /\ x[j] * M[j][q] \in Int
<1> SUFFICES ASSUME NEW j \in 1..r
             PROVE  M[j][q] \in Int /\ x[j] \in Int /\ x[j] * M[j][q] \in Int
  OBVIOUS
<1> DEFINE a == M[j][q]
           b == x[j]
<1>1. a \in Int
  BY MatrixRows
<1>2. b \in Int
  BY DEF IsIntVector
<1> HIDE DEF a, b
<1>3. b * a \in Int
  BY <1>1, <1>2, IntTimes
<1> QED BY <1>1, <1>2, <1>3 DEF a, b

LEMMA MergedSum ==
  ASSUME NEW m \in Nat, NEW v \in Nat, NEW k \in Nat, NEW d \in Nat, NEW w \in Nat, w >= 1,
         NEW A \in Matrix(m + 1 + k, d), NEW B, NEW N \in Matrix(m + v + k, d + w - 1),
         IsInsertion(N, A, B, m, v, k, d, w),
         NEW x, IsIntVector(x, m + v + k), NEW y, IsIntVector(y, m + 1 + k),
         Merges(x, y, m, v, k), NEW q \in 1..d
  PROVE  /\ Congruent(ColumnSum(x, N, m + v + k, q), ColumnSum(y, A, m + 1 + k, q))
         /\ ColumnSum(x, N, m + v + k, q) \in Int /\ ColumnSum(y, A, m + 1 + k, q) \in Int
<1> DEFINE n == m + v + k
           r == m + 1 + k
           f == [j \in 1..n |-> x[j] * N[j][q]]
           g == [j \in 1..r |-> y[j] * A[j][q]]
           X == Behind(x, m)
           c == A[m + 1][q]
           T == Total(X, v)
           b == y[m + 1]
<1>1. n \in Nat /\ r \in Nat /\ q \in 1..(d + w - 1) /\ d + w - 1 \in Nat /\ m + 1 \in 1..r
  OBVIOUS
<1>2. \A j \in 1..n : f[j] = x[j] * N[j][q] /\ f[j] \in Int /\ x[j] \in Int
  <2> HIDE DEF n
  <2>1. N \in Matrix(n, d + w - 1) /\ IsIntVector(x, n)
    BY DEF n
  <2>2. \A j \in 1..n : N[j][q] \in Int /\ x[j] \in Int /\ x[j] * N[j][q] \in Int
    BY <1>1, <2>1, ColumnProducts
  <2> QED BY <2>2
<1>3. \A j \in 1..r : g[j] = y[j] * A[j][q] /\ g[j] \in Int /\ y[j] \in Int /\ A[j][q] \in Int
  <2> HIDE DEF r
  <2>1. A \in Matrix(r, d) /\ IsIntVector(y, r)
    BY DEF r
  <2>2. \A j \in 1..r : A[j][q] \in Int /\ y[j] \in Int /\ y[j] * A[j][q] \in Int
    BY <1>1, <2>1, ColumnProducts
  <2> QED BY <2>2
<1>4. b \in Int /\ c \in Int /\ g[m + 1] = b * c
  BY <1>1, <1>3
<1>5. /\ \A i \in 1..m : f[i] = g[i]
      /\ \A i \in 1..k : f[m + v + i] = g[m + 1 + i]
  <2>1. \A i \in 1..m : i \in 1..n /\ i \in 1..r /\ y[i] = x[i] /\ N[i][q] = A[i][q]
    BY DEF Merges, IsInsertion
  <2>2. \A i \in 1..k : /\ m + v + i \in 1..n /\ m + 1 + i \in 1..r
                        /\ y[m + 1 + i] = x[m + v + i] /\ N[m + v + i][q] = A[m + 1 + i][q]
    <3>1. \A i \in 1..k : m + v + i \in 1..n /\ m + 1 + i \in 1..r
      OBVIOUS
    <3>2. \A i \in 1..k : y[m + 1 + i] = x[m + v + i]
      BY DEF Merges
    <3>3. \A i \in 1..k : N[m + v + i][q] = A[m + 1 + i][q]
      BY DEF IsInsertion
    <3> QED BY <3>1, <3>2, <3>3
  <2> HIDE DEF f, g
  <2>3. \A i \in 1..m : f[i] = g[i]
    BY <1>2, <1>3, <2>1
  <2> HIDE DEF n, r
  <2>4. ASSUME NEW i \in 1..k PROVE f[m + v + i] = g[m + 1 + i]
    <3> DEFINE s == m + v + i
               t == m + 1 + i
    <3>1. s \in 1..n /\ t \in 1..r /\ y[t] = x[s] /\ N[s][q] = A[t][q]
      BY <2>2
    <3> HIDE DEF s, t
    <3>2. f[s] = x[s] * N[s][q] /\ g[t] = y[t] * A[t][q]
      BY <1>2, <1>3, <3>1
    <3>3. f[s] = g[t]
      BY <3>1, <3>2
    <3> QED BY <3>3 DEF s, t
  <2> QED BY <2>3, <2>4
<1>6. ASSUME NEW i \in 1..v
      PROVE  X[i] \in Int /\ Behind(f, m)[i] = c * X[i]
  <2> DEFINE s == m + i
             a == x[s]
  <2>1. s \in 1..n /\ N[s][q] = c /\ X[i] = a /\ Behind(f, m)[i] = f[s] /\ i \in Nat
    <3>1. s \in 1..n /\ i \in Nat
      OBVIOUS
    <3>2. N[m + i][q] = A[m + 1][q]
      BY DEF IsInsertion
    <3>3. X[i] = a
      BY <3>1 DEF Behind
    <3> HIDE DEF f
    <3>4. Behind(f, m)[i] = f[s]
      BY <3>1 DEF Behind
    <3> QED BY <3>1, <3>2, <3>3, <3>4
  <2> HIDE DEF s, f, n, X
  <2>2. f[s] = a * N[s][q] /\ a \in Int
    BY <1>2, <2>1
  <2> HIDE DEF a, c
  <2>3. a * c = c * a
    BY <1>4, <2>2, IntTimes
  <2> QED BY <2>1, <2>2, <2>3
<1>7. Total(f, m) = Total(g, m)
  <2> HIDE DEF f, g
  <2> QED BY <1>5, TotalEqual
<1>8. Total(Behind(f, m + v), k) = Total(Behind(g, m + 1), k)
  <2>1. \A i \in 1..k : Behind(f, m + v)[i] = Behind(g, m + 1)[i]
    <3> HIDE DEF f, g
    <3>1. \A i \in 1..k : Behind(f, m + v)[i] = f[m + v + i] /\ Behind(g, m + 1)[i] = g[m + 1 + i]
      BY DEF Behind
    <3> QED BY <1>5, <3>1
  <2> HIDE DEF f, g
  <2> QED BY <2>1, TotalEqual
<1>9. Total(Behind(f, m), v) = c * T
  <2> DEFINE h == Behind(f, m)
  <2>1. \A i \in 1..v : X[i] \in Int /\ h[i] = c * X[i]
    BY <1>6
  <2> HIDE DEF h, c, X
  <2> QED BY <1>4, <2>1, TotalScale DEF h
<1>10. Total(Behind(g, m), 1) = b * c
  <2> DEFINE h == Behind(g, m)
  <2>1. h[1] = b * c
    <3> HIDE DEF g, b, c
    <3> QED BY <1>4 DEF Behind
  <2> HIDE DEF h, b, c
  <2>2. Total(h, 0) = 0 /\ Total(h, 0 + 1) = Total(h, 0) + h[0 + 1]
    BY TotalStep
  <2>3. b * c \in Int
    BY <1>4, IntTimes
  <2> QED BY <2>1, <2>2, <2>3 DEF h
<1>11. /\ Total(f, n) = Total(f, m) + Total(Behind(f, m), v) + Total(Behind(f, m + v), k)
       /\ Total(f, m) \in Int /\ Total(Behind(f, m + v), k) \in Int
  <2>1. IsInThree(f, m, v, k, n)
    BY <1>2 DEF IsIntVector, IsInThree
  <2>2. n = m + v + k
    OBVIOUS
  <2> HIDE DEF f, n
  <2> QED BY <2>1, <2>2, TotalThree
<1>12. Total(g, r) = Total(g, m) + Total(Behind(g, m), 1) + Total(Behind(g, m + 1), k)
  <2>1. IsInThree(g, m, 1, k, r)
    BY <1>3 DEF IsIntVector, IsInThree
  <2>2. 1 \in Nat /\ r = m + 1 + k
    OBVIOUS
  <2> HIDE DEF g, r
  <2> QED BY <2>1, <2>2, TotalThree
<1>13. T \in Int /\ Congruent(T, b)
  <2>1. Congruent(T, b)
    BY DEF Merges
  <2>2. \A i \in 1..v : X[i] \in Int
    BY <1>6
  <2>3. v \in 0..v
    OBVIOUS
  <2> HIDE DEF X, b
  <2> QED BY <2>1, <2>2, <2>3, TotalInt
<1>14. /\ ColumnSum(x, N, n, q) = Total(f, n) /\ ColumnSum(y, A, r, q) = Total(g, r)
  BY DEF ColumnSum
<1> DEFINE F1 == Total(f, m)
           F3 == Total(Behind(f, m + v), k)
           cT == c * T
           bc == b * c
<1> HIDE DEF f, g, X, c, T, b, n, r
<1>15. /\ F1 \in Int /\ F3 \in Int /\ cT \in Int /\ bc \in Int
       /\ Total(f, n) = F1 + cT + F3 /\ Total(g, r) = F1 + bc + F3
       /\ Congruent(cT, bc)
  <2>1. cT \in Int /\ bc \in Int /\ c * b = bc
    BY <1>4, <1>13, IntTimes
  <2>2. Congruent(c * T, c * b)
    BY <1>4, <1>13, CongruentTimes
  <2> QED BY <1>7, <1>8, <1>9, <1>10, <1>11, <1>12, <2>1, <2>2
<1> HIDE DEF F1, F3, cT, bc
<1>16. Congruent(F1 + cT, F1 + bc)
  BY <1>15, CongruentRefl, CongruentAdd
<1> DEFINE u == F1 + cT
           z == F1 + bc
<1>17. u \in Int /\ z \in Int /\ Congruent(u, z) /\ Total(f, n) = u + F3 /\ Total(g, r) = z + F3
  BY <1>15, <1>16
<1> HIDE DEF u, z
<1>18. Congruent(u + F3, z + F3) /\ u + F3 \in Int /\ z + F3 \in Int
  <2>1. Congruent(F3, F3)
    BY <1>15, CongruentRefl
  <2>2. Congruent(u + F3, z + F3)
    BY <1>15, <1>17, <2>1, CongruentAdd
  <2> QED BY <1>15, <1>17, <2>2
<1> QED BY <1>14, <1>17, <1>18 DEF n, r

LEMMA BlockSum ==
  ASSUME NEW m \in Nat, NEW v \in Nat, NEW k \in Nat, NEW d \in Nat, NEW w \in Nat, w >= 1,
         NEW A, NEW N \in Matrix(m + v + k, d + w - 1),
         IsInsertion(N, A, getVandermonde(w, v), m, v, k, d, w),
         NEW x, IsIntVector(x, m + v + k), NEW q \in 1..(w - 1)
  PROVE  /\ ColumnSum(x, N, m + v + k, d + q) = Moment(Behind(x, m), v, q)
         /\ IsIntVector(Behind(x, m), v)
<1> DEFINE n == m + v + k
           e == d + q
           f == [j \in 1..n |-> x[j] * N[j][e]]
           X == Behind(x, m)
           V == getVandermonde(w, v)
           p == Products(X, Points(v, q), v)
<1>1. n \in Nat /\ e \in 1..(d + w - 1) /\ d + w - 1 \in Nat
  OBVIOUS
<1>2. \A j \in 1..n : f[j] = x[j] * N[j][e] /\ f[j] \in Int /\ x[j] \in Int
  <2> HIDE DEF n, e
  <2>1. N \in Matrix(n, d + w - 1) /\ IsIntVector(x, n)
    BY DEF n
  <2>2. \A j \in 1..n : N[j][e] \in Int /\ x[j] \in Int /\ x[j] * N[j][e] \in Int
    BY <1>1, <2>1, ColumnProducts
  <2> QED BY <2>2
<1>3. \A i \in 1..m : f[i] = 0
  <2>1. \A i \in 1..m : i \in 1..n
    OBVIOUS
  <2>2. \A i \in 1..m : N[i][e] = 0
    BY DEF IsInsertion
  <2> HIDE DEF f, n, e
  <2>3. \A i \in 1..m : f[i] = x[i] * 0 /\ x[i] \in Int
    BY <1>2, <2>1, <2>2
  <2> QED BY <2>3
<1>4. \A i \in 1..k : Behind(f, m + v)[i] = 0
  <2> SUFFICES ASSUME NEW i \in 1..k PROVE Behind(f, m + v)[i] = 0
    OBVIOUS
  <2> DEFINE s == m + v + i
             a == x[s]
  <2>1. s \in 1..n /\ i \in Nat
    OBVIOUS
  <2>2. N[s][e] = 0
    BY DEF IsInsertion
  <2> HIDE DEF f
  <2>3. Behind(f, m + v)[i] = f[s]
    BY <2>1 DEF Behind
  <2> HIDE DEF s, n, e
  <2>4. f[s] = a * 0 /\ a \in Int
    BY <1>2, <2>1, <2>2
  <2> HIDE DEF a
  <2> QED BY <2>3, <2>4
<1>5. \A i \in 1..v : Behind(f, m)[i] = p[i] /\ X[i] \in Int
  <2> SUFFICES ASSUME NEW i \in 1..v PROVE Behind(f, m)[i] = p[i] /\ X[i] \in Int
    OBVIOUS
  <2> DEFINE s == m + i
  <2>1. s \in 1..n /\ i \in Nat /\ q + 1 \in 1..w /\ q + 1 - 1 = q
    OBVIOUS
  <2>2. N[m + i][d + q] = V[i][q + 1]
    BY DEF IsInsertion
  <2>3. V[i][q + 1] = Power(i, q)
    BY <2>1 DEF getVandermonde
  <2>4. p[i] = X[i] * Power(i, q)
    <3> HIDE DEF X
    <3> QED BY DEF Products, Points
  <2>5. X[i] = x[s]
    BY <2>1 DEF Behind
  <2> HIDE DEF f
  <2>6. Behind(f, m)[i] = f[s]
    BY <2>1 DEF Behind
  <2>7. N[s][e] = Power(i, q)
    BY <2>2, <2>3
  <2> HIDE DEF s, n, e, p, X, V
  <2> QED BY <1>2, <2>1, <2>4, <2>5, <2>6, <2>7
<1>6. IsIntVector(X, v)
  BY <1>5 DEF IsIntVector
<1>7. Total(f, m) = 0
  <2>1. \A i \in (0 + 1)..m : f[i] = 0
    <3> HIDE DEF f
    <3> QED BY <1>3
  <2>2. 0 \in Nat /\ 0 <= m /\ Total(f, 0) = 0 /\ Total(f, 0) \in Int
    BY TotalStep
  <2> HIDE DEF f
  <2> QED BY <2>1, <2>2, TotalZeros
<1>8. Total(Behind(f, m + v), k) = 0
  <2> DEFINE h == Behind(f, m + v)
  <2>1. \A i \in (0 + 1)..k : h[i] = 0
    BY <1>4
  <2> HIDE DEF h
  <2>2. 0 \in Nat /\ 0 <= k /\ Total(h, 0) = 0 /\ Total(h, 0) \in Int
    BY TotalStep
  <2>3. Total(h, k) = 0
    BY <2>1, <2>2, TotalZeros
  <2> QED BY <2>3 DEF h
<1>9. Total(Behind(f, m), v) = Total(p, v)
  <2> DEFINE h == Behind(f, m)
  <2>1. \A i \in 1..v : h[i] = p[i]
    BY <1>5
  <2> HIDE DEF h, p
  <2> QED BY <2>1, TotalEqual DEF h
<1>10. /\ Total(f, n) = Total(f, m) + Total(Behind(f, m), v) + Total(Behind(f, m + v), k)
       /\ Total(Behind(f, m), v) \in Int
  <2>1. IsInThree(f, m, v, k, n)
    BY <1>2 DEF IsIntVector, IsInThree
  <2> HIDE DEF f, n
  <2> QED BY <2>1, TotalThree
<1>11. ColumnSum(x, N, n, e) = Total(f, n)
  BY DEF ColumnSum
<1>12. Moment(X, v, q) = Total(p, v)
  BY DEF Moment, Pair
<1> HIDE DEF f, p, X, n, e
<1>13. ColumnSum(x, N, n, e) = Moment(X, v, q)
  BY <1>7, <1>8, <1>9, <1>10, <1>11, <1>12
<1> QED BY <1>6, <1>13 DEF X, n, e

\* A and what becomes of it when a formula with v members, of which w are needed,
\* takes the place of row m + 1.
IsGrown(N, A, m, v, k, d, w) ==
  /\ m \in Nat /\ v \in Nat /\ k \in Nat /\ d \in Nat /\ w \in Nat
  /\ v >= 1 /\ d >= 1 /\ w >= 1 /\ v < P
  /\ A \in Matrix(m + 1 + k, d) /\ N \in Matrix(m + v + k, d + w - 1)
  /\ IsInsertion(N, A, getVandermonde(w, v), m, v, k, d, w)

BlockOf(R, m, v) == {i \in 1..v : m + i \in R}

\* The row stands for its formula: it is in T when w of the members are in R.
IsFolded(R, T, m, v, k, w) ==
  /\ \A i \in 1..m : i \in T <=> i \in R
  /\ m + 1 \in T <=> Cardinality(BlockOf(R, m, v)) >= w
  /\ \A i \in 1..k : m + 1 + i \in T <=> m + v + i \in R

LEMMA BlockFacts ==
  ASSUME NEW v \in Nat, NEW m, NEW R, NEW B, B = BlockOf(R, m, v)
  PROVE  B \subseteq 1..v /\ IsFiniteSet(B) /\ Cardinality(B) \in Nat
<1>1. B \subseteq 1..v /\ IsFiniteSet(1..v)
  BY FS_Interval DEF BlockOf
<1>2. IsFiniteSet(B)
  BY <1>1, FS_Subset
<1> QED BY <1>1, <1>2, FS_CardinalityType

LEMMA SpansShrink ==
  ASSUME NEW N, NEW A, NEW m, NEW v, NEW k, NEW d, NEW w, IsGrown(N, A, m, v, k, d, w),
         NEW R, NEW T, IsFolded(R, T, m, v, k, w), NEW x, SpansWith(x, N, m + v + k, d + w - 1, R)
  PROVE  Spans(A, m + 1 + k, d, T)
<1> DEFINE n == m + v + k
           r == m + 1 + k
           X == Behind(x, m)
           B == BlockOf(R, m, v)
           y == [i \in 1..r |-> IF i <= m THEN x[i]
                                ELSE IF i = m + 1 THEN (IF Cardinality(B) >= w THEN Total(X, v) ELSE 0)
                                ELSE x[i - 1 + v]]
           unit(q) == IF q = 1 THEN 1 ELSE 0
<1>1. /\ m \in Nat /\ v \in Nat /\ k \in Nat /\ d \in Nat /\ w \in Nat
      /\ v >= 1 /\ d >= 1 /\ w >= 1 /\ v < P
      /\ A \in Matrix(r, d) /\ N \in Matrix(n, d + w - 1)
      /\ IsInsertion(N, A, getVandermonde(w, v), m, v, k, d, w)
  BY DEF IsGrown
<1>2. /\ IsIntVector(x, n) /\ IsOutsideZero(x, R, n)
      /\ \A q \in 1..(d + w - 1) : Congruent(ColumnSum(x, N, n, q), unit(q))
  BY DEF SpansWith
<1>3. n \in Nat /\ r \in Nat /\ \A i \in 1..n : x[i] \in Int
  BY <1>1, <1>2 DEF IsIntVector
<1>4. B \subseteq 1..v /\ IsFiniteSet(B) /\ Cardinality(B) \in Nat
  BY <1>1, BlockFacts
<1>5. ASSUME NEW q \in 1..(w - 1) PROVE ColumnSum(x, N, n, d + q) = Moment(X, v, q)
  <2>1. IsIntVector(x, n)
    BY <1>2
  <2> QED BY <1>1, <2>1, BlockSum, SMTT(40)
<1>6. \A i \in 1..v : X[i] = x[m + i] /\ X[i] \in Int
  <2>1. \A i \in 1..v : m + i \in 1..n /\ i \in Nat
    BY <1>1
  <2> QED BY <1>3, <2>1 DEF Behind
<1>7. IsIntVector(X, v) /\ Total(X, v) \in Int /\ Moment(X, v, 0) = Total(X, v)
  <2>1. v \in 0..v
    BY <1>1
  <2> HIDE DEF X
  <2> QED BY <1>1, <1>6, <2>1, SumOfPoints, TotalInt DEF IsIntVector
<1>8. ASSUME ~(Cardinality(B) >= w) PROVE Congruent(Total(X, v), 0)
  <2> DEFINE c == w - 1
  <2>1. c \in Nat /\ Cardinality(B) <= c
    BY <1>1, <1>4, <1>8
  <2>2. IsOutsideZero(X, B, v)
    <3> SUFFICES ASSUME NEW i \in 1..v, i \notin B PROVE X[i] = 0
      BY DEF IsOutsideZero
    <3>1. m + i \in 1..n /\ m + i \notin R
      BY <1>1 DEF BlockOf
    <3>2. x[m + i] = 0
      BY <1>2, <3>1 DEF IsOutsideZero
    <3> QED BY <1>6, <3>2
  <2>3. IsZeroUpTo(X, v, c)
    <3> SUFFICES ASSUME NEW q \in 1..c PROVE Congruent(Moment(X, v, q), 0)
      BY DEF IsZeroUpTo
    <3>1. d + q \in 1..(d + w - 1) /\ d + q # 1
      BY <1>1
    <3>2. Congruent(ColumnSum(x, N, n, d + q), 0)
      BY <1>2, <3>1
    <3> HIDE DEF n, X
    <3> QED BY <1>5, <3>2
  <2> HIDE DEF c, X, B
  <2>4. IsFew(X, B, v, c)
    BY <1>4, <1>7, <2>1, <2>2, <2>3 DEF IsFew
  <2>5. Congruent(Moment(X, v, 0), 0)
    BY <1>1, <2>1, <2>4, FewPoints
  <2> QED BY <1>7, <2>5
<1> HIDE DEF X, B
<1>9. IsIntVector(y, r)
  <2> SUFFICES ASSUME NEW i \in 1..r PROVE y[i] \in Int
    BY DEF IsIntVector
  <2>1. CASE i <= m
    <3>1. i \in 1..n
      BY <1>1, <2>1
    <3> QED BY <1>3, <2>1, <3>1
  <2>2. CASE i = m + 1
    BY <1>1, <1>7, <2>2
  <2>3. CASE ~(i <= m) /\ i # m + 1
    <3>1. i - 1 + v \in 1..n
      BY <1>1, <2>3
    <3> HIDE DEF n
    <3> QED BY <1>3, <2>3, <3>1
  <2> QED BY <2>1, <2>2, <2>3
<1>10. /\ \A i \in 1..m : y[i] = x[i] /\ i \in 1..r
       /\ y[m + 1] = (IF Cardinality(B) >= w THEN Total(X, v) ELSE 0) /\ m + 1 \in 1..r
       /\ \A i \in 1..k : y[m + 1 + i] = x[m + v + i] /\ m + 1 + i \in 1..r
  <2>1. \A i \in 1..m : y[i] = x[i] /\ i \in 1..r
    BY <1>1
  <2>2. y[m + 1] = (IF Cardinality(B) >= w THEN Total(X, v) ELSE 0) /\ m + 1 \in 1..r
    BY <1>1
  <2>3. ASSUME NEW i \in 1..k PROVE y[m + 1 + i] = x[m + v + i] /\ m + 1 + i \in 1..r
    <3> DEFINE s == m + 1 + i
    <3>1. s \in 1..r /\ ~(s <= m) /\ s # m + 1 /\ s - 1 + v = m + v + i
      BY <1>1
    <3> HIDE DEF s, r
    <3>2. y[s] = x[s - 1 + v]
      BY <3>1
    <3> QED BY <3>1, <3>2 DEF s
  <2> QED BY <2>1, <2>2, <2>3
<1> HIDE DEF y
<1>11. Merges(x, y, m, v, k)
  <2>1. Congruent(Total(X, v), y[m + 1])
    <3>1. Congruent(Total(X, v), Total(X, v))
      BY <1>7, CongruentRefl
    <3> QED BY <1>8, <1>10, <3>1
  <2> QED BY <1>10, <2>1 DEF Merges, X
<1>12. IsOutsideZero(y, T, r)
  <2> SUFFICES ASSUME NEW i \in 1..r, i \notin T PROVE y[i] = 0
    BY DEF IsOutsideZero
  <2>1. CASE i \in 1..m
    <3>1. i \notin R /\ i \in 1..n
      BY <1>1, <2>1 DEF IsFolded
    <3> QED BY <1>2, <1>10, <2>1, <3>1 DEF IsOutsideZero
  <2>2. CASE i = m + 1
    BY <1>10, <2>2 DEF IsFolded, B
  <2>3. CASE i \notin 1..m /\ i # m + 1
    <3> DEFINE j == i - (m + 1)
    <3>1. j \in 1..k /\ i = m + 1 + j /\ m + v + j \in 1..n
      BY <1>1, <2>3
    <3> HIDE DEF j, n, r
    <3>2. m + v + j \notin R
      BY <3>1 DEF IsFolded
    <3>3. y[m + 1 + j] = x[m + v + j]
      BY <1>10, <3>1
    <3>4. x[m + v + j] = 0
      BY <1>2, <3>1, <3>2 DEF IsOutsideZero
    <3> QED BY <3>1, <3>3, <3>4
  <2> QED BY <2>1, <2>2, <2>3
<1>13. ASSUME NEW q \in 1..d PROVE Congruent(ColumnSum(y, A, r, q), unit(q))
  <2> DEFINE a == ColumnSum(x, N, n, q)
             b == ColumnSum(y, A, r, q)
             c == unit(q)
  <2>1. Congruent(a, b) /\ a \in Int /\ b \in Int
    BY <1>1, <1>2, <1>9, <1>11, MergedSum
  <2>2. Congruent(a, c) /\ c \in Int
    <3>1. q \in 1..(d + w - 1)
      BY <1>1
    <3> QED BY <1>2, <3>1
  <2> HIDE DEF a, b, c
  <2>3. Congruent(b, a)
    BY <2>1, CongruentSym
  <2>4. Congruent(b, c)
    BY <2>1, <2>2, <2>3, CongruentTrans
  <2> QED BY <2>4 DEF b, c
<1>14. SpansWith(y, A, r, d, T)
  BY <1>9, <1>12, <1>13 DEF SpansWith
<1> QED BY <1>14 DEF Spans

LEMMA MomentEqual ==
  ASSUME NEW v, NEW x, NEW z, NEW e, \A i \in 1..v : x[i] = z[i]
  PROVE  Moment(x, v, e) = Moment(z, v, e)
<1> DEFINE p == Points(v, e)
<1>1. Products(x, p, v) = Products(z, p, v)
  <2> HIDE DEF p
  <2> QED BY DEF Products
<1> QED BY <1>1 DEF Moment, Pair

\* Weights of the members that stand for a weight c of their formula.
IsShared(u, B, v, c, w) ==
  /\ IsIntVector(u, v) /\ IsOutsideZero(u, B, v)
  /\ Congruent(Moment(u, v, 0), c) /\ IsZeroUpTo(u, v, w - 1)

LEMMA SharedWeights ==
  ASSUME NEW v \in Nat, v < P, NEW w \in Nat, w >= 1, NEW B, B \subseteq 1..v,
         NEW c \in Int, Cardinality(B) >= w \/ c = 0
  PROVE  \E u : IsShared(u, B, v, c, w)
<1>1. CASE c = 0
  <2> DEFINE u == [i \in 1..v |-> 0]
  <2>1. IsIntVector(u, v) /\ IsOutsideZero(u, B, v) /\ \A i \in 1..v : u[i] = 0
    BY DEF IsIntVector, IsOutsideZero
  <2> HIDE DEF u
  <2>2. ASSUME NEW e \in Nat PROVE Congruent(Moment(u, v, e), 0)
    <3> DEFINE p == Points(v, e)
    <3>1. IsIntVector(p, v)
      BY <2>1, MomentFacts
    <3> HIDE DEF p
    <3>2. Pair(u, p, v) = 0
      BY <2>1, <3>1, PairZeros
    <3>3. Moment(u, v, e) = 0
      BY <3>2 DEF Moment, p
    <3> QED BY <3>3, CongruentRefl
  <2>3. IsZeroUpTo(u, v, w - 1)
    <3>1. \A e \in 1..(w - 1) : e \in Nat
      OBVIOUS
    <3> QED BY <2>2, <3>1 DEF IsZeroUpTo
  <2>4. Congruent(Moment(u, v, 0), c)
    BY <1>1, <2>2
  <2> QED BY <2>1, <2>3, <2>4 DEF IsShared
<1>2. CASE Cardinality(B) >= w
  <2> DEFINE e == w - 1
  <2>1. e \in Nat /\ e + 1 = w
    OBVIOUS
  <2> HIDE DEF e
  <2>2. PICK y : IsEnough(y, B, v, e)
    BY <1>2, <2>1, EnoughPoints
  <2> DEFINE u == [i \in 1..v |-> c * y[i]]
  <2>3. IsIntVector(y, v) /\ IsOutsideZero(y, B, v) /\ Congruent(Moment(y, v, 0), 1)
        /\ IsZeroUpTo(y, v, e)
    BY <2>2 DEF IsEnough
  <2>4. IsOutsideZero(u, B, v)
    <3>1. \A i \in 1..v : i \notin B => y[i] = 0
      BY <2>3 DEF IsOutsideZero
    <3>2. \A i \in 1..v : i \notin B => u[i] = c * 0
      BY <3>1
    <3> QED BY <3>2 DEF IsOutsideZero
  <2>5. \A z : z = u => \A q \in Nat : IsIntVector(z, v) /\ Moment(z, v, q) = c * Moment(y, v, q)
    <3> HIDE DEF u
    <3> QED BY <2>3, ScaledMoment DEF u
  <2> HIDE DEF u
  <2>6. IsIntVector(u, v) /\ \A q \in Nat : Moment(u, v, q) = c * Moment(y, v, q)
    <3>1. 0 \in Nat
      OBVIOUS
    <3> QED BY <2>5, <3>1
  <2>7. Congruent(Moment(u, v, 0), c)
    <3> DEFINE a == Moment(y, v, 0)
    <3>1. a \in Int /\ Congruent(a, 1)
      BY <2>3, MomentFacts
    <3> HIDE DEF a
    <3>2. Congruent(a * c, c) /\ a * c = c * a
      BY <3>1, TimesOne, IntTimes
    <3>3. Moment(u, v, 0) = c * a
      BY <2>6 DEF a
    <3> QED BY <3>2, <3>3
  <2>8. IsZeroUpTo(u, v, e)
    <3> SUFFICES ASSUME NEW q \in 1..e PROVE Congruent(Moment(u, v, q), 0)
      BY DEF IsZeroUpTo
    <3> DEFINE a == Moment(y, v, q)
    <3>1. q \in Nat
      BY <2>1
    <3>2. a \in Int /\ Congruent(a, 0)
      BY <2>3, <3>1, MomentFacts DEF IsZeroUpTo
    <3>3. Moment(u, v, q) = c * a
      BY <2>6, <3>1
    <3> HIDE DEF a
    <3>4. Congruent(c * a, 0)
      BY <3>2, TimesZero
    <3> QED BY <3>3, <3>4
  <2> QED BY <2>4, <2>6, <2>7, <2>8 DEF IsShared, e
<1> QED BY <1>1, <1>2

LEMMA SpansExtend ==
  ASSUME NEW N, NEW A, NEW m, NEW v, NEW k, NEW d, NEW w, IsGrown(N, A, m, v, k, d, w),
         NEW R, NEW T, IsFolded(R, T, m, v, k, w), NEW y, SpansWith(y, A, m + 1 + k, d, T)
  PROVE  Spans(N, m + v + k, d + w - 1, R)
<1> DEFINE n == m + v + k
           r == m + 1 + k
           B == BlockOf(R, m, v)
           c == y[m + 1]
           unit(q) == IF q = 1 THEN 1 ELSE 0
<1>1. /\ m \in Nat /\ v \in Nat /\ k \in Nat /\ d \in Nat /\ w \in Nat
      /\ v >= 1 /\ d >= 1 /\ w >= 1 /\ v < P
      /\ A \in Matrix(r, d) /\ N \in Matrix(n, d + w - 1)
      /\ IsInsertion(N, A, getVandermonde(w, v), m, v, k, d, w)
  BY DEF IsGrown
<1>2. /\ IsIntVector(y, r) /\ IsOutsideZero(y, T, r)
      /\ \A q \in 1..d : Congruent(ColumnSum(y, A, r, q), unit(q))
  BY DEF SpansWith
<1>3. n \in Nat /\ r \in Nat /\ m + 1 \in 1..r /\ \A i \in 1..r : y[i] \in Int
  BY <1>1, <1>2 DEF IsIntVector
<1>4. c \in Int
  BY <1>3
<1>5. Cardinality(B) >= w \/ c = 0
  BY <1>2, <1>3 DEF IsFolded, IsOutsideZero
<1>6. B \subseteq 1..v
  BY <1>1, BlockFacts
<1> HIDE DEF B, c
<1>7. PICK u : IsShared(u, B, v, c, w)
  BY <1>1, <1>4, <1>5, <1>6, SharedWeights
<1>8. /\ \A i \in 1..v : u[i] \in Int /\ (i \notin B => u[i] = 0)
      /\ Congruent(Moment(u, v, 0), c)
      /\ \A q \in 1..(w - 1) : Congruent(Moment(u, v, q), 0)
  BY <1>7 DEF IsShared, IsIntVector, IsOutsideZero, IsZeroUpTo
<1> DEFINE x == [i \in 1..n |-> IF i <= m THEN y[i]
                                ELSE IF i <= m + v THEN u[i - m] ELSE y[i + 1 - v]]
           X == Behind(x, m)
<1>9. \A i \in 1..m : x[i] = y[i] /\ i \in 1..n /\ i \in 1..r
  BY <1>1
<1>10. \A i \in 1..v : x[m + i] = u[i] /\ m + i \in 1..n
  <2> SUFFICES ASSUME NEW i \in 1..v PROVE x[m + i] = u[i] /\ m + i \in 1..n
    OBVIOUS
  <2> DEFINE s == m + i
  <2>1. s \in 1..n /\ ~(s <= m) /\ s <= m + v /\ s - m = i
    BY <1>1
  <2> HIDE DEF s, n
  <2>2. x[s] = u[s - m]
    BY <2>1
  <2> QED BY <2>1, <2>2 DEF s
<1>11. \A i \in 1..k : x[m + v + i] = y[m + 1 + i] /\ m + v + i \in 1..n /\ m + 1 + i \in 1..r
  <2> SUFFICES ASSUME NEW i \in 1..k
               PROVE  x[m + v + i] = y[m + 1 + i] /\ m + v + i \in 1..n /\ m + 1 + i \in 1..r
    OBVIOUS
  <2> DEFINE s == m + v + i
  <2>1. s \in 1..n /\ ~(s <= m) /\ ~(s <= m + v) /\ s + 1 - v = m + 1 + i /\ m + 1 + i \in 1..r
    BY <1>1
  <2> HIDE DEF s, n, r
  <2>2. x[s] = y[s + 1 - v]
    BY <2>1
  <2> QED BY <2>1, <2>2 DEF s
<1>12. \A i \in 1..n : i \in 1..m \/ (\E j \in 1..v : i = m + j) \/ (\E j \in 1..k : i = m + v + j)
  <2> SUFFICES ASSUME NEW i \in 1..n, ~(i \in 1..m), ~(\E j \in 1..v : i = m + j)
               PROVE  \E j \in 1..k : i = m + v + j
    OBVIOUS
  <2>1. i > m
    BY <1>1
  <2>2. i > m + v
    <3> SUFFICES ASSUME i <= m + v PROVE FALSE
      BY <1>1
    <3>1. i - m \in 1..v /\ i = m + (i - m)
      BY <1>1, <2>1
    <3> QED BY <3>1
  <2>3. i - (m + v) \in 1..k /\ i = m + v + (i - (m + v))
    BY <1>1, <2>2
  <2> QED BY <2>3
<1>13. IsIntVector(x, n)
  <2> SUFFICES ASSUME NEW i \in 1..n PROVE x[i] \in Int
    BY DEF IsIntVector
  <2> HIDE DEF x, n, r
  <2>1. CASE i \in 1..m
    BY <1>3, <1>9, <2>1
  <2>2. CASE \E j \in 1..v : i = m + j
    BY <1>8, <1>10, <2>2
  <2>3. CASE \E j \in 1..k : i = m + v + j
    BY <1>3, <1>11, <2>3
  <2> QED BY <1>12, <2>1, <2>2, <2>3
<1>14. IsOutsideZero(x, R, n)
  <2> SUFFICES ASSUME NEW i \in 1..n, i \notin R PROVE x[i] = 0
    BY DEF IsOutsideZero
  <2> HIDE DEF x, n, r
  <2>1. CASE i \in 1..m
    <3>1. i \notin T
      BY <2>1 DEF IsFolded
    <3> QED BY <1>2, <1>9, <2>1, <3>1 DEF IsOutsideZero
  <2>2. CASE \E j \in 1..v : i = m + j
    <3>1. PICK j \in 1..v : i = m + j
      BY <2>2
    <3>2. j \notin B
      BY <3>1 DEF B, BlockOf
    <3> QED BY <1>8, <1>10, <3>1, <3>2
  <2>3. CASE \E j \in 1..k : i = m + v + j
    <3>1. PICK j \in 1..k : i = m + v + j
      BY <2>3
    <3>2. m + 1 + j \notin T
      BY <3>1 DEF IsFolded
    <3>3. y[m + 1 + j] = 0
      BY <1>2, <1>11, <3>2 DEF IsOutsideZero
    <3> QED BY <1>11, <3>1, <3>3
  <2> QED BY <1>12, <2>1, <2>2, <2>3
<1>15. \A i \in 1..v : X[i] = u[i]
  <2>1. \A i \in 1..v : i \in Nat
    OBVIOUS
  <2> HIDE DEF x
  <2>2. \A i \in 1..v : X[i] = x[m + i]
    BY <2>1 DEF Behind
  <2> QED BY <1>10, <2>2
<1> HIDE DEF x
<1>16. IsIntVector(X, v) /\ \A q : Moment(X, v, q) = Moment(u, v, q)
  <2> HIDE DEF X
  <2> QED BY <1>8, <1>15, MomentEqual DEF IsIntVector
<1>17. Merges(x, y, m, v, k)
  <2>1. Total(X, v) = Moment(u, v, 0)
    <3> HIDE DEF X
    <3> QED BY <1>1, <1>16, SumOfPoints
  <2>2. Congruent(Total(X, v), y[m + 1])
    BY <1>8, <2>1 DEF c
  <2> HIDE DEF n, r
  <2> QED BY <1>9, <1>11, <2>2 DEF Merges
<1>18. ASSUME NEW q \in 1..(d + w - 1) PROVE Congruent(ColumnSum(x, N, n, q), unit(q))
  <2>1. CASE q \in 1..d
    <3> DEFINE a == ColumnSum(x, N, n, q)
               b == ColumnSum(y, A, r, q)
               e == unit(q)
    <3>1. Congruent(a, b) /\ a \in Int /\ b \in Int
      BY <1>1, <1>2, <1>13, <1>17, <2>1, MergedSum
    <3>2. Congruent(b, e) /\ e \in Int
      BY <1>2, <2>1
    <3> HIDE DEF a, b, e
    <3>3. Congruent(a, e)
      BY <3>1, <3>2, CongruentTrans
    <3> QED BY <3>3 DEF a, e
  <2>2. CASE q \notin 1..d
    <3> DEFINE p == q - d
    <3>1. p \in 1..(w - 1) /\ q = d + p /\ q # 1
      BY <1>1, <2>2
    <3> HIDE DEF p
    <3>2. ColumnSum(x, N, n, d + p) = Moment(X, v, p)
      <4>1. p \in 1..(w - 1)
        BY <3>1
      <4>2. IsIntVector(x, m + v + k)
        BY <1>13
      <4>3. N \in Matrix(m + v + k, d + w - 1)
        BY <1>1
      <4> HIDE DEF x
      <4>4. ColumnSum(x, N, m + v + k, d + p) = Moment(Behind(x, m), v, p)
        BY <1>1, <4>1, <4>2, <4>3, BlockSum, SMTT(40)
      <4> QED BY <4>4
    <3>3. Congruent(Moment(X, v, p), 0)
      <4> HIDE DEF X
      <4> QED BY <1>8, <1>16, <3>1
    <3> HIDE DEF n, X
    <3>4. Congruent(ColumnSum(x, N, n, q), 0) /\ unit(q) = 0
      BY <3>1, <3>2, <3>3
    <3> QED BY <3>4
  <2> QED BY <2>1, <2>2
<1>19. SpansWith(x, N, n, d + w - 1, R)
  BY <1>13, <1>14, <1>18 DEF SpansWith
<1> QED BY <1>19 DEF Spans

-----------------------------------------------------------------------------
(* The rows that wait for their formula. *)

\* The formula at a place.
Held(c, p) == c[p[1]].outOf[p[2]].formula

LEMMA HeldFacts ==
  ASSUME NEW c, IsListing(c)
  PROVE  /\ \A p \in NestedUpTo(c, Len(c)) :
              /\ p = <<p[1], p[2]>> /\ p[1] \in 1..Len(c) /\ p[2] \in NestedPlaces(c, p[1])
              /\ p[2] \in Nat /\ Held(c, p) \in (p[1] + 1)..Len(c) /\ p \in Places(c, Held(c, p))
         /\ \A p, q \in NestedUpTo(c, Len(c)) : Held(c, p) = Held(c, q) => p = q
         /\ \A j \in 2..Len(c) : \E p \in NestedUpTo(c, Len(c)) : Held(c, p) = j
<1> DEFINE N == Len(c)
           W == NestedUpTo(c, N)
<1>1. /\ N \in Nat /\ DOMAIN c = 1..N
      /\ \A n \in 1..N : \A i \in NestedPlaces(c, n) :
           /\ c[n].outOf[i].formula \in (n + 1)..N
           /\ c[n].outOf[i] = [formula |-> c[n].outOf[i].formula]
  BY ListingFacts
<1>2. ASSUME NEW p \in W
      PROVE  /\ p = <<p[1], p[2]>> /\ p[1] \in 1..N /\ p[2] \in NestedPlaces(c, p[1])
             /\ p[2] \in Nat /\ Held(c, p) \in (p[1] + 1)..N /\ p \in Places(c, Held(c, p))
  <2>1. p = <<p[1], p[2]>> /\ p[1] \in 1..N /\ p[2] \in NestedPlaces(c, p[1]) /\ p[2] \in Nat
    BY DEF NestedUpTo
  <2>2. Held(c, p) \in (p[1] + 1)..N /\ c[p[1]].outOf[p[2]] = [formula |-> Held(c, p)]
    BY <1>1, <2>1 DEF Held
  <2>3. p[2] \in DOMAIN c[p[1]].outOf
    BY <2>1 DEF NestedPlaces
  <2>4. p \in {p[1]} \X DOMAIN c[p[1]].outOf
    BY <2>1, <2>3
  <2>5. p \in UNION {{n} \X DOMAIN c[n].outOf : n \in DOMAIN c}
    BY <1>1, <2>1, <2>4
  <2> QED BY <2>1, <2>2, <2>5 DEF Places
<1>3. /\ \A p, q \in W : Held(c, p) = Held(c, q) => p = q
      /\ \A j \in 2..N : \E p \in W : Held(c, p) = j
  <2> HIDE DEF N
  <2>1. \A p, q \in NestedUpTo(c, Len(c)) :
          c[p[1]].outOf[p[2]].formula = c[q[1]].outOf[q[2]].formula => p = q
    BY PlaceFacts
  <2>2. \A j \in 2..Len(c) : \E p \in NestedUpTo(c, Len(c)) : c[p[1]].outOf[p[2]].formula = j
    BY PlaceFacts
  <2> QED BY <2>1, <2>2, Zenon DEF Held, N
<1> QED BY <1>2, <1>3

\* Between a formula and one that is nested in it there is only what is nested in
\* its members before that one.
LEMMA HeldBetween ==
  ASSUME NEW c, IsListing(c), NEW q \in NestedUpTo(c, Len(c)), NEW r \in NestedUpTo(c, Len(c)),
         q[1] < Held(c, r), Held(c, r) < Held(c, q)
  PROVE  r[1] > q[1] \/ (r[1] = q[1] /\ r[2] < q[2])
<1> DEFINE j == Held(c, q)
           k == Held(c, r)
<1>1. /\ j \in (q[1] + 1)..Len(c) /\ q \in Places(c, j) /\ q[1] \in 1..Len(c)
      /\ k \in (r[1] + 1)..Len(c) /\ r \in Places(c, k) /\ r[1] \in 1..Len(c)
  BY HeldFacts
<1>2. Len(c) \in Nat
  BY ListingFacts
<1>3. j \in 2..Len(c) /\ k \in (q[1] + 1)..(j - 1)
  BY <1>1, <1>2
<1> HIDE DEF j, k
<1>4. PICK p \in Places(c, j) :
        /\ Places(c, j) = {p}
        /\ \A i \in (p[1] + 1)..(j - 1) : \A s \in Places(c, i) :
             s[1] > p[1] \/ (s[1] = p[1] /\ s[2] < p[2])
  BY <1>3 DEF IsListing
<1>5. p = q
  BY <1>1, <1>4
<1> QED BY <1>1, <1>3, <1>4, <1>5

\* The nested formulas of one formula, in their order.
IsNestedOf(c, n, h) ==
  /\ h \in Seq((n + 1)..Len(c)) /\ Len(h) \in Nat
  /\ \A i \in 1..Len(h) : h[i] \in (n + 1)..Len(c)
  /\ \A i \in 1..Len(h) : \E q \in NestedUpTo(c, Len(c)) : q[1] = n /\ Held(c, q) = h[i]
  /\ \A q \in NestedUpTo(c, Len(c)) : q[1] = n => \E i \in 1..Len(h) : h[i] = Held(c, q)
  /\ \A i, j \in 1..Len(h) : i < j => h[i] < h[j]

LEMMA NestedOf ==
  ASSUME NEW c, IsListing(c), NEW n \in 1..Len(c)
  PROVE  IsNestedOf(c, n, from_json(c)[n].nestedElements)
<1> DEFINE N == Len(c)
           out == c[n].outOf
           B   == NestedPlaces(c, n)
           l   == Len(out)
           b   == Ascending(B, l)
           h   == from_json(c)[n].nestedElements
           W   == NestedUpTo(c, N)
<1>1. /\ N \in Nat /\ l \in Nat /\ B \subseteq 1..l
  BY MemberCount, ListingFacts
<1>2. h \in Seq((n + 1)..N) /\ Len(h) = Cardinality(B)
      /\ \A i \in 1..Len(h) : b[i] \in B /\ h[i] = out[b[i]].formula
  <2> DEFINE t == from_json(c)
  <2>1. t = from_json(c)
    OBVIOUS
  <2> HIDE DEF t, out, B, l, b, h
  <2>2. t[n].nestedElements \in Seq((n + 1)..Len(c))
    BY <2>1, ParsedFacts
  <2>3. Len(t[n].nestedElements) = Cardinality(NestedPlaces(c, n))
    BY <2>1, ParsedFacts
  <2>4. \A i \in 1..Len(t[n].nestedElements) :
          /\ Ascending(NestedPlaces(c, n), Len(c[n].outOf))[i] \in NestedPlaces(c, n)
          /\ t[n].nestedElements[i] = c[n].outOf[Ascending(NestedPlaces(c, n), Len(c[n].outOf))[i]].formula
    BY <2>1, ParsedFacts
  <2> QED BY <2>2, <2>3, <2>4 DEF b, B, l, out, h, t
<1> HIDE DEF h
<1>3. /\ Len(b) = Cardinality(B)
      /\ \A i, j \in 1..Len(b) : i < j => b[i] < b[j]
      /\ \A j \in B : \E i \in 1..Len(b) : b[i] = j
  <2>1. B \cap (1..l) = B
    BY <1>1
  <2> HIDE DEF B, l
  <2>2. /\ Len(b) = Cardinality(B \cap (1..l))
        /\ \A i, j \in 1..Len(b) : i < j => b[i] < b[j]
    BY <1>1, AscendingFacts
  <2>3. \A j \in B \cap (1..l) : Cardinality(B \cap (1..j)) \in 1..Len(b) /\ b[Cardinality(B \cap (1..j))] = j
    BY <1>1, AscendingFacts
  <2> HIDE DEF b
  <2> QED BY <2>1, <2>2, <2>3
<1> HIDE DEF b
<1>4. Len(h) = Len(b) /\ Len(h) \in Nat /\ \A i \in 1..Len(h) : h[i] \in (n + 1)..N
  <2>1. Len(h) = Len(b)
    BY <1>2, <1>3
  <2> DEFINE S == (n + 1)..N
  <2>2. h \in Seq(S)
    BY <1>2
  <2> HIDE DEF S
  <2>3. Len(h) \in Nat /\ \A i \in 1..Len(h) : h[i] \in S
    BY <2>2
  <2> QED BY <2>1, <2>3 DEF S
<1>5. \A i \in B : <<n, i>> \in W /\ Held(c, <<n, i>>) = out[i].formula
  <2>1. \A i \in B : i \in Nat
    BY <1>1
  <2>2. ASSUME NEW i \in B PROVE <<n, i>> \in W
    <3>1. <<n, i>> \in (1..N) \X Nat /\ <<n, i>>[1] = n /\ <<n, i>>[2] = i
      BY <2>1
    <3> QED BY <3>1 DEF NestedUpTo
  <2> QED BY <2>2 DEF Held
<1>6. ASSUME NEW q \in W, q[1] = n PROVE \E i \in 1..Len(h) : h[i] = Held(c, q)
  <2>1. q[2] \in B
    BY <1>6, HeldFacts
  <2>2. PICK i \in 1..Len(b) : b[i] = q[2]
    BY <1>3, <2>1
  <2>3. h[i] = out[q[2]].formula
    BY <1>2, <1>4, <2>2
  <2>4. Held(c, q) = out[q[2]].formula
    BY <1>6 DEF Held
  <2> QED BY <1>4, <2>2, <2>3, <2>4
<1>7. ASSUME NEW i \in 1..Len(h) PROVE \E q \in W : q[1] = n /\ Held(c, q) = h[i]
  <2>1. b[i] \in B /\ h[i] = out[b[i]].formula
    BY <1>2
  <2> DEFINE q == <<n, b[i]>>
  <2>2. q \in W /\ Held(c, q) = h[i]
    BY <1>5, <2>1
  <2> QED BY <2>2
<1>8. ASSUME NEW i \in 1..Len(h), NEW j \in 1..Len(h), i < j PROVE h[i] < h[j]
  <2> DEFINE q == <<n, b[i]>>
             r == <<n, b[j]>>
  <2>1. b[i] \in B /\ b[j] \in B /\ b[i] < b[j] /\ b[i] \in Nat /\ b[j] \in Nat
    <3>1. b[i] \in B /\ b[j] \in B
      BY <1>2
    <3>2. i \in 1..Len(b) /\ j \in 1..Len(b)
      BY <1>4
    <3>3. b[i] < b[j]
      BY <1>3, <1>8, <3>2
    <3> HIDE DEF B
    <3>4. \A e \in B : e \in Nat
      BY <1>1
    <3> QED BY <3>1, <3>3, <3>4
  <2>2. q \in W /\ r \in W /\ Held(c, q) = h[i] /\ Held(c, r) = h[j] /\ q[1] = n /\ r[1] = n
        /\ q[2] = b[i] /\ r[2] = b[j]
    BY <1>2, <1>5, <2>1
  <2> HIDE DEF q, r
  <2>3. h[i] # h[j]
    <3>1. q # r
      BY <2>1, <2>2
    <3> QED BY <2>2, <3>1, HeldFacts
  <2>4. ~(h[j] < h[i])
    <3> SUFFICES ASSUME h[j] < h[i] PROVE FALSE
      OBVIOUS
    <3>1. q[1] < Held(c, r)
      BY <1>4, <2>2
    <3>2. r[1] > q[1] \/ (r[1] = q[1] /\ r[2] < q[2])
      BY <2>2, <3>1, HeldBetween
    <3> QED BY <2>1, <2>2, <3>2
  <2> QED BY <1>1, <1>4, <2>3, <2>4
<1>9. h \in Seq((n + 1)..N)
  BY <1>2
<1>10. IsNestedOf(c, n, h)
  BY <1>4, <1>6, <1>7, <1>8, <1>9 DEF IsNestedOf
<1> QED BY <1>10 DEF h

\* A formula that is 1 or nested in one of the first n.
IsOpen(c, n, j) == j = 1 \/ \E q \in NestedUpTo(c, Len(c)) : q[1] <= n /\ Held(c, q) = j

\* p lists the formulas that are open and not among the first n.
IsPending(c, n, p) ==
  /\ p \in Seq((n + 1)..Len(c)) /\ Len(p) \in Nat
  /\ \A i \in 1..Len(p) : p[i] \in (n + 1)..Len(c)
  /\ \A i, j \in 1..Len(p) : i < j => p[i] < p[j]
  /\ \A j \in (n + 1)..Len(c) : IsOpen(c, n, j) <=> \E i \in 1..Len(p) : p[i] = j

LEMMA PendingFirst ==
  ASSUME NEW c, IsListing(c)
  PROVE  IsPending(c, 0, <<1>>)
<1>1. Len(c) \in Nat /\ Len(c) >= 1
  BY ListingFacts
<1> DEFINE p == <<1>>
<1>2. p \in Seq((0 + 1)..Len(c)) /\ Len(p) = 1 /\ p[1] = 1
  BY <1>1
<1> HIDE DEF p
<1>3. \A i \in 1..Len(p) : i = 1
  BY <1>2
<1>4. \A j : ~(\E q \in NestedUpTo(c, Len(c)) : q[1] <= 0 /\ Held(c, q) = j)
  <2>1. \A q \in NestedUpTo(c, Len(c)) : q[1] \in 1..Len(c)
    BY HeldFacts
  <2> QED BY <1>1, <2>1
<1>5. \A j \in (0 + 1)..Len(c) : IsOpen(c, 0, j) <=> \E i \in 1..Len(p) : p[i] = j
  BY <1>2, <1>3, <1>4 DEF IsOpen
<1>6. \A i \in 1..Len(p) : p[i] \in (0 + 1)..Len(c)
  BY <1>1, <1>2, <1>3
<1>7. \A i, j \in 1..Len(p) : i < j => p[i] < p[j]
  BY <1>3
<1>8. IsPending(c, 0, p)
  BY <1>2, <1>5, <1>6, <1>7 DEF IsPending
<1> QED BY <1>8 DEF p

LEMMA PendingHead ==
  ASSUME NEW c, IsListing(c), NEW n \in 0..(Len(c) - 1), NEW p, IsPending(c, n, p)
  PROVE  Len(p) >= 1 /\ p[1] = n + 1 /\ \A i \in 2..Len(p) : p[i] \in (n + 2)..Len(c)
<1>1. n \in Nat /\ n + 1 \in (n + 1)..Len(c) /\ Len(c) \in Nat
  BY ListingFacts
<1>2. /\ Len(p) \in Nat /\ \A i \in 1..Len(p) : p[i] \in (n + 1)..Len(c)
      /\ \A i, j \in 1..Len(p) : i < j => p[i] < p[j]
      /\ \A j \in (n + 1)..Len(c) : IsOpen(c, n, j) <=> \E i \in 1..Len(p) : p[i] = j
  BY DEF IsPending
<1>3. IsOpen(c, n, n + 1)
  <2>1. CASE n = 0
    BY <2>1 DEF IsOpen
  <2>2. CASE n > 0
    <3>1. n + 1 \in 2..Len(c)
      BY <1>1, <2>2
    <3>2. PICK q \in NestedUpTo(c, Len(c)) : Held(c, q) = n + 1
      BY <3>1, HeldFacts
    <3>3. Held(c, q) \in (q[1] + 1)..Len(c) /\ q[1] \in 1..Len(c)
      BY HeldFacts
    <3>4. q[1] <= n
      BY <1>1, <3>2, <3>3
    <3> QED BY <3>2, <3>4 DEF IsOpen
  <2> QED BY <1>1, <2>1, <2>2
<1>4. PICK i \in 1..Len(p) : p[i] = n + 1
  BY <1>1, <1>2, <1>3
<1>5. i = 1
  <2> SUFFICES ASSUME i # 1 PROVE FALSE
    OBVIOUS
  <2>1. 1 \in 1..Len(p) /\ 1 < i
    BY <1>2
  <2>2. p[1] < p[i] /\ p[1] \in (n + 1)..Len(c)
    BY <1>2, <2>1
  <2> QED BY <1>1, <1>4, <2>2
<1>6. \A j \in 2..Len(p) : p[j] \in (n + 2)..Len(c)
  <2> SUFFICES ASSUME NEW j \in 2..Len(p) PROVE p[j] \in (n + 2)..Len(c)
    OBVIOUS
  <2>1. j \in 1..Len(p) /\ 1 \in 1..Len(p) /\ 1 < j
    BY <1>2
  <2>2. p[1] < p[j] /\ p[j] \in (n + 1)..Len(c)
    BY <1>2, <2>1
  <2> QED BY <1>1, <1>4, <1>5, <2>2
<1> QED BY <1>2, <1>4, <1>5, <1>6

\* The next list: h in the place of the head of p.
IsNext(r, h, p) ==
  /\ Len(r) = Len(h) + Len(p) - 1
  /\ \A i \in 1..Len(h) : r[i] = h[i]
  /\ \A i \in 1..(Len(p) - 1) : r[Len(h) + i] = p[i + 1]

LEMMA NextFacts ==
  ASSUME NEW S, NEW h \in Seq(S), NEW p, Len(p) \in Nat, Len(p) >= 1,
         p \in Seq(S \cup {p[1]}), \A i \in 2..Len(p) : p[i] \in S
  PROVE  h \o Tail(p) \in Seq(S) /\ IsNext(h \o Tail(p), h, p) /\ Len(h) \in Nat
<1> DEFINE z == Tail(p)
           k == Len(p) - 1
<1>1. p # << >>
  OBVIOUS
<1>2. Len(z) = k /\ k \in Nat /\ \A i \in 1..k : z[i] = p[i + 1]
  BY <1>1, HeadTailProperties
<1>3. z \in Seq(S \cup {p[1]})
  BY <1>1, HeadTailProperties
<1> HIDE DEF z
<1>4. z \in Seq(S)
  <2>1. \A i \in 1..k : z[i] \in S
    <3>1. \A i \in 1..k : i + 1 \in 2..Len(p)
      OBVIOUS
    <3> HIDE DEF k
    <3> QED BY <1>2, <3>1
  <2> HIDE DEF k
  <2>2. z \in [1..k -> S]
    BY <1>2, <1>3, <2>1
  <2> QED BY <1>2, <2>2
<1>5. Len(h) \in Nat
  OBVIOUS
<1>6. /\ h \o z \in Seq(S) /\ Len(h \o z) = Len(h) + Len(z)
      /\ \A i \in 1..(Len(h) + Len(z)) : (h \o z)[i] = IF i <= Len(h) THEN h[i] ELSE z[i - Len(h)]
  BY <1>4, ConcatProperties
<1>7. \A i \in 1..Len(h) : (h \o z)[i] = h[i]
  <2>1. \A i \in 1..Len(h) : i \in 1..(Len(h) + Len(z)) /\ i <= Len(h)
    BY <1>2, <1>5
  <2> QED BY <1>6, <2>1
<1>8. \A i \in 1..k : (h \o z)[Len(h) + i] = p[i + 1]
  <2>1. \A i \in 1..k : Len(h) + i \in 1..(Len(h) + Len(z)) /\ ~(Len(h) + i <= Len(h)) /\ Len(h) + i - Len(h) = i
    BY <1>2, <1>5
  <2> HIDE DEF k
  <2> QED BY <1>2, <1>6, <2>1
<1>9. Len(h \o z) = Len(h) + Len(p) - 1
  BY <1>2, <1>5, <1>6
<1>10. IsNext(h \o z, h, p)
  BY <1>7, <1>8, <1>9 DEF IsNext
<1> QED BY <1>5, <1>6, <1>10 DEF z

LEMMA OpenNext ==
  ASSUME NEW c, IsListing(c), NEW n \in 0..(Len(c) - 1), NEW j
  PROVE  IsOpen(c, n + 1, j)
         <=> IsOpen(c, n, j) \/ \E q \in NestedUpTo(c, Len(c)) : q[1] = n + 1 /\ Held(c, q) = j
<1>1. Len(c) \in Nat /\ n \in Nat
  BY ListingFacts
<1>2. \A q \in NestedUpTo(c, Len(c)) : q[1] \in Nat
  BY <1>1, HeldFacts
<1>3. \A q \in NestedUpTo(c, Len(c)) : q[1] <= n + 1 <=> q[1] <= n \/ q[1] = n + 1
  BY <1>1, <1>2
<1> QED BY <1>3 DEF IsOpen

\* What is nested in formula n + 1 comes before what is nested in an earlier one.
LEMMA NestedBefore ==
  ASSUME NEW c, IsListing(c), NEW n \in 0..(Len(c) - 1), NEW h, IsNestedOf(c, n + 1, h),
         NEW j \in (n + 2)..Len(c), IsOpen(c, n, j), NEW i \in 1..Len(h)
  PROVE  h[i] < j
<1>1. Len(c) \in Nat /\ n \in Nat
  BY ListingFacts
<1>2. h[i] \in (n + 1 + 1)..Len(c)
  BY DEF IsNestedOf
<1>3. PICK q \in NestedUpTo(c, Len(c)) : q[1] = n + 1 /\ Held(c, q) = h[i]
  BY DEF IsNestedOf
<1>4. j # 1
  BY <1>1
<1>5. PICK r \in NestedUpTo(c, Len(c)) : r[1] <= n /\ Held(c, r) = j
  BY <1>4 DEF IsOpen
<1>6. r[1] \in 1..Len(c)
  BY HeldFacts
<1>7. h[i] # j
  <2>1. q # r
    BY <1>1, <1>3, <1>5, <1>6
  <2> QED BY <1>3, <1>5, <2>1, HeldFacts
<1>8. ~(j < h[i])
  <2> SUFFICES ASSUME j < h[i] PROVE FALSE
    OBVIOUS
  <2>1. q[1] < Held(c, r) /\ Held(c, r) < Held(c, q)
    BY <1>1, <1>3, <1>5
  <2>2. r[1] > q[1] \/ (r[1] = q[1] /\ r[2] < q[2])
    BY <2>1, HeldBetween
  <2> QED BY <1>1, <1>3, <1>5, <1>6, <2>2
<1> QED BY <1>1, <1>2, <1>7, <1>8

LEMMA PendingStep ==
  ASSUME NEW c, IsListing(c), NEW n \in 0..(Len(c) - 1), NEW p, IsPending(c, n, p),
         NEW h, IsNestedOf(c, n + 1, h)
  PROVE  IsPending(c, n + 1, h \o Tail(p)) /\ IsNext(h \o Tail(p), h, p)
<1> DEFINE N == Len(c)
           S == (n + 2)..N
           r == h \o Tail(p)
           l == Len(h)
           k == Len(p) - 1
<1>1. N \in Nat /\ n \in Nat /\ (n + 1 + 1)..Len(c) = S
  BY ListingFacts
<1>2. Len(p) >= 1 /\ p[1] = n + 1 /\ \A i \in 2..Len(p) : p[i] \in S
  BY PendingHead
<1>3. /\ p \in Seq((n + 1)..N) /\ Len(p) \in Nat
      /\ \A i \in 1..Len(p) : p[i] \in (n + 1)..N
      /\ \A i, j \in 1..Len(p) : i < j => p[i] < p[j]
      /\ \A j \in (n + 1)..N : IsOpen(c, n, j) <=> \E i \in 1..Len(p) : p[i] = j
  BY DEF IsPending
<1>4. /\ h \in Seq(S) /\ l \in Nat /\ \A i \in 1..l : h[i] \in S
      /\ \A i \in 1..l : \E q \in NestedUpTo(c, N) : q[1] = n + 1 /\ Held(c, q) = h[i]
      /\ \A q \in NestedUpTo(c, N) : q[1] = n + 1 => \E i \in 1..l : h[i] = Held(c, q)
      /\ \A i, j \in 1..l : i < j => h[i] < h[j]
  BY <1>1 DEF IsNestedOf
<1>5. p \in Seq(S \cup {p[1]})
  <2>1. (n + 1)..N \subseteq S \cup {n + 1}
    BY <1>1
  <2> DEFINE A == (n + 1)..N
             B == S \cup {n + 1}
  <2>2. p \in Seq(A) /\ A \subseteq B
    BY <1>3, <2>1
  <2> HIDE DEF A, B
  <2>3. p \in Seq(B)
    BY <2>2
  <2> QED BY <1>2, <2>3 DEF B
<1>6. r \in Seq(S) /\ IsNext(r, h, p)
  <2> HIDE DEF S
  <2> QED BY <1>2, <1>3, <1>4, <1>5, NextFacts
<1>7. /\ Len(r) = l + k /\ k \in Nat
      /\ \A i \in 1..l : r[i] = h[i]
      /\ \A i \in 1..k : r[l + i] = p[i + 1]
  BY <1>2, <1>3, <1>4, <1>6 DEF IsNext
<1>8. \A i \in 1..k : i + 1 \in 2..Len(p) /\ i + 1 \in 1..Len(p)
  BY <1>3
<1>9. \A i \in 1..(l + k) : i \in 1..l \/ (i - l \in 1..k /\ l + (i - l) = i)
  BY <1>4, <1>7
<1>10. \A i \in 1..k : p[i + 1] \in S /\ IsOpen(c, n, p[i + 1])
  <2>1. \A i \in 1..k : p[i + 1] \in S /\ p[i + 1] \in (n + 1)..N
    BY <1>2, <1>3, <1>8
  <2> HIDE DEF S, k, N
  <2> QED BY <1>3, <1>8, <2>1
<1> HIDE DEF r, k, l
<1>11. \A i \in 1..Len(r) : r[i] \in S
  <2> HIDE DEF S
  <2> SUFFICES ASSUME NEW i \in 1..(l + k) PROVE r[i] \in S
    BY <1>7
  <2>1. CASE i \in 1..l
    BY <1>4, <1>7, <2>1
  <2>2. CASE i - l \in 1..k /\ l + (i - l) = i
    <3> DEFINE s == i - l
    <3>1. s \in 1..k /\ l + s = i
      BY <2>2
    <3> HIDE DEF s
    <3> QED BY <1>7, <1>10, <3>1
  <2> QED BY <1>9, <2>1, <2>2
<1>12. ASSUME NEW i \in 1..Len(r), NEW j \in 1..Len(r), i < j
       PROVE  r[i] < r[j]
  <2>1. i \in 1..(l + k) /\ j \in 1..(l + k) /\ i \in Int /\ j \in Int /\ l \in Nat /\ k \in Nat
    BY <1>4, <1>7
  <2>2. CASE i \in 1..l /\ j \in 1..l
    BY <1>4, <1>7, <1>12, <2>2
  <2>3. CASE i \in 1..l /\ ~(j \in 1..l)
    <3> DEFINE s == j - l
    <3>1. s \in 1..k /\ l + s = j
      BY <1>9, <2>1, <2>3
    <3> HIDE DEF s
    <3> DEFINE x == p[s + 1]
    <3>2. r[j] = x /\ x \in S /\ IsOpen(c, n, x) /\ r[i] = h[i]
      BY <1>7, <1>10, <2>3, <3>1
    <3> HIDE DEF x
    <3>3. h[i] < x
      BY <2>3, <3>2, NestedBefore DEF l
    <3> QED BY <3>2, <3>3
  <2>4. CASE ~(i \in 1..l)
    <3> DEFINE s == i - l
               u == j - l
    <3>1. s \in 1..k /\ l + s = i /\ u \in 1..k /\ l + u = j /\ s < u
      BY <1>9, <1>12, <2>1, <2>4
    <3> HIDE DEF s, u
    <3>2. r[i] = p[s + 1] /\ r[j] = p[u + 1]
      BY <1>7, <3>1
    <3>3. s + 1 \in 1..Len(p) /\ u + 1 \in 1..Len(p)
      BY <1>8, <3>1
    <3>4. s + 1 < u + 1
      BY <2>1, <3>1
    <3> QED BY <1>3, <3>2, <3>3, <3>4
  <2> QED BY <2>2, <2>3, <2>4
<1>13. ASSUME NEW j \in S
       PROVE  IsOpen(c, n + 1, j) <=> \E i \in 1..Len(r) : r[i] = j
  <2>1. j \in (n + 1)..N /\ j # n + 1
    BY <1>1
  <2>2. IsOpen(c, n + 1, j)
        <=> IsOpen(c, n, j) \/ \E q \in NestedUpTo(c, N) : q[1] = n + 1 /\ Held(c, q) = j
    BY OpenNext
  <2>3. (\E q \in NestedUpTo(c, N) : q[1] = n + 1 /\ Held(c, q) = j) <=> \E i \in 1..l : h[i] = j
    BY <1>4
  <2>4. IsOpen(c, n, j) <=> \E i \in 1..k : p[i + 1] = j
    <3>1. ASSUME NEW i \in 1..Len(p), p[i] = j PROVE \E m \in 1..k : p[m + 1] = j
      <4>1. i # 1
        BY <1>2, <2>1, <3>1
      <4>2. i - 1 \in 1..k /\ (i - 1) + 1 = i
        BY <1>3, <4>1 DEF k
      <4> QED BY <3>1, <4>2
    <3>2. ASSUME NEW i \in 1..k, p[i + 1] = j PROVE \E m \in 1..Len(p) : p[m] = j
      BY <1>8, <3>2
    <3>3. IsOpen(c, n, j) <=> \E i \in 1..Len(p) : p[i] = j
      BY <1>3, <2>1
    <3> QED BY <3>1, <3>2, <3>3
  <2>5. (\E i \in 1..Len(r) : r[i] = j) <=> (\E i \in 1..l : h[i] = j) \/ (\E i \in 1..k : p[i + 1] = j)
    <3>1. ASSUME NEW i \in 1..l, h[i] = j PROVE \E m \in 1..Len(r) : r[m] = j
      <4>1. i \in 1..Len(r)
        BY <1>4, <1>7
      <4> QED BY <1>7, <3>1, <4>1
    <3>2. ASSUME NEW i \in 1..k, p[i + 1] = j PROVE \E m \in 1..Len(r) : r[m] = j
      <4>1. l + i \in 1..Len(r)
        BY <1>4, <1>7
      <4> QED BY <1>7, <3>2, <4>1
    <3>3. ASSUME NEW i \in 1..Len(r), r[i] = j
          PROVE  (\E m \in 1..l : h[m] = j) \/ (\E m \in 1..k : p[m + 1] = j)
      <4>1. CASE i \in 1..l
        BY <1>7, <3>3, <4>1
      <4>2. CASE i - l \in 1..k /\ l + (i - l) = i
        <5> DEFINE s == i - l
        <5>1. s \in 1..k /\ l + s = i
          BY <4>2
        <5> HIDE DEF s
        <5> QED BY <1>7, <3>3, <5>1
      <4> QED BY <1>7, <1>9, <4>1, <4>2
    <3> QED BY <3>1, <3>2, <3>3
  <2> QED BY <2>2, <2>3, <2>4, <2>5
<1>14. /\ r \in Seq((n + 1 + 1)..Len(c)) /\ Len(r) \in Nat
       /\ \A i \in 1..Len(r) : r[i] \in (n + 1 + 1)..Len(c)
       /\ \A j \in (n + 1 + 1)..Len(c) : IsOpen(c, n + 1, j) <=> \E i \in 1..Len(r) : r[i] = j
  <2>1. Len(r) \in Nat
    BY <1>4, <1>7
  <2> HIDE DEF S
  <2> QED BY <1>1, <1>6, <1>11, <1>13, <2>1
<1>15. \A i, j \in 1..Len(r) : i < j => r[i] < r[j]
  BY <1>12
<1>16. IsPending(c, n + 1, r)
  BY <1>14, <1>15 DEF IsPending
<1> QED BY <1>6, <1>16 DEF r

-----------------------------------------------------------------------------
(* A span program accepts what its formulas do. *)

\* The count of two parts, one behind the other.
IsTwo(C, A, a, B, b) ==
  /\ a \in Nat /\ b \in Nat /\ A \subseteq 1..a /\ B \subseteq 1..b /\ C \subseteq 1..(a + b)
  /\ \A i \in 1..a : i \in C <=> i \in A
  /\ \A i \in 1..b : a + i \in C <=> i \in B

LEMMA CountTwo ==
  ASSUME NEW a, NEW b, NEW A, NEW B, NEW C, IsTwo(C, A, a, B, b)
  PROVE  Cardinality(C) = Cardinality(A) + Cardinality(B)
<1> DEFINE D == {i \in C : i > a}
           f == [x \in B |-> a + x]
<1>0. /\ a \in Nat /\ b \in Nat /\ A \subseteq 1..a /\ B \subseteq 1..b /\ C \subseteq 1..(a + b)
      /\ \A i \in 1..a : i \in C <=> i \in A
      /\ \A i \in 1..b : a + i \in C <=> i \in B
  BY DEF IsTwo
<1>1. IsFiniteSet(A) /\ IsFiniteSet(B)
  <2>1. IsFiniteSet(1..a) /\ IsFiniteSet(1..b)
    BY <1>0, FS_Interval
  <2> QED BY <1>0, <2>1, FS_Subset
<1>2. D \subseteq C /\ IsFiniteSet(C)
  <2> DEFINE n == a + b
  <2>1. n \in Int /\ 1 \in Int /\ C \subseteq 1..n
    BY <1>0
  <2> HIDE DEF n
  <2>2. IsFiniteSet(1..n)
    BY <2>1, FS_Interval
  <2> QED BY <2>1, <2>2, FS_Subset
<1>3. IsFiniteSet(D)
  <2> HIDE DEF D
  <2> QED BY <1>2, FS_Subset
<1>4. C = A \cup D /\ A \cap D = {}
  <2>1. \A i \in C : i \in 1..a \/ i > a
    BY <1>0
  <2>2. \A i \in A : i \in 1..a /\ i \in C /\ ~(i > a)
    BY <1>0
  <2>3. \A i \in C : i \in 1..a => i \in A
    BY <1>0
  <2> QED BY <2>1, <2>2, <2>3
<1>5. \A x \in B : f[x] \in D
  <2>1. \A x \in B : a + x \in C /\ a + x > a
    BY <1>0
  <2> QED BY <2>1
<1>6. \A y \in D : \E x \in B : f[x] = y
  <2> SUFFICES ASSUME NEW y \in D PROVE \E x \in B : f[x] = y
    OBVIOUS
  <2>1. y - a \in 1..b /\ a + (y - a) = y /\ y \in C
    BY <1>0
  <2>2. y - a \in B
    BY <1>0, <2>1
  <2> QED BY <2>1, <2>2
<1>7. \A x, y \in B : f[x] = f[y] => x = y
  BY <1>0
<1>8. f = [x \in B |-> f[x]]
  OBVIOUS
<1> HIDE DEF f, D
<1>9. Cardinality(D) = Cardinality(B)
  BY <1>1, <1>5, <1>6, <1>7, <1>8, CountSurjection
<1>10. Cardinality(A \cup D) = Cardinality(A) + Cardinality(D) - Cardinality(A \cap D)
  BY <1>1, <1>3, FS_Union
<1>11. Cardinality(A \cap D) = 0
  BY <1>4, FS_EmptySet
<1>12. Cardinality(A) \in Nat /\ Cardinality(B) \in Nat
  BY <1>1, FS_CardinalityType
<1> QED BY <1>4, <1>9, <1>10, <1>11, <1>12

\* The rows of reps, and the rows of the formulas that hold, in a program whose
\* first rows are labelled L and whose other rows wait for the formulas p.
TrueRows(L, p, n, reps, f) ==
  {i \in 1..n : IF i <= Len(L) THEN L[i] \in reps ELSE f[p[i - Len(L)]]}

AreRows(R, L, p, k, reps, f) ==
  /\ \A i \in 1..Len(L) : i \in R <=> L[i] \in reps
  /\ \A i \in 1..k : Len(L) + i \in R <=> f[p[i]]

LEMMA TrueRowFacts ==
  ASSUME NEW L, Len(L) \in Nat, NEW p, NEW k \in Nat, NEW n, n = Len(L) + k, NEW reps, NEW f,
         NEW R, R = TrueRows(L, p, n, reps, f)
  PROVE  AreRows(R, L, p, k, reps, f)
<1> DEFINE m == Len(L)
<1>1. m \in Nat /\ n = m + k
  OBVIOUS
<1>2. \A i \in 1..m : i \in 1..n /\ i <= m
  OBVIOUS
<1>3. R = {i \in 1..n : IF i <= m THEN L[i] \in reps ELSE f[p[i - m]]}
  BY DEF TrueRows
<1> HIDE DEF m
<1>4. \A i \in 1..m : i \in R <=> L[i] \in reps
  BY <1>2, <1>3
<1>5. ASSUME NEW i \in 1..k PROVE m + i \in R <=> f[p[i]]
  <2> DEFINE j == m + i
  <2>1. j \in 1..n /\ ~(j <= m) /\ j - m = i
    BY <1>1
  <2> HIDE DEF j
  <2>2. j \in R <=> IF j <= m THEN L[j] \in reps ELSE f[p[j - m]]
    BY <1>3, <2>1, Zenon
  <2>3. j \in R <=> f[p[j - m]]
    BY <2>1, <2>2, Zenon
  <2> DEFINE o == j - m
  <2>4. o = i /\ (j \in R <=> f[p[o]])
    BY <2>1, <2>3, Zenon
  <2> HIDE DEF o
  <2>5. j \in R <=> f[p[i]]
    BY <2>4, Zenon
  <2> QED BY <2>5 DEF j
<1> QED BY <1>4, <1>5, Zenon DEF m, AreRows

\* The labels grow by those of one formula.
IsLabelled(L1, L, e) ==
  /\ Len(L) \in Nat /\ Len(e) \in Nat /\ Len(L1) = Len(L) + Len(e)
  /\ \A i \in 1..Len(L) : L1[i] = L[i]
  /\ \A i \in 1..Len(e) : L1[Len(L) + i] = e[i]

\* Of the members of a formula, those in a list of replicas and those in a list of
\* formulas.
InList(e, reps) == {i \in 1..Len(e) : e[i] \in reps}

HoldInList(h, f) == {i \in 1..Len(h) : f[h[i]]}

LEMMA FoldedRows ==
  ASSUME NEW L, NEW L1, NEW e, IsLabelled(L1, L, e), NEW p, NEW h, NEW r, IsNext(r, h, p),
         Len(h) \in Nat, NEW k \in Nat, Len(p) = k + 1, NEW reps, NEW f, NEW w,
         NEW m, m = Len(L), NEW v, v = Len(e) + Len(h),
         f[p[1]] <=> Cardinality(InList(e, reps)) + Cardinality(HoldInList(h, f)) >= w,
         NEW T, T = TrueRows(L, p, m + 1 + k, reps, f),
         NEW R, R = TrueRows(L1, r, m + v + k, reps, f)
  PROVE  IsFolded(R, T, m, v, k, w)
<1> DEFINE a == Len(e)
           b == Len(h)
           n1 == m + v + k
           k1 == b + k
           B == BlockOf(R, m, v)
<1>1. /\ m \in Nat /\ a \in Nat /\ b \in Nat /\ v = a + b /\ Len(L1) = m + a
      /\ \A i \in 1..m : L1[i] = L[i]
      /\ \A i \in 1..a : L1[m + i] = e[i]
  BY DEF IsLabelled
<1>2. /\ \A i \in 1..b : r[i] = h[i]
      /\ \A i \in 1..k : r[b + i] = p[i + 1]
  <2>1. k = Len(p) - 1
    OBVIOUS
  <2> QED BY <2>1 DEF IsNext
<1> HIDE DEF a, b
<1>3. /\ \A i \in 1..m : i \in T <=> L[i] \in reps
      /\ \A i \in 1..(k + 1) : m + i \in T <=> f[p[i]]
  <2> DEFINE u == k + 1
             n0 == m + 1 + k
  <2>1. u \in Nat /\ n0 = Len(L) + u /\ Len(L) \in Nat /\ T = TrueRows(L, p, n0, reps, f)
    BY <1>1
  <2> HIDE DEF u, n0
  <2>2. AreRows(T, L, p, u, reps, f)
    BY <2>1, TrueRowFacts
  <2> QED BY <2>2, Zenon DEF u, AreRows
<1>4. /\ \A i \in 1..(m + a) : i \in R <=> L1[i] \in reps
      /\ \A i \in 1..k1 : m + a + i \in R <=> f[r[i]]
  <2>1. k1 \in Nat /\ n1 = Len(L1) + k1 /\ Len(L1) \in Nat /\ R = TrueRows(L1, r, n1, reps, f)
    BY <1>1
  <2> HIDE DEF k1, n1
  <2>2. AreRows(R, L1, r, k1, reps, f)
    BY <2>1, TrueRowFacts
  <2>3. Len(L1) = m + a
    BY <1>1
  <2> QED BY <2>2, <2>3, Zenon DEF AreRows
<1>5. ASSUME NEW i \in 1..m PROVE i \in T <=> i \in R
  <2>1. i \in 1..(m + a)
    BY <1>1
  <2> QED BY <1>1, <1>3, <1>4, <2>1
<1>6. ASSUME NEW i \in 1..k PROVE m + 1 + i \in T <=> m + v + i \in R
  <2> DEFINE s == i + 1
             t == b + i
             x == p[s]
  <2>1. s \in 1..(k + 1) /\ t \in 1..k1 /\ m + s = m + 1 + i /\ m + a + t = m + v + i
    BY <1>1
  <2>2. r[t] = x
    BY <1>2
  <2> HIDE DEF s, t, x
  <2>3. m + s \in T <=> f[x]
    BY <1>3, <2>1 DEF x
  <2>4. m + a + t \in R <=> f[x]
    BY <1>4, <2>1, <2>2
  <2> QED BY <2>1, <2>3, <2>4
<1>7. \A i \in 1..a : i \in B <=> i \in InList(e, reps)
  <2> SUFFICES ASSUME NEW i \in 1..a PROVE i \in B <=> i \in InList(e, reps)
    OBVIOUS
  <2>1. m + i \in 1..(m + a) /\ i \in 1..v
    BY <1>1
  <2>2. m + i \in R <=> e[i] \in reps
    BY <1>1, <1>4, <2>1
  <2> QED BY <2>1, <2>2 DEF BlockOf, InList, a
<1>8. \A i \in 1..b : a + i \in B <=> i \in HoldInList(h, f)
  <2> SUFFICES ASSUME NEW i \in 1..b PROVE a + i \in B <=> i \in HoldInList(h, f)
    OBVIOUS
  <2>1. i \in 1..k1 /\ a + i \in 1..v /\ m + (a + i) = m + a + i
    BY <1>1
  <2>2. m + a + i \in R <=> f[h[i]]
    BY <1>2, <1>4, <2>1
  <2>3. a + i \in B <=> m + a + i \in R
    BY <2>1 DEF BlockOf
  <2> QED BY <2>2, <2>3, Zenon DEF HoldInList, b
<1>9. Cardinality(B) = Cardinality(InList(e, reps)) + Cardinality(HoldInList(h, f))
  <2>1. InList(e, reps) \subseteq 1..a /\ HoldInList(h, f) \subseteq 1..b /\ B \subseteq 1..(a + b)
    BY <1>1 DEF InList, HoldInList, a, b, BlockOf
  <2> HIDE DEF B
  <2>2. IsTwo(B, InList(e, reps), a, HoldInList(h, f), b)
    BY <1>1, <1>7, <1>8, <2>1 DEF IsTwo
  <2> QED BY <2>2, CountTwo
<1>10. m + 1 \in T <=> Cardinality(B) >= w
  <2>1. 1 \in 1..(k + 1)
    OBVIOUS
  <2>2. m + 1 \in T <=> f[p[1]]
    BY <1>3, <2>1
  <2> HIDE DEF B
  <2> QED BY <1>9, <2>2
<1> QED BY <1>5, <1>6, <1>10 DEF IsFolded

\* After n formulas the program, with p for the rows that wait, accepts the
\* replicas and the formulas that hold exactly when the first formula holds.
IsProgram(c, n, s, p, d) ==
  /\ IsPending(c, n, p) /\ d \in Nat /\ d >= 1
  /\ s.M \in Matrix(Len(s.L) + Len(p), d)

Accepts(s, p, d, reps, f) ==
  LET r == Len(s.L) + Len(p) IN Spans(s.M, r, d, TrueRows(s.L, p, r, reps, f))

SpanInv(c, n, s, reps, f) ==
  /\ s.L \in Seq(Replicas) /\ s.at = Len(s.L) + 1
  /\ \E p, d : IsProgram(c, n, s, p, d) /\ (Accepts(s, p, d, reps, f) <=> f[1])

\* What formula n + 1 is worth.
LEMMA HoldsCount ==
  ASSUME NEW c, IsListing(c), NEW reps, NEW f, NEW t, t = from_json(c), IsHolds(t, reps, f),
         NEW n \in 1..Len(c)
  PROVE  f[n] <=> Cardinality(InList(t[n].elements, reps))
                    + Cardinality(HoldInList(t[n].nestedElements, f)) >= t[n].threshold
<1> DEFINE e == t[n].elements
           h == t[n].nestedElements
<1>1. DOMAIN t = 1..Len(c) /\ e \in Seq(Replicas) /\ h \in Seq((n + 1)..Len(c))
  BY ParsedFacts
<1>2. f[n] = (Cardinality({i \in DOMAIN e : e[i] \in reps})
                + Cardinality({i \in DOMAIN h : f[h[i]]}) >= t[n].threshold)
  BY <1>1, Zenon DEF IsHolds
<1>3. DOMAIN e = 1..Len(e) /\ DOMAIN h = 1..Len(h)
  <2> HIDE DEF e, h
  <2>1. DOMAIN e = 1..Len(e)
    BY <1>1
  <2> DEFINE S == (n + 1)..Len(c)
  <2>2. h \in Seq(S)
    BY <1>1
  <2> HIDE DEF S
  <2>3. DOMAIN h = 1..Len(h)
    BY <2>2
  <2> QED BY <2>1, <2>3
<1> HIDE DEF e, h
<1>4. {i \in DOMAIN e : e[i] \in reps} = InList(e, reps)
      /\ {i \in DOMAIN h : f[h[i]]} = HoldInList(h, f)
  BY <1>3, Zenon DEF InList, HoldInList
<1> QED BY <1>2, <1>4, Zenon DEF e, h

LEMMA LabelsGrow ==
  ASSUME NEW L \in Seq(Replicas), NEW e \in Seq(Replicas)
  PROVE  L \o e \in Seq(Replicas) /\ IsLabelled(L \o e, L, e)
<1>1. /\ Len(L) \in Nat /\ Len(e) \in Nat /\ L \o e \in Seq(Replicas)
      /\ Len(L \o e) = Len(L) + Len(e)
      /\ \A i \in 1..(Len(L) + Len(e)) : (L \o e)[i] = IF i <= Len(L) THEN L[i] ELSE e[i - Len(L)]
  BY ConcatProperties
<1>2. \A i \in 1..Len(L) : i \in 1..(Len(L) + Len(e)) /\ i <= Len(L)
  BY <1>1
<1>3. \A i \in 1..Len(e) : /\ Len(L) + i \in 1..(Len(L) + Len(e))
                           /\ ~(Len(L) + i <= Len(L)) /\ Len(L) + i - Len(L) = i
  BY <1>1
<1> QED BY <1>1, <1>2, <1>3 DEF IsLabelled

LEMMA SpansStep ==
  ASSUME NEW N, NEW A, NEW m, NEW v, NEW k, NEW d, NEW w, IsGrown(N, A, m, v, k, d, w),
         NEW R, NEW T, IsFolded(R, T, m, v, k, w)
  PROVE  Spans(A, m + 1 + k, d, T) <=> Spans(N, m + v + k, d + w - 1, R)
<1>1. ASSUME NEW y, SpansWith(y, A, m + 1 + k, d, T) PROVE Spans(N, m + v + k, d + w - 1, R)
  BY <1>1, SpansExtend
<1>2. ASSUME NEW x, SpansWith(x, N, m + v + k, d + w - 1, R) PROVE Spans(A, m + 1 + k, d, T)
  BY <1>2, SpansShrink
<1> QED BY <1>1, <1>2 DEF Spans

LEMMA SpanStep ==
  ASSUME NEW c, IsListing(c), NEW n \in 0..(Len(c) - 1), Len(c[n + 1].outOf) < P,
         NEW reps, NEW f, IsHolds(from_json(c), reps, f),
         NEW s, SpanInv(c, n, s, reps, f), NEW s1, s1 = insertNextTheta(s, from_json(c)[n + 1])
  PROVE  SpanInv(c, n + 1, s1, reps, f)
<1> DEFINE j == n + 1
           t == from_json(c)[j]
           e == t.elements
           h == t.nestedElements
           w == t.threshold
           v == Len(e) + Len(h)
           V == getVandermonde(w, v)
           L == s.L
           m == Len(L)
           L1 == L \o e
<1>1. n \in Nat /\ j \in 1..Len(c) /\ Len(c) \in Nat
  BY ListingFacts
<1>2. /\ e \in Seq(Replicas) /\ Len(e) = Cardinality(FlatPlaces(c, j))
      /\ Len(h) = Cardinality(NestedPlaces(c, j)) /\ w = c[j].select
  BY <1>1, ParsedFacts
<1>3. Len(e) \in Nat /\ Len(h) \in Nat /\ v \in Nat /\ v >= 1 /\ v < P /\ w \in Nat /\ w >= 1
  <2>1. /\ Len(c[j].outOf) >= 1 /\ Len(c[j].outOf) \in Nat
        /\ c[j].select \in Nat /\ c[j].select >= 1
    BY <1>1, ListingFacts
  <2>2. /\ Cardinality(FlatPlaces(c, j)) \in Nat /\ Cardinality(NestedPlaces(c, j)) \in Nat
        /\ Cardinality(FlatPlaces(c, j)) + Cardinality(NestedPlaces(c, j)) = Len(c[j].outOf)
    BY <1>1, MemberCount
  <2> QED BY <1>2, <2>1, <2>2
<1>4. IsNestedOf(c, j, h)
  BY <1>1, NestedOf
<1>5. f[j] <=> Cardinality(InList(e, reps)) + Cardinality(HoldInList(h, f)) >= w
  <2> DEFINE u == from_json(c)
  <2>1. u = from_json(c) /\ IsHolds(u, reps, f)
    OBVIOUS
  <2> HIDE DEF u, j
  <2>2. f[j] <=> Cardinality(InList(u[j].elements, reps))
                   + Cardinality(HoldInList(u[j].nestedElements, f)) >= u[j].threshold
    BY <1>1, <2>1, HoldsCount
  <2> QED BY <2>2, Zenon DEF u
<1>6. s1 = [M |-> performInsertion(s.M, V, s.at), L |-> L1, at |-> s.at + Len(e)]
  BY DEF insertNextTheta
<1> HIDE DEF t, e, h, w
<1>7. L \in Seq(Replicas) /\ s.at = m + 1 /\ m \in Nat
  BY DEF SpanInv
<1>8. PICK p, d : IsProgram(c, n, s, p, d) /\ (Accepts(s, p, d, reps, f) <=> f[1])
  BY DEF SpanInv
<1>9. /\ IsPending(c, n, p) /\ d \in Nat /\ d >= 1 /\ s.M \in Matrix(m + Len(p), d)
  BY <1>8 DEF IsProgram
<1>10. Len(p) \in Nat /\ Len(p) >= 1 /\ p[1] = j
  <2>1. Len(p) >= 1 /\ p[1] = n + 1
    BY <1>9, PendingHead
  <2>2. Len(p) \in Nat
    BY <1>9 DEF IsPending
  <2> QED BY <2>1, <2>2
<1> HIDE DEF V, v, m, L
<1> DEFINE l == Len(p)
           k == l - 1
           r == m + 1 + k
           r1 == m + v + k
           q == h \o Tail(p)
           T == TrueRows(L, p, r, reps, f)
           R == TrueRows(L1, q, r1, reps, f)
<1>11. k \in Nat /\ Len(p) = k + 1 /\ r = m + Len(p) /\ r \in Nat /\ m + 1 \in 1..r /\ r + v - 1 = r1
  <2>1. l \in Nat /\ l >= 1 /\ m \in Nat /\ v \in Nat
    BY <1>3, <1>7, <1>10
  <2> HIDE DEF l
  <2>2. k \in Nat /\ l = k + 1 /\ r = m + l /\ r \in Nat /\ m + 1 \in 1..r /\ r + v - 1 = r1
    BY <2>1
  <2> QED BY <2>2 DEF l
<1>12. IsPending(c, j, q) /\ IsNext(q, h, p)
  BY <1>4, <1>9, PendingStep
<1>13. L1 \in Seq(Replicas) /\ IsLabelled(L1, L, e)
  BY <1>2, <1>7, LabelsGrow
<1> HIDE DEF k, l, q, L1
<1>14. Len(L1) = m + Len(e) /\ Len(L1) \in Nat /\ Len(L1) + Len(q) = r1
  <2> DEFINE a == Len(e)
             b == Len(h)
             a1 == Len(L1)
             b1 == Len(q)
  <2>1. a1 = m + a
    BY <1>13 DEF IsLabelled, m
  <2>2. b1 = b + Len(p) - 1
    BY <1>12 DEF IsNext
  <2>3. a \in Nat /\ b \in Nat /\ v = a + b /\ m \in Nat /\ k \in Nat /\ Len(p) = k + 1
    BY <1>3, <1>7, <1>11 DEF v
  <2> HIDE DEF a, b, a1, b1
  <2>4. a1 = m + a /\ a1 \in Nat /\ a1 + b1 = r1
    BY <2>1, <2>2, <2>3
  <2> QED BY <2>4 DEF a, a1, b1
<1>15. s1.L = L1 /\ s1.at = Len(L1) + 1 /\ s1.M = performInsertion(s.M, V, m + 1)
  BY <1>3, <1>6, <1>7, <1>14
<1>16. V \in Matrix(v, w)
  BY <1>3, VandermondeFacts DEF V
<1>17. s1.M \in Matrix(r1, d + w - 1)
  <2> DEFINE a == m + 1
             A == s.M
  <2>1. A \in Matrix(r, d) /\ a \in 1..r
    BY <1>9, <1>11
  <2> HIDE DEF a, r, A
  <2>2. performInsertion(A, V, a) \in Matrix(r + v - 1, d + w - 1)
    BY <1>3, <1>9, <1>11, <1>16, <2>1, InsertionFacts
  <2> QED BY <1>11, <1>15, <2>2 DEF a, A
<1>18. IsInsertion(s1.M, s.M, V, m, v, k, d, w)
  <2> DEFINE A == s.M
             B == s1.M
  <2>1. A \in Matrix(m + 1 + k, d) /\ B = performInsertion(A, V, m + 1)
    BY <1>9, <1>11, <1>15
  <2> HIDE DEF A, B
  <2>2. IsInsertion(B, A, V, m, v, k, d, w)
    BY <1>3, <1>7, <1>9, <1>11, <1>16, <2>1, InsertionEntries
  <2> QED BY <2>2 DEF A, B
<1>19. IsGrown(s1.M, s.M, m, v, k, d, w)
  BY <1>3, <1>7, <1>9, <1>11, <1>17, <1>18 DEF IsGrown, V
<1>20. IsFolded(R, T, m, v, k, w)
  <2>1. f[p[1]] <=> Cardinality(InList(e, reps)) + Cardinality(HoldInList(h, f)) >= w
    BY <1>5, <1>10, Zenon
  <2>2. m = Len(L) /\ v = Len(e) + Len(h) /\ Len(p) = k + 1
    BY <1>11 DEF m, v
  <2>3. T = TrueRows(L, p, m + 1 + k, reps, f) /\ R = TrueRows(L1, q, m + v + k, reps, f)
    OBVIOUS
  <2> HIDE DEF T, R, r, r1
  <2> QED BY <1>3, <1>11, <1>12, <1>13, <2>1, <2>2, <2>3, FoldedRows
<1> HIDE DEF R, T
<1>21. Spans(s.M, m + 1 + k, d, T) <=> Spans(s1.M, m + v + k, d + w - 1, R)
  BY <1>19, <1>20, SpansStep
<1> DEFINE d1 == d + w - 1
<1>22. Accepts(s, p, d, reps, f) <=> Spans(s.M, r, d, T)
  BY <1>11 DEF Accepts, T, m, L
<1>23. Accepts(s1, q, d1, reps, f) <=> Spans(s1.M, r1, d1, R)
  BY <1>14, <1>15 DEF Accepts, R
<1>24. d1 \in Nat /\ d1 >= 1
  BY <1>3, <1>9
<1> HIDE DEF r, r1, d1
<1>25. IsProgram(c, j, s1, q, d1)
  BY <1>12, <1>14, <1>15, <1>17, <1>24 DEF IsProgram, d1
<1>26. Accepts(s1, q, d1, reps, f) <=> f[1]
  BY <1>8, <1>21, <1>22, <1>23, Zenon DEF r, r1, d1
<1>27. s1.L \in Seq(Replicas) /\ s1.at = Len(s1.L) + 1
  BY <1>13, <1>15
<1> HIDE DEF j
<1>28. SpanInv(c, j, s1, reps, f)
  BY <1>25, <1>26, <1>27 DEF SpanInv
<1> QED BY <1>28 DEF j

LEMMA SpanFirst ==
  ASSUME NEW c, IsListing(c), NEW reps, NEW f, IsHolds(from_json(c), reps, f),
         NEW s, s = FirstMsp
  PROVE  SpanInv(c, 0, s, reps, f)
<1> DEFINE M == << <<1>> >>
           p == <<1>>
           T == TrueRows(<< >>, p, 1, reps, f)
<1>1. s.M = M /\ s.L = << >> /\ s.at = 1
  BY DEF FirstMsp
<1>2. M \in Matrix(1, 1)
  <2>1. \A i \in 1..1 : i = 1
    OBVIOUS
  <2>2. <<1>> \in [1..1 -> Field]
    BY <2>1, ModulusFacts
  <2> QED BY <2>1, <2>2 DEF Matrix
<1>3. IsPending(c, 0, p) /\ Len(p) = 1 /\ p[1] = 1 /\ Len(<< >>) = 0
  BY PendingFirst
<1>4. M[1][1] = 1
  OBVIOUS
<1>5. 1 \in T <=> f[1]
  <2> DEFINE L == << >>
             k == 1
  <2>1. Len(L) \in Nat /\ k \in Nat /\ k = Len(L) + k /\ T = TrueRows(L, p, k, reps, f) /\ Len(L) + k = k
        /\ k \in 1..k
    OBVIOUS
  <2> HIDE DEF L, k, T, p
  <2>2. AreRows(T, L, p, k, reps, f)
    BY <2>1, TrueRowFacts
  <2>3. Len(L) + k \in T <=> f[p[k]]
    BY <2>1, <2>2, Zenon DEF AreRows
  <2>4. k \in T <=> f[p[k]]
    BY <2>1, <2>3, Zenon
  <2>5. p[k] = 1 /\ k = 1
    BY <1>3 DEF k
  <2> QED BY <2>4, <2>5, Zenon
<1> HIDE DEF M, p, T
<1>6. \A x : ColumnSum(x, M, 1, 1) = Total([j \in 1..1 |-> x[j] * M[j][1]], 1)
  BY DEF ColumnSum
<1>7. ASSUME NEW x, IsIntVector(x, 1) PROVE ColumnSum(x, M, 1, 1) = x[1]
  <2> DEFINE g == [j \in 1..1 |-> x[j] * M[j][1]]
  <2>1. 1 \in 1..1
    OBVIOUS
  <2>2. x[1] \in Int
    BY <1>7, <2>1 DEF IsIntVector
  <2>3. g[1] = x[1]
    BY <1>4, <2>1, <2>2
  <2>4. \A j \in 1..1 : g[j] \in Int
    BY <2>2, <2>3
  <2> HIDE DEF g
  <2>5. Total(g, 0) = 0 /\ Total(g, 1) = Total(g, 0) + g[1]
    BY <2>4, TotalStep
  <2>6. Total(g, 1) = x[1]
    BY <2>2, <2>3, <2>5
  <2> QED BY <1>6, <2>6 DEF g
<1>8. ASSUME f[1] PROVE Spans(M, 1, 1, T)
  <2> DEFINE x == [j \in 1..1 |-> 1]
  <2>1. IsIntVector(x, 1) /\ x[1] = 1
    BY DEF IsIntVector
  <2> HIDE DEF x
  <2>2. ColumnSum(x, M, 1, 1) = 1
    BY <1>7, <2>1
  <2>3. Congruent(1, 1)
    BY CongruentRefl
  <2>4. \A q \in 1..1 : Congruent(ColumnSum(x, M, 1, q), IF q = 1 THEN 1 ELSE 0)
    <3>1. \A q \in 1..1 : q = 1
      OBVIOUS
    <3> QED BY <2>2, <2>3, <3>1
  <2>5. 1 \in T
    BY <1>5, <1>8
  <2>6. IsOutsideZero(x, T, 1)
    <3>1. \A j \in 1..1 : j = 1
      OBVIOUS
    <3> QED BY <2>5, <3>1 DEF IsOutsideZero
  <2>7. SpansWith(x, M, 1, 1, T)
    BY <2>1, <2>4, <2>6 DEF SpansWith
  <2> QED BY <2>7 DEF Spans
<1>9. ASSUME Spans(M, 1, 1, T) PROVE f[1]
  <2>1. PICK x : SpansWith(x, M, 1, 1, T)
    BY <1>9 DEF Spans
  <2>2. /\ IsIntVector(x, 1) /\ IsOutsideZero(x, T, 1) /\ 1 \in 1..1
        /\ Congruent(ColumnSum(x, M, 1, 1), 1)
    <3>1. 1 \in 1..1
      OBVIOUS
    <3> QED BY <2>1, <3>1 DEF SpansWith
  <2>3. Congruent(x[1], 1)
    BY <1>7, <2>2
  <2>4. x[1] # 0
    <3> SUFFICES ASSUME x[1] = 0 PROVE FALSE
      OBVIOUS
    <3>1. PICK k \in Int : 0 = 1 + P * k
      BY <2>3 DEF Congruent
    <3>2. P \in Nat /\ P > 1
      BY ModulusFacts
    <3>3. P * (-k) = 1 /\ -k \in Int
      BY <3>1, <3>2
    <3> DEFINE b == -k
    <3>4. b \in Int /\ P * b = 1
      BY <3>3
    <3> HIDE DEF b
    <3>5. b >= 1 \/ b <= 0
      BY <3>4
    <3>6. CASE b >= 1
      BY <3>2, <3>4, <3>6
    <3>7. CASE b <= 0
      BY <3>2, <3>4, <3>7
    <3> QED BY <3>5, <3>6, <3>7
  <2>5. 1 \in T
    BY <2>2, <2>4 DEF IsOutsideZero
  <2> QED BY <1>5, <2>5
<1>10. Spans(M, 1, 1, T) <=> f[1]
  BY <1>8, <1>9
<1>11. Len(s.L) + Len(p) = 1
  BY <1>1, <1>3
<1>12. Accepts(s, p, 1, reps, f) <=> f[1]
  BY <1>1, <1>10, <1>11 DEF Accepts, T
<1>13. IsProgram(c, 0, s, p, 1)
  BY <1>1, <1>2, <1>3, <1>11 DEF IsProgram
<1>14. s.L \in Seq(Replicas) /\ s.at = Len(s.L) + 1
  BY <1>1
<1>15. SpanInv(c, 0, s, reps, f)
  BY <1>12, <1>13, <1>14 DEF SpanInv
<1> QED BY <1>15

\* The rows that reps own.
RowsOf(L, r, reps) == {i \in 1..r : L[i] \in reps}

\* The matrix of a configuration accepts a group exactly when the configuration does.
LEMMA MspSpans ==
  ASSUME NEW c, IsListing(c), \A n \in DOMAIN c : Len(c[n].outOf) < P, NEW reps,
         NEW msp, msp = createMspWithInsertionAlgorithm(from_json(c)),
         NEW r \in Nat, NEW d \in Nat, r >= 1, msp.M \in Matrix(r, d), Len(msp.L) = r
  PROVE  Spans(msp.M, r, d, RowsOf(msp.L, r, reps)) <=> evalFomula(from_json(c), reps)
<1> DEFINE N == Len(c)
           t == from_json(c)
           s == CHOOSE u : IsBuild(t, N, u)
           f == CHOOSE g : IsHolds(t, reps, g)
<1>1. N \in Nat /\ N >= 1 /\ Len(t) = N /\ DOMAIN c = 1..N
  BY ListingFacts, ParsedFacts
<1>2. IsBuild(t, N, s)
  <2>1. \E u : IsBuild(t, N, u)
    BY <1>1, BuildExists
  <2> QED BY <2>1
<1>3. msp = s[N]
  <2> HIDE DEF t
  <2>1. createMspWithInsertionAlgorithm(t) = s[N]
    BY <1>1 DEF createMspWithInsertionAlgorithm, IsBuild, FirstMsp
  <2> QED BY <2>1 DEF t
<1>4. IsHolds(t, reps, f)
  <2>1. \E g : IsMet(c, reps, g)
    BY MetExists
  <2>2. \A g : IsHolds(t, reps, g) <=> IsMet(c, reps, g)
    BY HoldsIsMet
  <2> QED BY <2>1, <2>2
<1>5. evalFomula(t, reps) <=> f[1]
  <2> HIDE DEF t
  <2> QED BY DEF evalFomula, IsHolds
<1> HIDE DEF s, f
<1> DEFINE S == {n \in Nat : n \in 0..N => SpanInv(c, n, s[n], reps, f)}
<1>6. 0 \in S
  <2> DEFINE u == s[0]
  <2>1. u = FirstMsp
    BY <1>1, <1>2 DEF IsBuild
  <2> HIDE DEF u
  <2>2. SpanInv(c, 0, u, reps, f)
    BY <1>4, <2>1, SpanFirst
  <2> QED BY <2>2 DEF u
<1>7. ASSUME NEW n \in Nat, n \in S PROVE n + 1 \in S
  <2> SUFFICES ASSUME n + 1 \in 0..N PROVE SpanInv(c, n + 1, s[n + 1], reps, f)
    OBVIOUS
  <2> DEFINE u == s[n]
             z == s[n + 1]
  <2>1. n \in 0..(N - 1) /\ n + 1 \in DOMAIN c /\ SpanInv(c, n, u, reps, f)
    BY <1>1, <1>7
  <2>2. z = insertNextTheta(u, t[n + 1])
    BY <1>1, <1>2 DEF IsBuild
  <2>3. Len(c[n + 1].outOf) < P
    BY <2>1
  <2> HIDE DEF u, z
  <2>4. SpanInv(c, n + 1, z, reps, f)
    BY <1>4, <2>1, <2>2, <2>3, SpanStep
  <2> QED BY <2>4 DEF z
<1> HIDE DEF S
<1>8. \A n \in Nat : n \in S
  BY <1>6, <1>7, InductionOnNat
<1>9. SpanInv(c, N, msp, reps, f)
  BY <1>1, <1>3, <1>8 DEF S
<1>10. PICK p, e : IsProgram(c, N, msp, p, e) /\ (Accepts(msp, p, e, reps, f) <=> f[1])
  BY <1>9 DEF SpanInv
<1>11. Len(p) \in Nat /\ \A i \in 1..Len(p) : p[i] \in (N + 1)..Len(c)
  BY <1>10 DEF IsProgram, IsPending
<1>12. Len(p) = 0
  <2> SUFFICES ASSUME Len(p) # 0 PROVE FALSE
    OBVIOUS
  <2>1. 1 \in 1..Len(p)
    BY <1>11
  <2>2. p[1] \in (N + 1)..N
    BY <1>11, <2>1
  <2> QED BY <1>1, <2>2
<1> DEFINE L == msp.L
<1>13. Len(L) + Len(p) = r
  BY <1>12
<1> HIDE DEF L
<1>14. e = d
  <2>1. msp.M \in Matrix(r, e)
    BY <1>10, <1>13 DEF IsProgram, L
  <2>2. 1 \in 1..r
    OBVIOUS
  <2>3. msp.M[1] \in [1..e -> Field] /\ msp.M[1] \in [1..d -> Field]
    BY <2>1, <2>2 DEF Matrix
  <2> DEFINE z == msp.M[1]
  <2>4. z \in [1..e -> Field] /\ z \in [1..d -> Field]
    BY <2>3
  <2> HIDE DEF z
  <2>5. e \in Nat
    BY <1>10 DEF IsProgram
  <2>6. Len(z) = e /\ Len(z) = d
    BY <2>4, <2>5, FunctionIsSeq
  <2> QED BY <2>6
<1>15. Accepts(msp, p, e, reps, f) <=> Spans(msp.M, r, d, TrueRows(L, p, r, reps, f))
  BY <1>13, <1>14 DEF Accepts, L
<1>16. TrueRows(L, p, r, reps, f) = RowsOf(L, r, reps)
  <2>1. Len(L) = r
    BY DEF L
  <2>2. \A i \in 1..r : i <= Len(L)
    BY <2>1
  <2> QED BY <2>2 DEF TrueRows, RowsOf
<1> QED BY <1>5, <1>10, <1>15, <1>16, Zenon DEF L, t

-----------------------------------------------------------------------------
(* A group can make a certificate exactly when the configuration accepts it. *)

\* A sum of which only the terms in S count.
GatheredSum(f, a) == Total([i \in 1..Len(a) |-> f[a[i]]], Len(a))

LEMMA TotalGathered ==
  ASSUME NEW f, NEW n \in Nat, NEW S, IsIntVector(f, n), IsOutsideZero(f, S, n)
  PROVE  Total(f, n) = GatheredSum(f, Ascending(S, n))
<1> DEFINE a(m) == Ascending(S, m)
           g(m) == [i \in 1..Len(a(m)) |-> f[a(m)[i]]]
           Z == {m \in Nat : m \in 0..n => Total(f, m) = Total(g(m), Len(a(m)))}
<1>1. /\ a(0) = << >> /\ \A m \in Nat : a(m + 1) = Longer(S, a(m), m + 1)
  BY AscendingStep
<1>2. \A m \in Nat : a(m) \in Seq(1..m)
  BY AscendingFacts
<1>3. /\ Total(f, 0) = 0 /\ \A m \in Nat : Total(f, m + 1) = Total(f, m) + f[m + 1]
  BY TotalStep
<1>4. \A m \in 0..n : Total(f, m) \in Int
  BY TotalInt DEF IsIntVector
<1> HIDE DEF a
<1>5. 0 \in Z
  <2>1. Len(a(0)) = 0
    BY <1>1
  <2>2. Total(g(0), 0) = 0
    BY TotalStep
  <2> HIDE DEF g
  <2> QED BY <1>3, <2>1, <2>2
<1>6. ASSUME NEW m \in Nat, m \in Z PROVE m + 1 \in Z
  <2> SUFFICES ASSUME m + 1 \in 0..n PROVE Total(f, m + 1) = Total(g(m + 1), Len(a(m + 1)))
    OBVIOUS
  <2> DEFINE j == m + 1
             u == a(m)
             z == a(j)
             l == Len(u)
  <2>1. m \in 0..n /\ Total(f, m) = Total(g(m), l)
    BY <1>6
  <2>2. Total(f, j) = Total(f, m) + f[j] /\ Total(f, m) \in Int /\ j \in 1..n /\ j \in Nat
    BY <1>3, <1>4, <2>1
  <2>3. z = Longer(S, u, j)
    BY <1>1
  <2>4. CASE j \notin S
    <3>1. f[j] = 0
      BY <2>2, <2>4 DEF IsOutsideZero
    <3>2. z = u
      BY <2>3, <2>4 DEF Longer
    <3>3. g(j) = g(m) /\ Len(z) = l
      BY <3>2
    <3> HIDE DEF g, j, l, u, z
    <3>4. Total(f, j) = Total(g(j), Len(z))
      BY <2>1, <2>2, <3>1, <3>3
    <3> QED BY <3>4 DEF j, z
  <2>5. CASE j \in S
    <3>1. z = Append(u, j)
      BY <2>3, <2>5 DEF Longer
    <3>2. u \in Seq(Nat)
      <4>1. u \in Seq(1..m)
        BY <1>2
      <4> DEFINE A == 1..m
                 B == Nat
      <4>2. u \in Seq(A) /\ A \subseteq B
        BY <4>1
      <4> HIDE DEF A, B, u
      <4>3. u \in Seq(B)
        BY <4>2
      <4> QED BY <4>3 DEF B
    <3>3. l \in Nat /\ Len(z) = l + 1 /\ z[l + 1] = j /\ \A i \in 1..l : z[i] = u[i]
      <4> HIDE DEF u, z, j
      <4>1. /\ Append(u, j) \in Seq(Nat) /\ Len(Append(u, j)) = Len(u) + 1
            /\ Append(u, j)[Len(u) + 1] = j /\ \A i \in 1..Len(u) : Append(u, j)[i] = u[i]
        BY <2>2, <3>2, AppendProperties
      <4> QED BY <3>1, <3>2, <4>1
    <3> DEFINE G == g(m)
               H == g(j)
    <3>4. H[l + 1] = f[j] /\ \A i \in 1..l : H[i] = G[i]
      <4> HIDE DEF u, z, j
      <4>1. G = [i \in 1..l |-> f[u[i]]]
        BY DEF u
      <4>2. H = [i \in 1..Len(z) |-> f[z[i]]]
        BY DEF z
      <4> HIDE DEF G, H, l
      <4>3. l + 1 \in 1..Len(z) /\ \A i \in 1..l : i \in 1..Len(z)
        BY <3>3
      <4> QED BY <3>3, <4>1, <4>2, <4>3
    <3> HIDE DEF G, H, g, l, u, z, j
    <3>5. Total(H, l) = Total(G, l)
      BY <3>3, <3>4, TotalEqual
    <3>6. Total(H, l + 1) = Total(H, l) + H[l + 1]
      BY <3>3, TotalStep
    <3>7. Total(f, m) = Total(G, l)
      BY <2>1 DEF G
    <3>8. Total(f, j) = Total(H, Len(z))
      BY <2>2, <3>3, <3>4, <3>5, <3>6, <3>7
    <3> QED BY <3>8 DEF H, z, j
  <2> QED BY <2>4, <2>5
<1> HIDE DEF Z
<1>7. \A m \in Nat : m \in Z
  BY <1>5, <1>6, InductionOnNat
<1>8. Total(f, n) = Total(g(n), Len(a(n)))
  BY <1>7 DEF Z
<1> QED BY <1>8 DEF a, GatheredSum

\* Weights of the rows, and the same weights at the places of the owned rows.
AreWeights(y, x, a, r, reps) ==
  /\ IsIntVector(y, r) /\ IsOutsideZero(y, RowsOf(a.L, r, reps), r)
  /\ \A i \in 1..Len(Owned(a, reps)) : x[i] = y[Owned(a, reps)[i]]

IsColumn(y, x, a, r, d, reps, q) ==
  ColumnSum(y, a.M, r, q) = Pair(OwnedRows(a, d, reps)[q], x, Len(Owned(a, reps)))

LEMMA GatheredColumn ==
  ASSUME NEW a, NEW r, NEW d, IsStructure(a, r, d), NEW reps, NEW y, NEW x,
         AreWeights(y, x, a, r, reps), NEW q \in 1..d
  PROVE  IsColumn(y, x, a, r, d, reps, q)
<1> DEFINE own == Owned(a, reps)
           k == Len(own)
           T == RowsOf(a.L, r, reps)
           f == [j \in 1..r |-> y[j] * a.M[j][q]]
           b == OwnedRows(a, d, reps)[q]
           g == [i \in 1..k |-> f[own[i]]]
<1>1. /\ r \in Nat /\ d \in Nat /\ r >= 1 /\ a.M \in Matrix(r, d)
  BY DEF IsStructure
<1>2. own = Ascending(T, r) /\ k \in Nat /\ \A i \in 1..k : own[i] \in 1..r
  <2>1. Owned(a, reps) = Ascending({j \in 1..r : a.L[j] \in reps}, r)
    BY OwnedFacts
  <2>2. Len(Owned(a, reps)) \in Nat /\ Owned(a, reps) \in [1..Len(Owned(a, reps)) -> 1..r]
    BY OwnedFacts
  <2> QED BY <2>1, <2>2 DEF RowsOf
<1>3. /\ IsIntVector(y, r) /\ IsOutsideZero(y, T, r) /\ \A i \in 1..k : x[i] = y[own[i]]
  BY DEF AreWeights
<1>4. \A j \in 1..r : a.M[j][q] \in Int
  <2>1. \A j \in 1..r : a.M[j][q] \in Field
    BY <1>1 DEF Matrix
  <2> QED BY <2>1, FieldInt
<1>5. \A i \in 1..k : b[i] = a.M[own[i]][q]
  <2>1. Transpose(a.M)[q] = [i \in 1..r |-> a.M[i][q]]
    <3>1. DOMAIN a.M = 1..r /\ a.M[1] \in [1..d -> Field]
      BY <1>1 DEF Matrix
    <3> DEFINE M == a.M
    <3>2. DOMAIN M[1] = 1..d /\ DOMAIN M = 1..r
      BY <3>1
    <3> HIDE DEF M
    <3>3. Transpose(M)[q] = [i \in 1..r |-> M[i][q]]
      BY <3>2 DEF Transpose
    <3> QED BY <3>3 DEF M
  <2> DEFINE U == Transpose(a.M)
             M == a.M
  <2>2. U[q] = [i \in 1..r |-> M[i][q]]
    BY <2>1
  <2>3. b = [j \in 1..k |-> U[q][own[j]]]
    BY DEF OwnedRows, Columns
  <2> HIDE DEF U, M, b
  <2> QED BY <1>2, <2>2, <2>3 DEF M
<1> HIDE DEF T, b
<1>6. IsIntVector(f, r) /\ IsOutsideZero(f, T, r)
  <2>1. \A j \in 1..r : y[j] \in Int /\ (j \notin T => y[j] = 0)
    BY <1>3 DEF IsIntVector, IsOutsideZero
  <2>2. \A u, v \in Int : u * v \in Int /\ 0 * v = 0
    BY IntTimes
  <2>3. \A j \in 1..r : f[j] = y[j] * a.M[j][q]
    OBVIOUS
  <2> HIDE DEF f
  <2>4. \A j \in 1..r : f[j] \in Int /\ (j \notin T => f[j] = 0)
    BY <1>4, <2>1, <2>2, <2>3
  <2> QED BY <2>4 DEF IsIntVector, IsOutsideZero
<1>7. Total(f, r) = Total(g, k)
  <2>1. Total(f, r) = GatheredSum(f, Ascending(T, r))
    <3> HIDE DEF f
    <3> QED BY <1>1, <1>6, TotalGathered
  <2> QED BY <1>2, <2>1 DEF GatheredSum
<1>8. \A i \in 1..k : g[i] = Products(b, x, k)[i]
  <2> SUFFICES ASSUME NEW i \in 1..k PROVE g[i] = Products(b, x, k)[i]
    OBVIOUS
  <2> DEFINE o == own[i]
             u == y[o]
             v == a.M[o][q]
  <2>1. o \in 1..r /\ x[i] = u /\ b[i] = v
    BY <1>2, <1>3, <1>5
  <2>2. g[i] = u * v
    BY <2>1
  <2>3. u \in Int /\ v \in Int
    BY <1>3, <1>4, <2>1 DEF IsIntVector
  <2>4. Products(b, x, k)[i] = v * u
    BY <2>1 DEF Products
  <2> HIDE DEF u, v, g
  <2>5. u * v = v * u
    BY <2>3
  <2> QED BY <2>2, <2>4, <2>5
<1> HIDE DEF f, g
<1>9. Total(g, k) = Total(Products(b, x, k), k)
  <2> DEFINE h == Products(b, x, k)
  <2>1. \A i \in 1..k : g[i] = h[i]
    BY <1>8
  <2> HIDE DEF h
  <2>2. Total(g, k) = Total(h, k)
    BY <1>2, <2>1, TotalEqual
  <2> QED BY <2>2 DEF h
<1> QED BY <1>7, <1>9 DEF IsColumn, ColumnSum, Pair, b, f

\* An owned row has one place.
LEMMA OwnedOnce ==
  ASSUME NEW a, NEW r, NEW d, IsStructure(a, r, d), NEW reps, NEW own, own = Owned(a, reps),
         NEW i \in 1..Len(own), NEW j \in 1..Len(own), own[i] = own[j]
  PROVE  i = j
<1> DEFINE T == {l \in 1..r : a.L[l] \in reps}
<1>1. r \in Nat /\ own = Ascending(T, r) /\ Len(own) \in Nat /\ own \in [1..Len(own) -> 1..r]
  <2>1. r \in Nat
    BY DEF IsStructure
  <2> QED BY <2>1, OwnedFacts
<1>2. \A u, v \in 1..Len(own) : u < v => own[u] < own[v]
  <2> HIDE DEF T
  <2>1. \A u, v \in 1..Len(Ascending(T, r)) : u < v => Ascending(T, r)[u] < Ascending(T, r)[v]
    BY <1>1, AscendingFacts
  <2> QED BY <1>1, <2>1
<1>3. own[i] \in Int /\ own[j] \in Int /\ i \in Int /\ j \in Int
  <2>1. own[i] \in 1..r /\ own[j] \in 1..r
    BY <1>1
  <2> QED BY <1>1, <2>1
<1>4. ~(i < j) /\ ~(j < i)
  BY <1>2, <1>3
<1> QED BY <1>3, <1>4

LEMMA UnitVector ==
  ASSUME NEW d \in Nat, NEW q \in 1..d
  PROVE  e1(d)[q] = IF q = 1 THEN 1 ELSE 0
BY DEF e1

\* The rows that reps own span the first unit vector exactly when their columns have
\* a solution for it.
LEMMA SolutionOfSpan ==
  ASSUME NEW a, NEW r, NEW d, IsStructure(a, r, d), NEW reps, NEW k, k = Len(Owned(a, reps)),
         NEW A, A = OwnedRows(a, d, reps), Spans(a.M, r, d, RowsOf(a.L, r, reps))
  PROVE  \E x : IsIntVector(x, k) /\ IsSolution(A, x, e1(d), d, k)
<1> DEFINE own == Owned(a, reps)
           T == RowsOf(a.L, r, reps)
<1>1. PICK y : SpansWith(y, a.M, r, d, T)
  BY DEF Spans
<1> DEFINE x == [i \in 1..k |-> y[own[i]]]
<1>2. \A i \in 1..k : own[i] \in 1..r
  <2>1. own \in [1..Len(own) -> 1..r]
    BY OwnedFacts
  <2> HIDE DEF own
  <2> QED BY <2>1 DEF own
<1>3. d \in Nat
  BY DEF IsStructure
<1>4. IsIntVector(y, r) /\ IsOutsideZero(y, T, r)
      /\ \A q \in 1..d : Congruent(ColumnSum(y, a.M, r, q), IF q = 1 THEN 1 ELSE 0)
  BY <1>1 DEF SpansWith
<1>6. AreWeights(y, x, a, r, reps)
  <2>1. \A i \in 1..k : x[i] = y[own[i]]
    OBVIOUS
  <2> HIDE DEF x
  <2> QED BY <1>4, <2>1 DEF AreWeights
<1> HIDE DEF own
<1>5. IsIntVector(x, k)
  BY <1>2, <1>4 DEF IsIntVector
<1> HIDE DEF x
<1>7. ASSUME NEW q \in 1..d PROVE Congruent(Pair(A[q], x, k), e1(d)[q])
  <2>1. ColumnSum(y, a.M, r, q) = Pair(OwnedRows(a, d, reps)[q], x, k)
    <3>1. IsColumn(y, x, a, r, d, reps, q)
      BY <1>6, GatheredColumn
    <3> QED BY <3>1 DEF IsColumn
  <2>2. e1(d)[q] = IF q = 1 THEN 1 ELSE 0
    BY <1>3, UnitVector
  <2> QED BY <1>4, <2>1, <2>2
<1> QED BY <1>5, <1>7 DEF IsSolution

LEMMA SpanOfSolution ==
  ASSUME NEW a, NEW r, NEW d, IsStructure(a, r, d), NEW reps, NEW k, k = Len(Owned(a, reps)),
         NEW A, A = OwnedRows(a, d, reps), NEW x, IsIntVector(x, k), IsSolution(A, x, e1(d), d, k)
  PROVE  Spans(a.M, r, d, RowsOf(a.L, r, reps))
<1> DEFINE own == Owned(a, reps)
           T == RowsOf(a.L, r, reps)
           at(i) == CHOOSE j \in 1..k : own[j] = i
           y == [i \in 1..r |-> IF i \in T THEN x[at(i)] ELSE 0]
<1>1. /\ \A i \in 1..k : own[i] \in 1..r /\ a.L[own[i]] \in reps
      /\ \A i \in 1..r : a.L[i] \in reps => \E j \in 1..k : own[j] = i
  <2>1. own \in [1..Len(own) -> 1..r]
    BY OwnedFacts
  <2>2. ASSUME NEW j \in 1..Len(own) PROVE a.L[own[j]] \in reps
    BY OwnedFacts
  <2>3. ASSUME NEW i \in 1..r, a.L[i] \in reps PROVE \E j \in 1..Len(own) : own[j] = i
    <3> DEFINE S == {j \in 1..r : a.L[j] \in reps}
    <3>1. own = Ascending(S, r) /\ r \in Nat
      BY OwnedFacts DEF IsStructure
    <3>2. i \in S \cap (1..r)
      BY <2>3
    <3> HIDE DEF S, own
    <3>3. /\ Cardinality(S \cap (1..i)) \in 1..Len(Ascending(S, r))
          /\ Ascending(S, r)[Cardinality(S \cap (1..i))] = i
      BY <3>1, <3>2, AscendingFacts
    <3> QED BY <3>1, <3>3
  <2>4. k = Len(own)
    OBVIOUS
  <2> HIDE DEF own
  <2> QED BY <2>1, <2>2, <2>3, <2>4
<1>2. own = Owned(a, reps) /\ k = Len(own)
  OBVIOUS
<1> HIDE DEF own
<1>3. \A i \in 1..k : own[i] \in T
  BY <1>1 DEF RowsOf
<1>4. \A i \in T : i \in 1..r /\ at(i) \in 1..k /\ own[at(i)] = i
  <2>1. \A i \in T : i \in 1..r /\ \E j \in 1..k : own[j] = i
    BY <1>1 DEF RowsOf
  <2> QED BY <2>1
<1>5. ASSUME NEW i \in 1..k PROVE at(own[i]) = i
  <2> DEFINE j == at(own[i])
  <2>1. j \in 1..k /\ own[j] = own[i]
    BY <1>3, <1>4
  <2> HIDE DEF j
  <2>2. j = i
    BY <1>2, <2>1, OwnedOnce
  <2> QED BY <2>2 DEF j
<1> HIDE DEF at, T
<1>6. IsIntVector(y, r) /\ IsOutsideZero(y, T, r)
  <2>1. \A i \in T : x[at(i)] \in Int
    BY <1>4 DEF IsIntVector
  <2> QED BY <2>1 DEF IsIntVector, IsOutsideZero
<1>7. \A i \in 1..k : x[i] = y[own[i]]
  <2> SUFFICES ASSUME NEW i \in 1..k PROVE x[i] = y[own[i]]
    OBVIOUS
  <2> DEFINE o == own[i]
  <2>1. o \in 1..r /\ o \in T /\ at(o) = i
    BY <1>1, <1>3, <1>5
  <2> HIDE DEF o
  <2>2. y[o] = x[i]
    BY <2>1
  <2> QED BY <2>2 DEF o
<1> HIDE DEF y
<1>8. AreWeights(y, x, a, r, reps)
  <2>1. \A i \in 1..Len(Owned(a, reps)) : x[i] = y[Owned(a, reps)[i]]
    BY <1>2, <1>7
  <2> QED BY <1>6, <2>1 DEF AreWeights, T
<1>9. d \in Nat
  BY DEF IsStructure
<1>10. ASSUME NEW q \in 1..d PROVE Congruent(ColumnSum(y, a.M, r, q), IF q = 1 THEN 1 ELSE 0)
  <2>1. ColumnSum(y, a.M, r, q) = Pair(OwnedRows(a, d, reps)[q], x, k)
    <3>1. IsColumn(y, x, a, r, d, reps, q)
      BY <1>8, GatheredColumn
    <3> QED BY <3>1 DEF IsColumn
  <2>2. e1(d)[q] = IF q = 1 THEN 1 ELSE 0
    BY <1>9, UnitVector
  <2>3. Congruent(Pair(A[q], x, k), e1(d)[q])
    BY DEF IsSolution
  <2> QED BY <2>1, <2>2, <2>3
<1>11. SpansWith(y, a.M, r, d, T)
  BY <1>6, <1>10 DEF SpansWith
<1> QED BY <1>11 DEF Spans, T

LEMMA AuthorizedIsSatisfied ==
  ASSUME NEW c \in Confs, NEW a, a = initialize(c), NEW reps,
         \A n \in DOMAIN c.quorum : Len(c.quorum[n].outOf) < P
  PROVE  isAuthorizedGroupWithPLU(a, reps) <=> Satisfied(c.quorum, reps)
<1> DEFINE k == Len(Owned(a, reps))
           x == getRecombinationVector(a, reps)
<1>1. PICK r \in Nat, d \in Nat : IsStructure(a, r, d)
  BY StructureOf
<1> DEFINE A == OwnedRows(a, d, reps)
           T == RowsOf(a.L, r, reps)
<1>2. isAuthorizedGroupWithPLU(a, reps) => x \in [1..k -> Field] /\ IsSolution(A, x, e1(d), d, k)
  BY <1>1, Recombination
<1>3. \A z : IsIntVector(z, k) /\ IsSolution(A, z, e1(d), d, k) => isAuthorizedGroupWithPLU(a, reps)
  BY <1>1, Recombination
<1>4. k = Len(Owned(a, reps)) /\ A = OwnedRows(a, d, reps)
  OBVIOUS
<1> HIDE DEF k, x, A
<1>5. ASSUME isAuthorizedGroupWithPLU(a, reps) PROVE Spans(a.M, r, d, T)
  <2>1. IsIntVector(x, k) /\ IsSolution(A, x, e1(d), d, k)
    BY <1>2, <1>5, FieldInt DEF IsIntVector
  <2> QED BY <1>1, <1>4, <2>1, SpanOfSolution
<1>6. ASSUME Spans(a.M, r, d, T) PROVE isAuthorizedGroupWithPLU(a, reps)
  <2>1. \E z : IsIntVector(z, k) /\ IsSolution(A, z, e1(d), d, k)
    BY <1>1, <1>4, <1>6, SolutionOfSpan
  <2> QED BY <1>3, <2>1
<1>7. Spans(a.M, r, d, T) <=> Satisfied(c.quorum, reps)
  <2> DEFINE u == c.quorum
             msp == createMspWithInsertionAlgorithm(from_json(u))
  <2>1. IsListing(u) /\ \A n \in DOMAIN u : Len(u[n].outOf) < P
    BY ConfAssumption
  <2>2. a.M = msp.M /\ a.L = msp.L
    BY StructureOf
  <2>3. r >= 1 /\ msp.M \in Matrix(r, d) /\ Len(msp.L) = r
    BY <1>1, <2>2 DEF IsStructure
  <2>4. msp = createMspWithInsertionAlgorithm(from_json(u))
    OBVIOUS
  <2> HIDE DEF u, msp
  <2>5. Spans(msp.M, r, d, RowsOf(msp.L, r, reps)) <=> evalFomula(from_json(u), reps)
    BY <1>1, <2>1, <2>3, <2>4, MspSpans
  <2>6. evalFomula(from_json(u), reps) <=> Satisfied(u, reps)
    BY <2>1, EvalIsSatisfied
  <2> QED BY <2>2, <2>5, <2>6 DEF u
<1> QED BY <1>5, <1>6, <1>7

\* The members of a formula get points of the field that differ, and none gets 0
\* (getVandermonde counts the points and the field reduces them).  The order of the
\* curve's group has 255 bits; where it is not the modulus 101 is.
PointsDiffer == \A n \in DOMAIN conf.quorum : Len(conf.quorum[n].outOf) < P

\* The span program accepts a group of voters exactly when the configuration does, for
\* every tree of thresholds: the group's rows of the matrix that insertNextTheta grew
\* have a combination for the secret when enough members of every formula are there,
\* and none when one is short of its threshold.
THEOREM AuthorizedIffConf ==
  Spec => [](PointsDiffer =>
               (isAuthorizedGroupWithPLU(acc, voted) <=> Satisfied(conf.quorum, voted)))
<1>1. AccInv => (PointsDiffer =>
                   (isAuthorizedGroupWithPLU(acc, voted) <=> Satisfied(conf.quorum, voted)))
  <2> SUFFICES ASSUME AccInv, PointsDiffer
               PROVE  isAuthorizedGroupWithPLU(acc, voted) <=> Satisfied(conf.quorum, voted)
    OBVIOUS
  <2> DEFINE c == conf
             a == acc
             reps == voted
  <2>1. c \in Confs /\ a = initialize(c) /\ \A n \in DOMAIN c.quorum : Len(c.quorum[n].outOf) < P
    BY DEF AccInv, PointsDiffer
  <2> HIDE DEF c, a, reps
  <2>2. isAuthorizedGroupWithPLU(a, reps) <=> Satisfied(c.quorum, reps)
    BY <2>1, AuthorizedIsSatisfied
  <2> QED BY <2>2 DEF c, a, reps
<1> QED BY <1>1, AccInvHolds, PTL

\* "the thresh. sig. will be valid iff a quorum has signed" (crypto.cpp:86): with
\* generalized quorums a group can make a certificate exactly when it is a quorum.
THEOREM CertIffQuorumHolds == Spec => [](PointsDiffer => CertIffQuorum)
<1>1. /\ QuorumIsConf
      /\ PointsDiffer => (isAuthorizedGroupWithPLU(acc, voted) <=> Satisfied(conf.quorum, voted))
      => (PointsDiffer => CertIffQuorum)
  BY DEF QuorumIsConf, CertIffQuorum
<1> QED BY <1>1, QuorumIsConfHolds, AuthorizedIffConf, PTL

\* Without generalized quorums a quorum has at least as many votes as the key generator
\* asks for, and their parts are values of its polynomial at points that differ.
LEMMA ThresholdCert ==
  ASSUME AccInv, CertInv, PointsDiffer, ~conf.generalized
  PROVE  CertVerifies
<1> SUFFICES ASSUME evalFomula(acc.formula, voted) PROVE cert = Coins[1]
  BY DEF CertVerifies
<1> DEFINE n == nreplicas
           k == QuorumSize(n)
           l == KeyThreshold(n)
           s == [q \in 1..n |-> parts[q][1]]
           f == [i \in 1..n |-> IF i \in voted THEN Weight(voted, i, n) * parts[i][1] ELSE 0]
<1>1. conf \in Confs /\ acc.formula = from_json(conf.quorum)
  BY InitializeFacts DEF AccInv
<1>2. /\ n \in Nat /\ n >= 1 /\ Replicas = 1..n /\ conf.quorum = ThresholdConf(k, n)
      /\ l <= Len(Coins) /\ Coins \in Seq(Field)
  <2>1. n \in Nat \ {0} /\ Replicas = 1..n /\ conf.quorum = ThresholdConf(k, n)
    BY <1>1, BuildAssumption
  <2>2. l <= Len(Coins) /\ Coins \in Seq(Field)
    BY <1>1, CoinsAssumption
  <2> HIDE DEF n, k, l
  <2> QED BY <2>1, <2>2
<1>3. \A q \in 1..n : parts[q] = <<share(l, q)>>
  BY <1>2 DEF CertInv
<1>4. cert = Total(f, n) % P
  BY DEF CertInv, compute, recoverThreshSig
<1>5. voted \subseteq 1..n
  BY <1>2 DEF CertInv
<1> HIDE DEF n
<1>6. k \in Nat /\ k >= 1 /\ l \in Nat /\ l >= 1
  BY <1>2, ThresholdCount
<1>7. l <= k
  <2> DEFINE e == (n - 1) \div 3
             g == n \div 3
  <2>1. e \in Int /\ 3 * e <= n - 1 /\ n - 1 < 3 * e + 3
    BY <1>2
  <2>2. g \in Int /\ 3 * g <= n /\ n < 3 * g + 3
    BY <1>2
  <2>3. k = n - e /\ l = n - g
    BY DEF QuorumSize, KeyThreshold
  <2> HIDE DEF e, g, k, l
  <2> QED BY <1>2, <2>1, <2>2, <2>3
<1>8. n < P
  <2>1. DOMAIN conf.quorum = {1} /\ conf.quorum[1].outOf = [i \in 1..n |-> [id |-> i]]
    BY <1>2 DEF ThresholdConf
  <2>2. Len(conf.quorum[1].outOf) = n
    <3>1. [i \in 1..n |-> [id |-> i]] \in [1..n -> [id : 1..n]]
      OBVIOUS
    <3> QED BY <1>2, <2>1, <3>1, FunctionIsSeq
  <2> QED BY <2>1, <2>2 DEF PointsDiffer
<1> HIDE DEF k, l
<1>9. Cardinality(voted) >= l
  <2>1. evalFomula(from_json(ThresholdConf(k, n)), voted)
    BY <1>1, <1>2
  <2>2. Cardinality(voted \cap (1..n)) >= k
    BY <1>2, <1>6, <2>1, ThresholdEval
  <2>3. voted \cap (1..n) = voted
    BY <1>5
  <2>4. Cardinality(voted) \in Nat
    <3>1. IsFiniteSet(1..n)
      BY <1>2, FS_Interval
    <3> QED BY <1>5, <3>1, FS_Subset, FS_CardinalityType
  <2> QED BY <1>6, <1>7, <2>2, <2>3, <2>4
<1>10. \A e \in 1..l : Coins[e] \in Field
  <2>1. \A e \in 1..l : e \in 1..Len(Coins)
    BY <1>2, <1>6
  <2> QED BY <1>2, <2>1
<1>11. \A i \in voted : s[i] = share(l, i)
  <2>1. \A i \in 1..n : parts[i][1] = share(l, i)
    BY <1>3
  <2> QED BY <1>5, <2>1
<1>12. IsWeighed(f, voted, s, n)
  BY DEF IsWeighed
<1> HIDE DEF f, s
<1>13. Total(f, n) % P = Coins[1]
  <2> DEFINE T == voted
  <2>1. T \subseteq 1..n /\ Cardinality(T) >= l /\ (\A i \in T : s[i] = share(l, i))
        /\ IsWeighed(f, T, s, n)
    BY <1>5, <1>9, <1>11, <1>12
  <2> HIDE DEF T
  <2> QED BY <1>2, <1>6, <1>8, <1>10, <2>1, Interpolation
<1> QED BY <1>4, <1>13

\* The certificate of a quorum is the signature under the secret key, whichever
\* quorum has voted and in whatever order its votes came (QuorumCertBls::compute,
\* then verify).  With generalized quorums no share may be 0: the recovery would
\* take it for a missing one.
THEOREM CertVerifiesHolds ==
  Spec => []((PointsDiffer /\ (conf.generalized => NoShareIsZero)) => CertVerifies)
<1>1. /\ AccInv /\ CertInv /\ QuorumIsConf
      /\ PointsDiffer => (isAuthorizedGroupWithPLU(acc, voted) <=> Satisfied(conf.quorum, voted))
      => ((PointsDiffer /\ (conf.generalized => NoShareIsZero)) => CertVerifies)
  <2> SUFFICES ASSUME AccInv, CertInv, QuorumIsConf, PointsDiffer,
                      conf.generalized => NoShareIsZero,
                      isAuthorizedGroupWithPLU(acc, voted) <=> Satisfied(conf.quorum, voted)
               PROVE  CertVerifies
    OBVIOUS
  <2>1. evalFomula(acc.formula, voted) => isAuthorizedGroupWithPLU(acc, voted)
    BY DEF QuorumIsConf
  <2>2. CASE conf.generalized
    BY <2>1, <2>2, CertOfKeys
  <2>3. CASE ~conf.generalized
    BY <2>3, ThresholdCert
  <2> QED BY <2>2, <2>3
<1> QED BY <1>1, CertInvHolds, QuorumIsConfHolds, AuthorizedIffConf, PTL

\* Without generalized quorums, where recoverThreshSig interpolates what the parts of
\* all voters are at 0, the certificate of every quorum is the signature under the
\* secret key, a share that is 0 included: the key generator's threshold is at most a
\* quorum (n - n / 3 against n - (n - 1) / 3), and more points than it asks for give
\* the same value.
THEOREM ThresholdCertVerifies ==
  Spec => []((~conf.generalized /\ PointsDiffer) => CertVerifies)
<1>1. AccInv /\ CertInv => ((~conf.generalized /\ PointsDiffer) => CertVerifies)
  BY ThresholdCert
<1> QED BY <1>1, CertInvHolds, PTL
=============================================================================
