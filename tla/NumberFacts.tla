----------------------------- MODULE NumberFacts -----------------------------
(***************************************************************************)
(* Facts about natural numbers that the proofs of several components use:  *)
(* induction, quotient and remainder, sums, the slices of the workers, and *)
(* how many frames of a stream a queue has.                                *)
(*                                                                         *)
(* Induction is stated for a set of numbers, so that it can be cited for   *)
(* the set of those numbers that have a property.                          *)
(***************************************************************************)
EXTENDS Sums, Slices, Integers, FiniteSets, FiniteSetTheorems, WellFoundedInduction, TLAPS

\* Every set of natural numbers has a smallest member.
LEMMA Smallest ==
  ASSUME NEW T \in SUBSET Nat, T # {}
  PROVE  \E x \in T : \A y \in T : x <= y
<1>1. PICK R : IsWellFoundedOn(R, Nat) /\ \A x, y \in Nat : y < x => <<y, x>> \in R
  <2>1. \A x, y \in Nat : y < x => <<y, x>> \in OpToRel(<, Nat)
    BY DEF OpToRel
  <2>2. QED
    BY <2>1, NatLessThanWellFounded, Zenon
<1>2. PICK x \in T : \A y \in T : ~(<<y, x>> \in R)
  BY <1>1, WFMin
<1>3. \A y \in T : ~(y < x)
  BY <1>1, <1>2
<1>4. \A y \in T : x <= y
  BY <1>3
<1>5. QED
  BY <1>4

\* A set that has 0 and the successor of each member has all numbers.
LEMMA Induction ==
  ASSUME NEW S \in SUBSET Nat, 0 \in S, \A n \in S : n + 1 \in S
  PROVE  S = Nat
<1> SUFFICES ASSUME S # Nat PROVE FALSE
  OBVIOUS
<1>1. PICK x \in Nat \ S : \A y \in Nat \ S : x <= y
  <2>1. Nat \ S \in SUBSET Nat /\ Nat \ S # {}
    OBVIOUS
  <2>2. QED
    BY <2>1, Smallest
<1>2. x # 0 /\ x - 1 \in Nat
  OBVIOUS
<1>3. x - 1 \in S
  BY <1>1, <1>2
<1>4. (x - 1) + 1 = x
  OBVIOUS
<1>5. QED
  BY <1>3, <1>4

-----------------------------------------------------------------------------
(* Division.                                                               *)

\* Quotient and remainder of a natural number.
LEMMA DivMod ==
  ASSUME NEW a \in Nat, NEW p \in Nat \ {0}
  PROVE  /\ a \div p \in Nat /\ a % p \in Nat /\ a % p < p
         /\ a = p * (a \div p) + (a % p)
OBVIOUS

\* Multiplication by a positive number is monotonic; a larger factor gives at
\* least one p more.
LEMMA Monotonic ==
  ASSUME NEW p \in Nat, NEW k \in Nat, NEW q \in Nat, k < q
  PROVE  p * k + p <= p * q
<1>1. PICK d \in Nat : q = k + 1 + d
  <2>1. q - (k + 1) \in Nat /\ q = k + 1 + (q - (k + 1))
    OBVIOUS
  <2>2. QED
    BY <2>1
<1>2. p * (k + 1 + d) = p * k + p + p * d /\ p * d \in Nat /\ p * k \in Nat
  OBVIOUS
<1>3. QED
  BY <1>1, <1>2

\* Quotient and remainder are unique.
LEMMA ModUnique ==
  ASSUME NEW p \in Nat \ {0}, NEW q \in Nat, NEW r \in Nat, r < p, NEW a \in Nat, a = p * q + r
  PROVE  a % p = r
<1> DEFINE k == a \div p
           m == a % p
<1>1. k \in Nat /\ m \in Nat /\ m < p /\ a = p * k + m
  BY DivMod
<1> HIDE DEF k, m
<1>2. p * k \in Nat /\ p * q \in Nat
  BY <1>1
<1>3. ~(k < q)
  <2> SUFFICES ASSUME k < q PROVE FALSE
    OBVIOUS
  <2>1. p * k + p <= p * q
    BY <1>1, Monotonic
  <2>2. QED
    BY <1>1, <1>2, <2>1
<1>4. ~(q < k)
  <2> SUFFICES ASSUME q < k PROVE FALSE
    OBVIOUS
  <2>1. p * q + p <= p * k
    BY <1>1, Monotonic
  <2>2. QED
    BY <1>1, <1>2, <2>1
<1>5. k = q
  BY <1>1, <1>3, <1>4
<1>6. m = r
  BY <1>1, <1>2, <1>5
<1>7. QED
  BY <1>6 DEF m

\* The remainder goes up by one until it reaches the period.
LEMMA NextMod ==
  ASSUME NEW p \in Nat \ {0}, NEW a \in Nat
  PROVE  /\ a % p \in Nat /\ a % p < p
         /\ (a + 1) % p = IF (a % p) + 1 = p THEN 0 ELSE (a % p) + 1
<1> DEFINE k == a \div p
           m == a % p
<1>1. k \in Nat /\ m \in Nat /\ m < p /\ a = p * k + m
  BY DivMod
<1> HIDE DEF k, m
<1>2. CASE m + 1 = p
  <2>1. p * (k + 1) = p * k + p /\ p * k \in Nat
    BY <1>1
  <2>2. a + 1 = p * (k + 1) + 0
    BY <1>1, <1>2, <2>1
  <2>3. (a + 1) % p = 0
    <3>1. k + 1 \in Nat /\ a + 1 \in Nat /\ 0 < p
      BY <1>1
    <3>2. QED
      BY <2>2, <3>1, ModUnique
  <2>4. QED
    BY <1>1, <1>2, <2>3 DEF m
<1>3. CASE m + 1 # p
  <2>1. a + 1 = p * k + (m + 1) /\ m + 1 < p
    <3>1. p * k \in Nat
      BY <1>1
    <3>2. QED
      BY <1>1, <1>3, <3>1
  <2>2. (a + 1) % p = m + 1
    <3>1. m + 1 \in Nat /\ a + 1 \in Nat
      BY <1>1
    <3>2. QED
      BY <1>1, <2>1, <3>1, ModUnique
  <2>3. QED
    BY <1>1, <1>3, <2>2 DEF m
<1>4. QED
  BY <1>2, <1>3

\* The quotient goes up by one when the remainder comes back to 0.
LEMMA NextDiv ==
  ASSUME NEW p \in Nat \ {0}, NEW a \in Nat
  PROVE  (a + 1) \div p = IF (a % p) + 1 = p THEN (a \div p) + 1 ELSE a \div p
<1> DEFINE k == a \div p
           m == a % p
           l == (a + 1) \div p
           r == (a + 1) % p
<1>1. k \in Nat /\ m \in Nat /\ m < p /\ a = p * k + m
  BY DivMod
<1>2. l \in Nat /\ r \in Nat /\ r < p /\ a + 1 = p * l + r
  <2>1. a + 1 \in Nat
    OBVIOUS
  <2>2. QED
    BY <2>1, DivMod
<1> HIDE DEF k, m, l, r
<1>3. p * k \in Nat /\ p * l \in Nat /\ p * (k + 1) = p * k + p
  BY <1>1, <1>2
<1>4. ~(l < k)
  <2> SUFFICES ASSUME l < k PROVE FALSE
    OBVIOUS
  <2>1. p * l + p <= p * k
    BY <1>1, <1>2, Monotonic
  <2>2. QED
    BY <1>1, <1>2, <1>3, <2>1
<1>5. ~(k + 1 < l)
  <2> SUFFICES ASSUME k + 1 < l PROVE FALSE
    OBVIOUS
  <2>1. k + 1 \in Nat
    BY <1>1
  <2>2. p * (k + 1) + p <= p * l
    BY <1>2, <2>1, Monotonic
  <2>3. QED
    BY <1>1, <1>2, <1>3, <2>2
<1>6. CASE l = k
  <2>1. m + 1 # p
    BY <1>1, <1>2, <1>3, <1>6
  <2>2. QED
    BY <1>6, <2>1 DEF k, m, l
<1>7. CASE l = k + 1
  <2>1. m + 1 = p
    BY <1>1, <1>2, <1>3, <1>7
  <2>2. QED
    BY <1>7, <2>1 DEF k, m, l
<1>8. QED
  BY <1>1, <1>2, <1>4, <1>5, <1>6, <1>7

\* A multiple of p is not later than the last one; less than p back, it is it.
LEMMA LastMultiple ==
  ASSUME NEW p \in Nat \ {0}, NEW a \in Nat, NEW d \in Nat, d % p = 0, d <= a
  PROVE  /\ d <= a - (a % p)
         /\ a < d + p => d = a - (a % p)
<1> DEFINE k == a \div p
           m == a % p
           j == d \div p
<1>1. k \in Nat /\ m \in Nat /\ m < p /\ a = p * k + m
  BY DivMod
<1>2. j \in Nat /\ d = p * j
  <2>1. j \in Nat /\ d % p \in Nat /\ d = p * j + (d % p)
    BY DivMod
  <2> HIDE DEF j
  <2>2. p * j \in Nat
    BY <2>1
  <2>3. QED
    BY <2>1, <2>2
<1> HIDE DEF k, m, j
<1>3. p * k \in Nat /\ p * j \in Nat
  BY <1>1, <1>2
<1>4. ~(k < j)
  <2> SUFFICES ASSUME k < j PROVE FALSE
    OBVIOUS
  <2>1. p * k + p <= p * j
    BY <1>1, <1>2, Monotonic
  <2>2. QED
    BY <1>1, <1>2, <1>3, <2>1
<1>5. j < k => p * j + p <= p * k
  BY <1>1, <1>2, Monotonic
<1>6. j = k \/ j < k
  BY <1>1, <1>2, <1>4
<1>7. d <= p * k /\ (a < d + p => d = p * k)
  BY <1>1, <1>2, <1>3, <1>5, <1>6
<1>8. a - m = p * k
  BY <1>1, <1>3
<1>9. QED
  BY <1>7, <1>8 DEF m

-----------------------------------------------------------------------------
(* Sums.                                                                   *)

IsSum(s, f, n) == s = [i \in 0 .. n |-> IF i = 0 THEN 0 ELSE s[i - 1] + f[i - 1]]

\* The recursion defines a function.
LEMMA SumExists ==
  ASSUME NEW n \in Nat, NEW f, \A i \in 0 .. n - 1 : f[i] \in Int
  PROVE  \E s : IsSum(s, f, n) /\ \A i \in 0 .. n : s[i] \in Int
<1> DEFINE S == {k \in Nat : k <= n =>
                   \E s : IsSum(s, f, k) /\ \A i \in 0 .. k : s[i] \in Int}
<1>1. 0 \in S
  <2>1. IsSum([i \in 0 .. 0 |-> 0], f, 0)
    BY DEF IsSum
  <2>2. QED
    BY <2>1
<1>2. ASSUME NEW k \in S PROVE k + 1 \in S
  <2> SUFFICES ASSUME k + 1 <= n
               PROVE  \E s : IsSum(s, f, k + 1) /\ \A i \in 0 .. k + 1 : s[i] \in Int
    OBVIOUS
  <2>1. PICK s : IsSum(s, f, k) /\ \A i \in 0 .. k : s[i] \in Int
    OBVIOUS
  <2> DEFINE t == [i \in 0 .. k + 1 |-> IF i = k + 1 THEN s[k] + f[k] ELSE s[i]]
  <2>2. IsSum(t, f, k + 1)
    BY <2>1 DEF IsSum
  <2>3. \A i \in 0 .. k + 1 : t[i] \in Int
    BY <2>1
  <2>4. QED
    BY <2>2, <2>3
<1> HIDE DEF S
<1>3. S = Nat
  <2>1. S \in SUBSET Nat
    BY DEF S
  <2>2. QED
    BY <2>1, <1>1, <1>2, Induction
<1>4. QED
  BY <1>3 DEF S

\* Only one function.
LEMMA SumUnique ==
  ASSUME NEW m \in Nat, NEW n \in Nat, m <= n, NEW f, NEW s, NEW t,
         IsSum(s, f, m), IsSum(t, f, n)
  PROVE  s[m] = t[m]
<1> DEFINE S == {k \in Nat : k <= m => s[k] = t[k]}
<1>1. 0 \in S
  BY DEF IsSum
<1>2. ASSUME NEW k \in S PROVE k + 1 \in S
  <2> SUFFICES ASSUME k + 1 <= m PROVE s[k + 1] = t[k + 1]
    OBVIOUS
  <2>1. s[k] = t[k] /\ (k + 1) - 1 = k /\ k + 1 # 0 /\ k + 1 \in 0 .. m /\ k + 1 \in 0 .. n
    OBVIOUS
  <2>2. s[k + 1] = s[k] + f[k] /\ t[k + 1] = t[k] + f[k]
    BY <2>1 DEF IsSum
  <2>3. QED
    BY <2>1, <2>2
<1> HIDE DEF S
<1>3. S = Nat
  <2>1. S \in SUBSET Nat
    BY DEF S
  <2>2. QED
    BY <2>1, <1>1, <1>2, Induction
<1>4. QED
  BY <1>3 DEF S

\* The function SumBelow takes its value of.
LEMMA SumIs ==
  ASSUME NEW n \in Nat, NEW f, \A i \in 0 .. n - 1 : f[i] \in Int
  PROVE  \E s : IsSum(s, f, n) /\ SumBelow(f, n) = s[n] /\ \A i \in 0 .. n : s[i] \in Int
<1> DEFINE c == CHOOSE s : IsSum(s, f, n)
<1>1. PICK t : IsSum(t, f, n) /\ \A i \in 0 .. n : t[i] \in Int
  BY SumExists
<1>2. IsSum(c, f, n)
  BY <1>1
<1>3. SumBelow(f, n) = c[n]
  BY DEF SumBelow, IsSum
<1> HIDE DEF c
<1>4. c[n] = t[n]
  BY <1>1, <1>2, SumUnique
<1>5. QED
  BY <1>1, <1>3, <1>4

\* The sum of nothing, and of one value more.
LEMMA SumNext ==
  ASSUME NEW n \in Nat, NEW f, \A i \in 0 .. n : f[i] \in Int
  PROVE  /\ SumBelow(f, n) \in Int
         /\ SumBelow(f, 0) = 0
         /\ SumBelow(f, n + 1) = SumBelow(f, n) + f[n]
<1>1. PICK s : IsSum(s, f, n) /\ SumBelow(f, n) = s[n] /\ \A i \in 0 .. n : s[i] \in Int
  BY SumIs
<1>2. PICK t : IsSum(t, f, n + 1) /\ SumBelow(f, n + 1) = t[n + 1]
  <2>1. n + 1 \in Nat /\ \A i \in 0 .. (n + 1) - 1 : f[i] \in Int
    OBVIOUS
  <2>2. QED
    BY <2>1, SumIs
<1>3. PICK z : IsSum(z, f, 0) /\ SumBelow(f, 0) = z[0]
  <2>1. \A i \in 0 .. 0 - 1 : f[i] \in Int
    OBVIOUS
  <2>2. QED
    BY <2>1, SumIs
<1>4. z[0] = 0
  BY <1>3 DEF IsSum
<1>5. s[n] = t[n]
  BY <1>1, <1>2, SumUnique
<1>6. t[n + 1] = t[n] + f[n]
  <2>1. n + 1 \in 0 .. n + 1 /\ n + 1 # 0 /\ (n + 1) - 1 = n
    OBVIOUS
  <2>2. QED
    BY <1>2, <2>1 DEF IsSum
<1>7. s[n] \in Int
  BY <1>1
<1>8. QED
  BY <1>1, <1>2, <1>3, <1>4, <1>5, <1>6, <1>7

\* Changing one value changes the sum by as much.
LEMMA SumUpdate ==
  ASSUME NEW n \in Nat, NEW f, NEW g, NEW w \in 0 .. n - 1,
         \A i \in 0 .. n - 1 : f[i] \in Int /\ g[i] \in Int,
         \A i \in 0 .. n - 1 : i # w => g[i] = f[i]
  PROVE  SumBelow(g, n) = SumBelow(f, n) + (g[w] - f[w])
<1> DEFINE d == g[w] - f[w]
           S == {k \in Nat : k <= n =>
                   /\ SumBelow(f, k) \in Int /\ SumBelow(g, k) \in Int
                   /\ SumBelow(g, k) = SumBelow(f, k) + (IF w < k THEN d ELSE 0)}
<1>1. n \in Nat \ {0} /\ d \in Int
  OBVIOUS
<1> HIDE DEF d
<1>2. 0 \in S
  <2>1. \A i \in 0 .. 0 : f[i] \in Int /\ g[i] \in Int
    BY <1>1
  <2>2. SumBelow(f, 0) = 0 /\ SumBelow(g, 0) = 0
    BY <2>1, SumNext
  <2>3. QED
    BY <2>2
<1>3. ASSUME NEW k \in S PROVE k + 1 \in S
  <2> SUFFICES ASSUME k + 1 <= n
               PROVE  /\ SumBelow(f, k + 1) \in Int /\ SumBelow(g, k + 1) \in Int
                      /\ SumBelow(g, k + 1)
                           = SumBelow(f, k + 1) + (IF w < k + 1 THEN d ELSE 0)
    OBVIOUS
  <2>1. /\ k \in Nat /\ SumBelow(f, k) \in Int /\ SumBelow(g, k) \in Int
        /\ SumBelow(g, k) = SumBelow(f, k) + (IF w < k THEN d ELSE 0)
    OBVIOUS
  <2>2. \A i \in 0 .. k : f[i] \in Int /\ g[i] \in Int
    OBVIOUS
  <2>3. /\ SumBelow(f, k + 1) = SumBelow(f, k) + f[k]
        /\ SumBelow(g, k + 1) = SumBelow(g, k) + g[k]
    BY <2>1, <2>2, SumNext
  <2>4. f[k] \in Int /\ g[k] \in Int /\ (k = w => g[k] = f[k] + d) /\ (k # w => g[k] = f[k])
    BY <2>1, <2>2 DEF d
  <2>5. QED
    BY <1>1, <2>1, <2>3, <2>4
<1> HIDE DEF S
<1>4. S = Nat
  <2>1. S \in SUBSET Nat
    BY DEF S
  <2>2. QED
    BY <2>1, <1>2, <1>3, Induction
<1>5. SumBelow(g, n) = SumBelow(f, n) + (IF w < n THEN d ELSE 0)
  BY <1>4 DEF S
<1>6. QED
  BY <1>5 DEF d

\* Sums of values that are at most as large, and the sum of natural numbers, of
\* which each value is a part.
LEMMA SumCompare ==
  ASSUME NEW n \in Nat, NEW f, NEW g,
         \A i \in 0 .. n - 1 : f[i] \in Int /\ g[i] \in Int /\ f[i] <= g[i]
  PROVE  /\ SumBelow(f, n) \in Int /\ SumBelow(g, n) \in Int
         /\ SumBelow(f, n) <= SumBelow(g, n)
<1> DEFINE S == {k \in Nat : k <= n =>
                   /\ SumBelow(f, k) \in Int /\ SumBelow(g, k) \in Int
                   /\ SumBelow(f, k) <= SumBelow(g, k)}
<1>1. 0 \in S
  <2>1. PICK s : IsSum(s, f, 0) /\ SumBelow(f, 0) = s[0]
    <3>1. \A i \in 0 .. 0 - 1 : f[i] \in Int
      OBVIOUS
    <3>2. QED
      BY <3>1, SumIs
  <2>2. PICK t : IsSum(t, g, 0) /\ SumBelow(g, 0) = t[0]
    <3>1. \A i \in 0 .. 0 - 1 : g[i] \in Int
      OBVIOUS
    <3>2. QED
      BY <3>1, SumIs
  <2>3. s[0] = 0 /\ t[0] = 0
    BY <2>1, <2>2 DEF IsSum
  <2>4. QED
    BY <2>1, <2>2, <2>3
<1>2. ASSUME NEW k \in S PROVE k + 1 \in S
  <2> SUFFICES ASSUME k + 1 <= n
               PROVE  /\ SumBelow(f, k + 1) \in Int /\ SumBelow(g, k + 1) \in Int
                      /\ SumBelow(f, k + 1) <= SumBelow(g, k + 1)
    OBVIOUS
  <2>1. /\ k \in Nat /\ SumBelow(f, k) \in Int /\ SumBelow(g, k) \in Int
        /\ SumBelow(f, k) <= SumBelow(g, k)
    OBVIOUS
  <2>2. \A i \in 0 .. k : f[i] \in Int /\ g[i] \in Int
    OBVIOUS
  <2>3. /\ SumBelow(f, k + 1) = SumBelow(f, k) + f[k]
        /\ SumBelow(g, k + 1) = SumBelow(g, k) + g[k]
    BY <2>1, <2>2, SumNext
  <2>4. f[k] \in Int /\ g[k] \in Int /\ f[k] <= g[k]
    BY <2>1
  <2>5. QED
    BY <2>1, <2>3, <2>4
<1> HIDE DEF S
<1>3. S = Nat
  <2>1. S \in SUBSET Nat
    BY DEF S
  <2>2. QED
    BY <2>1, <1>1, <1>2, Induction
<1>4. QED
  BY <1>3 DEF S

\* The sum depends on the values only.
LEMMA SumSame ==
  ASSUME NEW n \in Nat, NEW f, NEW g,
         \A i \in 0 .. n - 1 : f[i] \in Int /\ g[i] = f[i]
  PROVE  SumBelow(g, n) = SumBelow(f, n)
<1>1. /\ \A i \in 0 .. n - 1 : f[i] \in Int /\ g[i] \in Int /\ f[i] <= g[i]
      /\ \A i \in 0 .. n - 1 : g[i] \in Int /\ f[i] \in Int /\ g[i] <= f[i]
  OBVIOUS
<1>2. /\ SumBelow(f, n) \in Int /\ SumBelow(g, n) \in Int
      /\ SumBelow(f, n) <= SumBelow(g, n) /\ SumBelow(g, n) <= SumBelow(f, n)
  BY <1>1, SumCompare
<1>3. QED
  BY <1>2

\* A sum of zeros.
LEMMA SumOfZeros ==
  ASSUME NEW n \in Nat, NEW f, \A i \in 0 .. n - 1 : f[i] = 0
  PROVE  SumBelow(f, n) = 0
<1> DEFINE S == {k \in Nat : k <= n => SumBelow(f, k) = 0}
<1>1. 0 \in S
  <2>1. PICK s : IsSum(s, f, 0) /\ SumBelow(f, 0) = s[0]
    <3>1. \A i \in 0 .. 0 - 1 : f[i] \in Int
      OBVIOUS
    <3>2. QED
      BY <3>1, SumIs
  <2>2. s[0] = 0
    BY <2>1 DEF IsSum
  <2>3. QED
    BY <2>1, <2>2
<1>2. ASSUME NEW k \in S PROVE k + 1 \in S
  <2> SUFFICES ASSUME k + 1 <= n PROVE SumBelow(f, k + 1) = 0
    OBVIOUS
  <2>1. k \in Nat /\ SumBelow(f, k) = 0 /\ f[k] = 0
    OBVIOUS
  <2>2. \A i \in 0 .. k : f[i] \in Int
    OBVIOUS
  <2>3. SumBelow(f, k + 1) = SumBelow(f, k) + f[k]
    BY <2>1, <2>2, SumNext
  <2>4. QED
    BY <2>1, <2>3
<1> HIDE DEF S
<1>3. S = Nat
  <2>1. S \in SUBSET Nat
    BY DEF S
  <2>2. QED
    BY <2>1, <1>1, <1>2, Induction
<1>4. QED
  BY <1>3 DEF S

\* The first value can be added last.
LEMMA SumFirst ==
  ASSUME NEW n \in Nat, NEW f, NEW g,
         \A i \in 0 .. n : f[i] \in Int,
         \A i \in 0 .. n - 1 : g[i] = f[i + 1]
  PROVE  SumBelow(f, n + 1) = f[0] + SumBelow(g, n)
<1> DEFINE S == {k \in Nat : k <= n =>
                   SumBelow(g, k) \in Int /\ SumBelow(f, k + 1) = f[0] + SumBelow(g, k)}
<1>1. \A i \in 0 .. n - 1 : g[i] \in Int
  OBVIOUS
<1>2. 0 \in S
  <2>1. \A i \in 0 .. 0 : f[i] \in Int
    OBVIOUS
  <2>2. SumBelow(f, 0) = 0 /\ SumBelow(f, 0 + 1) = SumBelow(f, 0) + f[0]
    BY <2>1, SumNext
  <2>3. SumBelow(g, 0) = 0
    BY SumOfZeros
  <2>4. QED
    BY <2>1, <2>2, <2>3
<1>3. ASSUME NEW k \in S PROVE k + 1 \in S
  <2> SUFFICES ASSUME k + 1 <= n
               PROVE  /\ SumBelow(g, k + 1) \in Int
                      /\ SumBelow(f, k + 1 + 1) = f[0] + SumBelow(g, k + 1)
    OBVIOUS
  <2>1. /\ k \in Nat /\ k + 1 \in Nat
        /\ SumBelow(g, k) \in Int /\ SumBelow(f, k + 1) = f[0] + SumBelow(g, k)
    OBVIOUS
  <2>2. (\A i \in 0 .. k : g[i] \in Int) /\ (\A i \in 0 .. k + 1 : f[i] \in Int)
    BY <1>1, <2>1
  <2>3. SumBelow(g, k + 1) = SumBelow(g, k) + g[k]
    BY <2>1, <2>2, SumNext
  <2>4. SumBelow(f, k + 1 + 1) = SumBelow(f, k + 1) + f[k + 1]
    BY <2>1, <2>2, SumNext
  <2>5. g[k] = f[k + 1] /\ f[0] \in Int /\ f[k + 1] \in Int
    BY <2>1
  <2>6. QED
    BY <2>1, <2>3, <2>4, <2>5
<1> HIDE DEF S
<1>4. S = Nat
  <2>1. S \in SUBSET Nat
    BY DEF S
  <2>2. QED
    BY <2>1, <1>2, <1>3, Induction
<1>5. QED
  BY <1>4 DEF S

\* The sum of sums.
LEMMA SumPlus ==
  ASSUME NEW n \in Nat, NEW f, NEW g, NEW h,
         \A i \in 0 .. n - 1 : f[i] \in Int /\ g[i] \in Int /\ h[i] = f[i] + g[i]
  PROVE  SumBelow(h, n) = SumBelow(f, n) + SumBelow(g, n)
<1> DEFINE S == {k \in Nat : k <= n =>
                   /\ SumBelow(f, k) \in Int /\ SumBelow(g, k) \in Int
                   /\ SumBelow(h, k) = SumBelow(f, k) + SumBelow(g, k)}
<1>1. \A i \in 0 .. n - 1 : h[i] \in Int
  OBVIOUS
<1>2. 0 \in S
  <2>1. SumBelow(f, 0) = 0 /\ SumBelow(g, 0) = 0 /\ SumBelow(h, 0) = 0
    BY SumOfZeros
  <2>2. QED
    BY <2>1
<1>3. ASSUME NEW k \in S PROVE k + 1 \in S
  <2> SUFFICES ASSUME k + 1 <= n
               PROVE  /\ SumBelow(f, k + 1) \in Int /\ SumBelow(g, k + 1) \in Int
                      /\ SumBelow(h, k + 1) = SumBelow(f, k + 1) + SumBelow(g, k + 1)
    OBVIOUS
  <2>1. /\ k \in Nat /\ SumBelow(f, k) \in Int /\ SumBelow(g, k) \in Int
        /\ SumBelow(h, k) = SumBelow(f, k) + SumBelow(g, k)
    OBVIOUS
  <2>2. \A i \in 0 .. k : f[i] \in Int /\ g[i] \in Int /\ h[i] \in Int
    BY <1>1, <2>1
  <2>3. /\ SumBelow(f, k + 1) = SumBelow(f, k) + f[k]
        /\ SumBelow(g, k + 1) = SumBelow(g, k) + g[k]
        /\ SumBelow(h, k + 1) = SumBelow(h, k) + h[k]
    BY <2>1, <2>2, SumNext
  <2>4. f[k] \in Int /\ g[k] \in Int /\ h[k] = f[k] + g[k]
    BY <2>1
  <2>5. QED
    BY <2>1, <2>3, <2>4
<1> HIDE DEF S
<1>4. S = Nat
  <2>1. S \in SUBSET Nat
    BY DEF S
  <2>2. QED
    BY <2>1, <1>2, <1>3, Induction
<1>5. QED
  BY <1>4 DEF S

-----------------------------------------------------------------------------
(* The slices of IedSlice.                                                 *)

\* A slice ends where the next one begins; the first begins at 0, the one
\* after the last would begin at num; with a stream for every worker no slice
\* is empty.
LEMMA SliceEnds ==
  ASSUME NEW num \in Nat, NEW W \in Nat \ {0}, NEW i \in Nat
  PROVE  /\ IedSlice(num, W, i).lo \in Nat
         /\ IedSlice(num, W, i).hi = IedSlice(num, W, i + 1).lo
         /\ IedSlice(num, W, i).lo <= IedSlice(num, W, i).hi
         /\ W <= num => IedSlice(num, W, i).lo < IedSlice(num, W, i).hi
         /\ IedSlice(num, W, 0).lo = 0
         /\ IedSlice(num, W, W).lo = num
<1> DEFINE per == num \div W
           rem == num % W
<1>1. per \in Nat /\ rem \in Nat /\ rem < W /\ num = W * per + rem
  BY DivMod
<1>2. \A j \in Nat :
         /\ IedSlice(num, W, j).lo = j * per + Least(j, rem)
         /\ IedSlice(num, W, j).hi = j * per + Least(j, rem) + per + (IF j < rem THEN 1 ELSE 0)
  BY DEF IedSlice
<1> HIDE DEF per, rem
<1>3. (i + 1) * per = i * per + per /\ i * per \in Nat /\ 0 * per = 0
  BY <1>1
<1>4. W <= num => per # 0
  <2> SUFFICES ASSUME per = 0 PROVE num < W
    BY <1>1
  <2>1. W * per = 0
    OBVIOUS
  <2>2. QED
    BY <1>1, <2>1
<1>5. Least(i, rem) \in Nat /\ Least(0, rem) = 0 /\ Least(W, rem) = rem
  BY <1>1 DEF Least
<1>6. IedSlice(num, W, i).hi = IedSlice(num, W, i + 1).lo
  <2>1. Least(i + 1, rem) = Least(i, rem) + (IF i < rem THEN 1 ELSE 0)
    BY <1>1 DEF Least
  <2>2. QED
    BY <1>1, <1>2, <1>3, <1>5, <2>1
<1>7. IedSlice(num, W, 0).lo = 0 /\ IedSlice(num, W, W).lo = num
  BY <1>1, <1>2, <1>3, <1>5
<1>8. /\ IedSlice(num, W, i).lo \in Nat
      /\ IedSlice(num, W, i).lo <= IedSlice(num, W, i).hi
      /\ W <= num => IedSlice(num, W, i).lo < IedSlice(num, W, i).hi
  BY <1>1, <1>2, <1>3, <1>4, <1>5
<1>9. QED
  BY <1>6, <1>7, <1>8

\* The slices are in order: a later one begins behind an earlier one.
LEMMA SlicesOrdered ==
  ASSUME NEW num \in Nat, NEW W \in Nat \ {0}, NEW i \in Nat, NEW j \in Nat, i < j
  PROVE  IedSlice(num, W, i).hi <= IedSlice(num, W, j).lo
<1> DEFINE lo(k) == IedSlice(num, W, k).lo
           S == {d \in Nat : lo(i + 1) <= lo(i + 1 + d)}
<1>1. \A k \in Nat : lo(k) \in Nat /\ lo(k) <= lo(k + 1) /\ IedSlice(num, W, k).hi = lo(k + 1)
  <2> TAKE k \in Nat
  <2>1. QED
    BY SliceEnds
<1> HIDE DEF lo
<1>2. 0 \in S
  <2>1. i + 1 \in Nat /\ i + 1 + 0 = i + 1
    OBVIOUS
  <2>2. QED
    BY <1>1, <2>1
<1>3. ASSUME NEW d \in S PROVE d + 1 \in S
  <2>1. d \in Nat /\ i + 1 \in Nat /\ i + 1 + d \in Nat /\ (i + 1 + d) + 1 = i + 1 + (d + 1)
    OBVIOUS
  <2>2. lo(i + 1) <= lo(i + 1 + d) /\ lo(i + 1 + d) <= lo(i + 1 + d + 1)
    BY <1>1, <2>1
  <2>3. lo(i + 1) \in Nat /\ lo(i + 1 + d) \in Nat /\ lo(i + 1 + d + 1) \in Nat
    BY <1>1, <2>1
  <2>4. QED
    BY <2>1, <2>2, <2>3
<1> HIDE DEF S
<1>4. S = Nat
  <2>1. S \in SUBSET Nat
    BY DEF S
  <2>2. QED
    BY <2>1, <1>2, <1>3, Induction
<1>5. j - (i + 1) \in Nat /\ i + 1 + (j - (i + 1)) = j
  OBVIOUS
<1>6. lo(i + 1) <= lo(j)
  BY <1>4, <1>5 DEF S
<1>7. QED
  BY <1>1, <1>6 DEF lo

\* Every stream is in the slice of a worker.
LEMMA SlicesCover ==
  ASSUME NEW num \in Nat, NEW W \in Nat \ {0}, NEW s \in 0 .. num - 1
  PROVE  \E i \in 0 .. W - 1 : IedSlice(num, W, i).lo <= s /\ s < IedSlice(num, W, i).hi
<1> DEFINE lo(k) == IedSlice(num, W, k).lo
           T == {k \in Nat : s < lo(k)}
<1>1. \A k \in Nat : lo(k) \in Nat /\ IedSlice(num, W, k).hi = lo(k + 1)
  <2> TAKE k \in Nat
  <2>1. QED
    BY SliceEnds
<1>2. lo(0) = 0 /\ lo(W) = num
  BY SliceEnds
<1> HIDE DEF lo
<1>3. W \in T /\ ~(0 \in T)
  BY <1>2
<1>4. PICK k \in T : \A y \in T : k <= y
  BY <1>3, Smallest
<1>5. k \in Nat /\ k # 0 /\ k <= W /\ k - 1 \in Nat /\ (k - 1) + 1 = k /\ ~(k - 1 \in T)
  BY <1>3, <1>4
<1>6. lo(k - 1) <= s /\ s < lo(k) /\ IedSlice(num, W, k - 1).hi = lo(k)
  <2>1. s < lo(k) /\ ~(s < lo(k - 1))
    BY <1>5
  <2>2. lo(k - 1) \in Nat /\ IedSlice(num, W, k - 1).hi = lo((k - 1) + 1)
    BY <1>1, <1>5
  <2>3. lo((k - 1) + 1) = lo(k)
    BY <1>5, Zenon
  <2>4. s \in Int /\ lo(k - 1) <= s
    BY <2>1, <2>2
  <2>5. QED
    BY <2>1, <2>2, <2>3, <2>4, Zenon
<1>7. QED
  BY <1>5, <1>6 DEF lo

\* With a stream for every worker: every slice is a non-empty part of the
\* streams, and no stream is in two slices.
LEMMA SlicePart ==
  ASSUME NEW num \in Nat, NEW W \in Nat \ {0}, W <= num, NEW i \in 0 .. W - 1
  PROVE  /\ IedSlice(num, W, i).lo \in Nat
         /\ IedSlice(num, W, i).hi - IedSlice(num, W, i).lo \in Nat \ {0}
         /\ IedSlice(num, W, i).hi <= num
         /\ \A j \in 0 .. W - 1, s \in Nat :
              /\ IedSlice(num, W, i).lo <= s /\ s < IedSlice(num, W, i).hi
              /\ IedSlice(num, W, j).lo <= s /\ s < IedSlice(num, W, j).hi
              => i = j
<1>1. \A k \in Nat : /\ IedSlice(num, W, k).lo \in Nat
                     /\ IedSlice(num, W, k).hi \in Nat
                     /\ IedSlice(num, W, k).lo < IedSlice(num, W, k).hi
                     /\ IedSlice(num, W, k).hi = IedSlice(num, W, k + 1).lo
                     /\ IedSlice(num, W, W).lo = num
  <2> TAKE k \in Nat
  <2>1. k + 1 \in Nat
    OBVIOUS
  <2>2. IedSlice(num, W, k + 1).lo \in Nat
    BY <2>1, SliceEnds
  <2>3. QED
    BY <2>2, SliceEnds
<1>2. IedSlice(num, W, i).hi <= num
  <2>1. CASE i + 1 = W
    BY <1>1, <2>1
  <2>2. CASE i + 1 # W
    <3>1. i \in Nat /\ W \in Nat /\ i < W
      OBVIOUS
    <3>2. IedSlice(num, W, i).hi <= IedSlice(num, W, W).lo
      BY <3>1, SlicesOrdered
    <3>3. QED
      BY <1>1, <3>2
  <2>3. QED
    BY <2>1, <2>2
<1>3. ASSUME NEW j \in 0 .. W - 1, NEW s \in Nat,
             IedSlice(num, W, i).lo <= s, s < IedSlice(num, W, i).hi,
             IedSlice(num, W, j).lo <= s, s < IedSlice(num, W, j).hi
      PROVE  i = j
  <2>1. i \in Nat /\ j \in Nat
    OBVIOUS
  <2>2. i < j => IedSlice(num, W, i).hi <= IedSlice(num, W, j).lo
    BY <2>1, SlicesOrdered
  <2>3. j < i => IedSlice(num, W, j).hi <= IedSlice(num, W, i).lo
    BY <2>1, SlicesOrdered
  <2>4. QED
    BY <1>1, <1>3, <2>1, <2>2, <2>3
<1>4. IedSlice(num, W, i).lo \in Nat /\ IedSlice(num, W, i).hi - IedSlice(num, W, i).lo \in Nat \ {0}
  BY <1>1
<1>5. QED
  BY <1>2, <1>3, <1>4

\* Stream s is in the i-th of W slices of num streams.
InSlice(num, W, i, s) == IedSlice(num, W, i).lo <= s /\ s < IedSlice(num, W, i).hi

\* The slices of the workers divide the streams.
LEMMA SlicesDivide ==
  ASSUME NEW num \in Nat, NEW W \in Nat \ {0}, W <= num
  PROVE  /\ \A i \in 0 .. W - 1 :
               /\ IedSlice(num, W, i).lo \in Nat /\ IedSlice(num, W, i).hi \in Nat
               /\ IedSlice(num, W, i).lo < IedSlice(num, W, i).hi
               /\ IedSlice(num, W, i).hi <= num
               /\ \A j \in 0 .. W - 1, s \in Nat : InSlice(num, W, i, s) /\ InSlice(num, W, j, s) => j = i
         /\ \A s \in 0 .. num - 1 : \E i \in 0 .. W - 1 : InSlice(num, W, i, s)
<1>1. ASSUME NEW i \in 0 .. W - 1
      PROVE  /\ IedSlice(num, W, i).lo \in Nat /\ IedSlice(num, W, i).hi \in Nat
             /\ IedSlice(num, W, i).lo < IedSlice(num, W, i).hi
             /\ IedSlice(num, W, i).hi <= num
  <2>1. i \in Nat /\ i + 1 \in Nat
    OBVIOUS
  <2>2. IedSlice(num, W, i).lo \in Nat /\ IedSlice(num, W, i).hi = IedSlice(num, W, i + 1).lo
        /\ IedSlice(num, W, i).lo < IedSlice(num, W, i).hi
    BY <2>1, SliceEnds
  <2>3. IedSlice(num, W, i + 1).lo \in Nat
    BY <2>1, SliceEnds
  <2>4. IedSlice(num, W, i).hi <= num
    BY SlicePart
  <2>5. QED
    BY <2>2, <2>3, <2>4
<1>2. ASSUME NEW i \in 0 .. W - 1, NEW j \in 0 .. W - 1, NEW s \in Nat,
             InSlice(num, W, i, s), InSlice(num, W, j, s)
      PROVE  j = i
  BY <1>2, SlicePart DEF InSlice
<1>3. \A s \in 0 .. num - 1 : \E i \in 0 .. W - 1 : InSlice(num, W, i, s)
  BY SlicesCover DEF InSlice
<1>4. QED
  BY <1>1, <1>2, <1>3

-----------------------------------------------------------------------------
(* Frames of a stream in a queue.                                          *)

\* How many of the first k frames of q are of stream s.
Count(q, k, s) == SumBelow([i \in 0 .. k - 1 |-> IF q[i + 1].s = s THEN 1 ELSE 0], k)

\* The first k frames of r are of the same streams as those of q; as those of q
\* after its first one.
Alike(r, q, k) == \A i \in 1 .. k : r[i].s = q[i].s
Shifted(r, q, k) == \A i \in 1 .. k : r[i].s = q[i + 1].s

\* Frames are counted one by one.
LEMMA CountNext ==
  ASSUME NEW k \in Nat, NEW q, NEW s
  PROVE  /\ Count(q, k, s) \in Nat
         /\ Count(q, 0, s) = 0
         /\ q[k + 1].s = s => Count(q, k + 1, s) = Count(q, k, s) + 1
         /\ q[k + 1].s # s => Count(q, k + 1, s) = Count(q, k, s)
<1> DEFINE f(n) == [i \in 0 .. n - 1 |-> IF q[i + 1].s = s THEN 1 ELSE 0]
           z == [i \in 0 .. k - 1 |-> 0]
<1>1. \A i \in 0 .. k : f(k + 1)[i] = IF q[i + 1].s = s THEN 1 ELSE 0
  OBVIOUS
<1>2. \A i \in 0 .. k - 1 : f(k)[i] = IF q[i + 1].s = s THEN 1 ELSE 0
  OBVIOUS
<1>3. \A i \in 0 .. k - 1 : z[i] = 0
  OBVIOUS
<1>4. Count(q, k, s) = SumBelow(f(k), k) /\ Count(q, k + 1, s) = SumBelow(f(k + 1), k + 1)
  <2>1. (k + 1) \in Nat
    OBVIOUS
  <2>2. QED
    BY DEF Count
<1>5. Count(q, 0, s) = 0
  <2>1. \A i \in 0 .. 0 - 1 : f(0)[i] = 0
    OBVIOUS
  <2> HIDE DEF f
  <2>2. SumBelow(f(0), 0) = 0
    BY <2>1, SumOfZeros
  <2>3. QED
    BY <2>2 DEF f, Count
<1> HIDE DEF f, z
<1>6. SumBelow(f(k + 1), k + 1) = SumBelow(f(k + 1), k) + f(k + 1)[k]
  <2>1. \A i \in 0 .. k : f(k + 1)[i] \in Int
    BY <1>1
  <2>2. QED
    BY <2>1, SumNext
<1>7. SumBelow(f(k + 1), k) = SumBelow(f(k), k)
  <2>1. \A i \in 0 .. k - 1 : f(k)[i] \in Int /\ f(k + 1)[i] = f(k)[i]
    BY <1>1, <1>2
  <2>2. QED
    BY <2>1, SumSame
<1>8. SumBelow(f(k), k) \in Nat
  <2>1. \A i \in 0 .. k - 1 : z[i] \in Int /\ f(k)[i] \in Int /\ z[i] <= f(k)[i]
    BY <1>2, <1>3
  <2>2. SumBelow(z, k) <= SumBelow(f(k), k) /\ SumBelow(f(k), k) \in Int
    BY <2>1, SumCompare
  <2>3. SumBelow(z, k) = 0
    BY <1>3, SumOfZeros
  <2>4. QED
    BY <2>2, <2>3
<1>9. f(k + 1)[k] = IF q[k + 1].s = s THEN 1 ELSE 0
  BY <1>1
<1>10. QED
  BY <1>4, <1>5, <1>6, <1>7, <1>8, <1>9

\* A frame of the stream counts.
LEMMA CountHit ==
  ASSUME NEW k \in Nat, NEW m, m = k + 1, NEW q, NEW s, q[m].s = s
  PROVE  Count(q, m, s) = Count(q, k, s) + 1
BY CountNext

\* A frame of another stream does not count.
LEMMA CountMiss ==
  ASSUME NEW k \in Nat, NEW m, m = k + 1, NEW q, NEW s, q[m].s # s
  PROVE  Count(q, m, s) = Count(q, k, s)
BY CountNext

\* Counts are natural numbers, and there is nothing to count before the first.
LEMMA CountNat ==
  ASSUME NEW k \in Nat, NEW q, NEW s
  PROVE  Count(q, k, s) \in Nat /\ Count(q, 0, s) = 0
BY CountNext

\* The count depends on the counted frames only.
LEMMA CountSame ==
  ASSUME NEW k \in Nat, NEW q, NEW r, NEW s, Alike(r, q, k)
  PROVE  Count(r, k, s) = Count(q, k, s)
<1>1. \A i \in 0 .. k - 1 : r[i + 1].s = q[i + 1].s
  BY DEF Alike
<1>2. [i \in 0 .. k - 1 |-> IF r[i + 1].s = s THEN 1 ELSE 0]
        = [i \in 0 .. k - 1 |-> IF q[i + 1].s = s THEN 1 ELSE 0]
  BY <1>1
<1>3. QED
  BY <1>2 DEF Count

\* The first frame can be counted last.
LEMMA CountFirst ==
  ASSUME NEW k \in Nat, NEW m, m = k + 1, NEW q, NEW r, NEW s, Shifted(r, q, k)
  PROVE  /\ q[1].s = s => Count(q, m, s) = Count(r, k, s) + 1
         /\ q[1].s # s => Count(q, m, s) = Count(r, k, s)
<1> DEFINE f == [i \in 0 .. (k + 1) - 1 |-> IF q[i + 1].s = s THEN 1 ELSE 0]
           g == [i \in 0 .. k - 1 |-> IF r[i + 1].s = s THEN 1 ELSE 0]
<1>1. \A i \in 0 .. k : f[i] = (IF q[i + 1].s = s THEN 1 ELSE 0) /\ f[i] \in Int
  OBVIOUS
<1>2. \A i \in 0 .. k - 1 : g[i] = f[i + 1] /\ g[i] \in Int
  <2> TAKE i \in 0 .. k - 1
  <2>1. i + 1 \in 1 .. k /\ i + 1 \in 0 .. k
    OBVIOUS
  <2>2. r[i + 1].s = q[(i + 1) + 1].s
    BY <2>1 DEF Shifted
  <2>3. QED
    BY <2>1, <2>2
<1>3. Count(q, k + 1, s) = SumBelow(f, k + 1) /\ Count(r, k, s) = SumBelow(g, k)
  BY DEF Count
<1>4. f[0] = (IF q[1].s = s THEN 1 ELSE 0)
  BY <1>1
<1> HIDE DEF f, g
<1>5. SumBelow(f, k + 1) = f[0] + SumBelow(g, k)
  BY <1>1, <1>2, SumFirst
<1>6. Count(r, k, s) \in Nat
  BY CountNat
<1>7. QED
  BY <1>3, <1>4, <1>5, <1>6

\* More frames have at least as many of the stream.
LEMMA CountGrows ==
  ASSUME NEW j \in Nat, NEW k \in Nat, j <= k, NEW q, NEW s
  PROVE  Count(q, j, s) <= Count(q, k, s)
<1> DEFINE S == {d \in Nat : Count(q, j, s) <= Count(q, j + d, s)}
<1>1. \A n \in Nat : Count(q, n, s) \in Nat /\ Count(q, n, s) <= Count(q, n + 1, s)
  <2> TAKE n \in Nat
  <2>1. n + 1 \in Nat
    OBVIOUS
  <2>2. QED
    BY <2>1, CountNext
<1>2. 0 \in S
  <2>1. j + 0 = j
    OBVIOUS
  <2>2. QED
    BY <1>1, <2>1
<1>3. ASSUME NEW d \in S PROVE d + 1 \in S
  <2>1. d \in Nat /\ j + d \in Nat /\ j + d + 1 \in Nat /\ (j + d) + 1 = j + (d + 1)
    OBVIOUS
  <2>2. Count(q, j, s) <= Count(q, j + d, s) /\ Count(q, j + d, s) <= Count(q, j + d + 1, s)
    BY <1>1, <2>1
  <2>3. Count(q, j, s) \in Nat /\ Count(q, j + d, s) \in Nat /\ Count(q, j + d + 1, s) \in Nat
    BY <1>1, <2>1
  <2>4. QED
    BY <2>1, <2>2, <2>3
<1> HIDE DEF S
<1>4. S = Nat
  <2>1. S \in SUBSET Nat
    BY DEF S
  <2>2. QED
    BY <2>1, <1>2, <1>3, Induction
<1>5. k - j \in Nat /\ j + (k - j) = k
  OBVIOUS
<1>6. QED
  BY <1>4, <1>5 DEF S

\* The count is the number of places where the queue has a frame of s.
LEMMA CountOfPlaces ==
  ASSUME NEW k \in Nat, NEW q, NEW s
  PROVE  /\ IsFiniteSet({i \in 1 .. k : q[i].s = s})
         /\ Cardinality({i \in 1 .. k : q[i].s = s}) = Count(q, k, s)
<1> DEFINE P(n) == {i \in 1 .. n : q[i].s = s}
           S == {n \in Nat : IsFiniteSet(P(n)) /\ Cardinality(P(n)) = Count(q, n, s)}
<1>1. 0 \in S
  <2>1. P(0) = {}
    OBVIOUS
  <2>2. Count(q, 0, s) = 0
    BY CountNat
  <2>3. IsFiniteSet({}) /\ Cardinality({}) = 0
    BY FS_EmptySet
  <2>4. QED
    BY <2>1, <2>2, <2>3
<1>2. ASSUME NEW n \in S PROVE n + 1 \in S
  <2>1. n \in Nat /\ n + 1 \in Nat /\ IsFiniteSet(P(n)) /\ Cardinality(P(n)) = Count(q, n, s)
    OBVIOUS
  <2>2. /\ Count(q, n, s) \in Nat
        /\ q[n + 1].s = s => Count(q, n + 1, s) = Count(q, n, s) + 1
        /\ q[n + 1].s # s => Count(q, n + 1, s) = Count(q, n, s)
    BY <2>1, CountNext
  <2>3. CASE q[n + 1].s = s
    <3>1. P(n + 1) = P(n) \cup {n + 1} /\ ~(n + 1 \in P(n))
      BY <2>1, <2>3
    <3> HIDE DEF P
    <3>2. IsFiniteSet(P(n) \cup {n + 1}) /\ Cardinality(P(n) \cup {n + 1}) = Cardinality(P(n)) + 1
      BY <2>1, <3>1, FS_AddElement
    <3>3. Count(q, n + 1, s) = Count(q, n, s) + 1
      BY <2>2, <2>3
    <3>4. Cardinality(P(n + 1)) = Count(q, n + 1, s) /\ IsFiniteSet(P(n + 1))
      BY <2>1, <3>1, <3>2, <3>3, Zenon
    <3>5. QED
      BY <2>1, <3>4
  <2>4. CASE q[n + 1].s # s
    <3>1. P(n + 1) = P(n)
      BY <2>1, <2>4
    <3> HIDE DEF P
    <3>2. Count(q, n + 1, s) = Count(q, n, s)
      BY <2>2, <2>4
    <3>3. Cardinality(P(n + 1)) = Count(q, n + 1, s) /\ IsFiniteSet(P(n + 1))
      BY <2>1, <3>1, <3>2, Zenon
    <3>4. QED
      BY <2>1, <3>3
  <2>5. QED
    BY <2>3, <2>4
<1> HIDE DEF S
<1>3. S = Nat
  <2>1. S \in SUBSET Nat
    BY DEF S
  <2>2. QED
    BY <2>1, <1>1, <1>2, Induction
<1>4. QED
  BY <1>3 DEF S

\* The first k frames are of the m streams from b on.
Within(q, k, b, m) == \A i \in 1 .. k : q[i].s \in b .. b + m - 1

\* The counts of m streams from b on.
CountsOf(g, q, k, b, m) == g = [i \in 0 .. m - 1 |-> Count(q, k, b + i)]

\* The counts of m consecutive streams, when no other is in the queue, add up
\* to all frames.
LEMMA SumOfCounts ==
  ASSUME NEW k \in Nat, NEW q, NEW b \in Nat, NEW m \in Nat,
         Within(q, k, b, m), NEW g, CountsOf(g, q, k, b, m)
  PROVE  SumBelow(g, m) = k
<1> DEFINE f(n) == [i \in 0 .. m - 1 |-> Count(q, n, b + i)]
           S == {n \in Nat : n <= k => SumBelow(f(n), m) = n}
<1>1. \A n \in Nat : \A i \in 0 .. m - 1 :
         /\ f(n)[i] = Count(q, n, b + i) /\ f(n)[i] \in Int
         /\ f(0)[i] = 0
         /\ f(n + 1)[i] = f(n)[i] + (IF q[n + 1].s = b + i THEN 1 ELSE 0)
  <2> TAKE n \in Nat
  <2> TAKE i \in 0 .. m - 1
  <2>1. n + 1 \in Nat
    OBVIOUS
  <2> DEFINE x == b + i
  <2> HIDE DEF x
  <2>2. /\ Count(q, n, x) \in Nat /\ Count(q, 0, x) = 0
        /\ q[n + 1].s = x => Count(q, n + 1, x) = Count(q, n, x) + 1
        /\ q[n + 1].s # x => Count(q, n + 1, x) = Count(q, n, x)
    <3> HIDE DEF f, S
    <3>1. QED
      BY CountNext
  <2>3. QED
    BY <2>2 DEF x
<1> HIDE DEF f
<1>2. 0 \in S
  <2>1. SumBelow(f(0), m) = 0
    BY <1>1, SumOfZeros
  <2>2. QED
    BY <2>1
<1>3. ASSUME NEW n \in S PROVE n + 1 \in S
  <2> SUFFICES ASSUME n + 1 <= k PROVE SumBelow(f(n + 1), m) = n + 1
    OBVIOUS
  <2>1. n \in Nat /\ n + 1 \in Nat /\ SumBelow(f(n), m) = n
    OBVIOUS
  <2> DEFINE w == q[n + 1].s - b
  <2>2. w \in 0 .. m - 1 /\ q[n + 1].s = b + w
    BY <2>1 DEF Within
  <2> HIDE DEF w
  <2>3. \A i \in 0 .. m - 1 : f(n)[i] \in Int /\ f(n + 1)[i] \in Int
    BY <1>1, <2>1
  <2>4. \A i \in 0 .. m - 1 : i # w => f(n + 1)[i] = f(n)[i]
    <3> TAKE i \in 0 .. m - 1
    <3>1. i # w => q[n + 1].s # b + i
      BY <2>2
    <3>2. f(n)[i] \in Int /\ f(n + 1)[i] = f(n)[i] + (IF q[n + 1].s = b + i THEN 1 ELSE 0)
      BY <1>1, <2>1
    <3>3. QED
      BY <3>1, <3>2
  <2>5. f(n + 1)[w] = f(n)[w] + 1
    BY <1>1, <2>1, <2>2
  <2>6. SumBelow(f(n + 1), m) = SumBelow(f(n), m) + (f(n + 1)[w] - f(n)[w])
    BY <2>2, <2>3, <2>4, SumUpdate
  <2>7. QED
    BY <2>1, <2>2, <2>3, <2>5, <2>6
<1> HIDE DEF S
<1>4. S = Nat
  <2>1. S \in SUBSET Nat
    BY DEF S
  <2>2. QED
    BY <2>1, <1>2, <1>3, Induction
<1>5. SumBelow(f(k), m) = k
  BY <1>4 DEF S
<1>6. QED
  BY <1>5, Zenon DEF f, CountsOf

-----------------------------------------------------------------------------
(* Round robin.                                                            *)

\* How many of the first n turns of a round of k go to the j-th.
Reps(n, k, j) == n \div k + (IF j < n % k THEN 1 ELSE 0)

\* No turn, one turn more, and f whole rounds.
LEMMA RepsNext ==
  ASSUME NEW n \in Nat, NEW k \in Nat \ {0}, NEW j \in 0 .. k - 1
  PROVE  /\ Reps(n, k, j) \in Nat
         /\ Reps(0, k, j) = 0
         /\ j = n % k => Reps(n + 1, k, j) = Reps(n, k, j) + 1
         /\ j # n % k => Reps(n + 1, k, j) = Reps(n, k, j)
<1>1. ASSUME NEW m \in Nat PROVE m \div k \in Nat /\ m % k \in Nat /\ m % k < k
  BY <1>1, DivMod
<1>2. Reps(n, k, j) \in Nat
  BY <1>1 DEF Reps
<1>3. 0 % k = 0 /\ 0 \div k = 0
  <2>1. 0 % k = 0
    <3>1. 0 = k * 0 + 0
      OBVIOUS
    <3>2. QED
      BY <3>1, ModUnique
  <2>2. 0 \div k = 0
    <3> DEFINE d == 0 \div k
    <3>1. d \in Nat /\ 0 = k * d + 0
      BY <2>1, DivMod
    <3> HIDE DEF d
    <3>2. d > 0 => k * d >= k
      <4>1. d > 0 => k * 0 + k <= k * d
        BY <3>1, Monotonic
      <4>2. QED
        BY <4>1
    <3>3. QED
      BY <3>1, <3>2 DEF d
  <2>3. QED
    BY <2>1, <2>2
<1>4. Reps(0, k, j) = 0
  BY <1>3 DEF Reps
<1> DEFINE a == n % k
           b == n \div k
           c == (n + 1) % k
           d == (n + 1) \div k
<1>5. /\ a \in Nat /\ a < k /\ b \in Nat /\ c = IF a + 1 = k THEN 0 ELSE a + 1
      /\ d = IF a + 1 = k THEN b + 1 ELSE b
  BY <1>1, NextMod, NextDiv
<1>6. Reps(n, k, j) = b + (IF j < a THEN 1 ELSE 0) /\ Reps(n + 1, k, j) = d + (IF j < c THEN 1 ELSE 0)
  BY DEF Reps
<1> HIDE DEF a, b, c, d
<1>7. /\ j = a => Reps(n + 1, k, j) = Reps(n, k, j) + 1
      /\ j # a => Reps(n + 1, k, j) = Reps(n, k, j)
  BY <1>5, <1>6
<1>8. QED
  BY <1>2, <1>4, <1>7 DEF a

\* Whole rounds.
LEMMA RepsWhole ==
  ASSUME NEW k \in Nat \ {0}, NEW f \in Nat, NEW j \in 0 .. k - 1, NEW n \in Nat, n = k * f
  PROVE  Reps(n, k, j) = f
<1>1. n % k = 0
  <2>1. n = k * f + 0
    OBVIOUS
  <2>2. QED
    BY <2>1, ModUnique
<1> DEFINE d == n \div k
<1>2. d \in Nat /\ n = k * d + 0
  BY <1>1, DivMod
<1>3. Reps(n, k, j) = d
  BY <1>1, <1>2 DEF Reps
<1> HIDE DEF d
<1>4. d < f => k * d + k <= k * f
  BY <1>2, Monotonic
<1>5. f < d => k * f + k <= k * d
  BY <1>2, Monotonic
<1>6. QED
  BY <1>2, <1>3, <1>4, <1>5

-----------------------------------------------------------------------------
(* Pairs of a worker and a place in its queue.                             *)

\* When only w has frames of s, the pairs are w's places.
LEMMA CountOfPairs ==
  ASSUME NEW W, NEW w \in W, NEW q, NEW len, NEW top \in Nat, NEW s,
         len[w] \in Nat, len[w] <= top,
         \A v \in W, i \in 1 .. top : v # w /\ i <= len[v] => q[v][i].s # s
  PROVE  Cardinality({p \in W \X (1 .. top) : p[2] <= len[p[1]] /\ q[p[1]][p[2]].s = s})
           = Count(q[w], len[w], s)
<1> DEFINE P == {p \in W \X (1 .. top) : p[2] <= len[p[1]] /\ q[p[1]][p[2]].s = s}
           T == {i \in 1 .. len[w] : q[w][i].s = s}
           f == [i \in T |-> <<w, i>>]
<1>1. \A i \in T : <<w, i>> \in P
  <2> TAKE i \in T
  <2>1. i \in 1 .. len[w] /\ q[w][i].s = s /\ i \in 1 .. top /\ i <= len[w]
    OBVIOUS
  <2>2. QED
    BY <2>1
<1>2. \A p \in P : \E i \in T : p = <<w, i>>
  <2> TAKE p \in P
  <2>1. PICK v \in W, i \in 1 .. top : p = <<v, i>>
    OBVIOUS
  <2>2. p[1] = v /\ p[2] = i
    BY <2>1
  <2>3. i <= len[v] /\ q[v][i].s = s
    BY <2>2
  <2>4. v = w
    BY <2>3
  <2>5. i \in T
    BY <2>3, <2>4
  <2>6. QED
    BY <2>1, <2>4, <2>5
<1>3. ExistsBijection(T, P)
  <2>1. f \in [T -> P]
    BY <1>1
  <2>2. \A a, b \in T : f[a] = f[b] => a = b
    OBVIOUS
  <2>3. \A p \in P : \E i \in T : f[i] = p
    BY <1>2
  <2> HIDE DEF f, P, T
  <2>4. f \in Bijection(T, P)
    BY <2>1, <2>2, <2>3 DEF Bijection, Injection, Surjection, IsInjective
  <2>5. QED
    BY <2>4 DEF ExistsBijection
<1>4. IsFiniteSet(T) /\ Cardinality(T) = Count(q[w], len[w], s)
  BY CountOfPlaces
<1> HIDE DEF P, T
<1>5. Cardinality(P) = Cardinality(T)
  BY <1>3, <1>4, FS_Bijection
<1>6. QED
  BY <1>4, <1>5 DEF P
=============================================================================
