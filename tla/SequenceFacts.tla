---------------------------- MODULE SequenceFacts ----------------------------
(***************************************************************************)
(* Facts about integers and sequences that the proofs about RequestGates   *)
(* rest on and the library does not state: induction for sets of naturals, *)
(* remainders, sums that are defined recursively and sums that wrap,       *)
(* permutations, and sorting.  What is said of a recursive function is     *)
(* proved by first-order induction: the indices at which it holds are a    *)
(* set that has 0 and is closed under successor, and a least natural       *)
(* outside it is impossible.                                               *)
(***************************************************************************)
EXTENDS Integers, Sequences, WellFoundedInduction, TLAPS

\* Every non-empty set of naturals has a least element.
LEMMA LeastElement ==
    ASSUME NEW T \in SUBSET Nat, T # {}
    PROVE  \E n \in T : \A m \in T : n <= m
<1> DEFINE R == {ss \in Nat \X Nat : ss[1] < ss[2]}
<1>1. IsWellFoundedOn(R, Nat)
  BY NatLessThanWellFounded DEF OpToRel
<1>2. \A m, n \in Nat : m < n => <<m, n>> \in R
  OBVIOUS
<1> HIDE DEF R
<1>3. \E n \in T : \A m \in T : ~(<<m, n>> \in R)
  BY <1>1, WFMin, Zenon
<1>4. PICK n \in T : \A m \in T : ~(<<m, n>> \in R)
  BY <1>3
<1>5. \A m \in T : ~(m < n)
  BY <1>2, <1>4, Zenon
<1>6. \A m \in T : n <= m
  BY <1>5
<1> QED
  BY <1>6

\* Induction, for a property given as a set of naturals.
LEMMA Induction ==
    ASSUME NEW T, 0 \in T, \A n \in Nat : n \in T => n + 1 \in T
    PROVE  \A n \in Nat : n \in T
<1>1. SUFFICES ASSUME NEW n \in Nat, n \notin T PROVE FALSE
  OBVIOUS
<1>2. PICK m \in Nat \ T : \A k \in Nat \ T : m <= k
  BY <1>1, LeastElement, Zenon
<1>3. m - 1 \in Nat /\ m - 1 \in T
  BY <1>2
<1> QED
  BY <1>2, <1>3

\* The same up to a bound.
LEMMA InductionUpTo ==
    ASSUME NEW n \in Nat, NEW T, 0 \in T, \A i \in 0..(n - 1) : i \in T => i + 1 \in T
    PROVE  \A i \in 0..n : i \in T
<1> DEFINE S == {i \in Nat : i <= n => i \in T}
<1>1. 0 \in S
  OBVIOUS
<1>2. ASSUME NEW i \in Nat, i \in S PROVE i + 1 \in S
  BY <1>2
<1> HIDE DEF S
<1>3. \A i \in Nat : i \in S
  BY <1>1, <1>2, Induction
<1> QED
  BY <1>3 DEF S

--------------------------------------------------------------------------------
(* Division with remainder *)

\* Quotient and remainder.
LEMMA DivMod ==
    ASSUME NEW x \in Int, NEW M \in Nat \ {0}
    PROVE  x = M * (x \div M) + (x % M) /\ x % M \in 0..(M - 1) /\ x \div M \in Int
OBVIOUS

\* A positive multiple of M is at least M.
LEMMA MultipleAtLeast ==
    ASSUME NEW M \in Nat \ {0}, NEW d \in Int, d > 0
    PROVE  M * d >= M
OBVIOUS

\* Multiples subtract factor by factor.
LEMMA MultipleDifference ==
    ASSUME NEW M \in Int, NEW p \in Int, NEW q \in Int
    PROVE  M * p - M * q = M * (p - q)
OBVIOUS

\* An integer is a multiple of M plus a remainder in one way only.
LEMMA RemainderUnique ==
    ASSUME NEW M \in Nat \ {0}, NEW p \in Int, NEW q \in Int,
           NEW r \in 0..(M - 1), NEW u \in 0..(M - 1), M * p + r = M * q + u
    PROVE  p = q /\ r = u
<1>1. M * (p - q) = u - r
  BY MultipleDifference
<1>2. ~(p - q > 0)
  BY <1>1, MultipleAtLeast
<1>3. M * (q - p) = r - u
  BY MultipleDifference
<1>4. ~(q - p > 0)
  BY <1>3, MultipleAtLeast
<1>5. p = q
  BY <1>2, <1>4
<1> QED
  BY <1>5, <1>1

\* A multiple of M plus r below M has the remainder r and the quotient the factor.
LEMMA RemainderIs ==
    ASSUME NEW M \in Nat \ {0}, NEW x \in Int, NEW q \in Int, NEW r \in 0..(M - 1),
           x = M * q + r
    PROVE  x % M = r /\ x \div M = q
BY DivMod, RemainderUnique

\* A remainder taken before an addition does not change the one taken after it.
LEMMA RemainderPlus ==
    ASSUME NEW x \in Int, NEW y \in Int, NEW M \in Nat \ {0}
    PROVE  ((x % M) + y) % M = (x + y) % M
<1>1. PICK q \in Int, r \in 0..(M - 1) : x = M * q + r /\ x % M = r
  BY DivMod, Zenon
<1>2. PICK z \in Int : z = r + y
  OBVIOUS
<1>3. PICK p \in Int, u \in 0..(M - 1) : z = M * p + u /\ z % M = u
  BY DivMod, Zenon
<1>4. PICK s \in Int : s = x + y
  OBVIOUS
<1>5. PICK t \in Int : t = q + p
  OBVIOUS
<1>6. s = M * t + u
  BY <1>1, <1>2, <1>3, <1>4, <1>5
<1>7. s % M = u
  BY <1>6, RemainderIs
<1> QED
  BY <1>1, <1>2, <1>3, <1>4, <1>7

--------------------------------------------------------------------------------
(* Sums *)

\* s[i] is the sum of the first i values of a.
IsSum(s, a, n) == s = [i \in 0..n |-> IF i = 0 THEN 0 ELSE s[i - 1] + a[i]]

\* The sum of the first n values of a.
Total(a, n) == (CHOOSE s : IsSum(s, a, n))[n]

\* The recursive definition of the partial sums has a solution.
LEMMA SumExists ==
    ASSUME NEW n \in Nat, NEW a
    PROVE  \E s : IsSum(s, a, n)
<1> DEFINE P(k) == \E s : IsSum(s, a, k)
           T == {k \in 0..n : P(k)}
<1>1. P(0)
  <2>1. IsSum([i \in 0..0 |-> 0], a, 0)
    BY DEF IsSum
  <2> QED
    BY <2>1
<1>2. ASSUME NEW k \in 0..(n - 1), P(k) PROVE P(k + 1)
  <2>1. PICK s : IsSum(s, a, k)
    BY <1>2
  <2> DEFINE t == [i \in 0..(k + 1) |-> IF i <= k THEN s[i] ELSE s[k] + a[k + 1]]
  <2>2. s[0] = 0 /\ \A i \in 1..k : s[i] = s[i - 1] + a[i]
    BY <2>1 DEF IsSum
  <2>3. t[0] = 0
    BY <2>2
  <2>4. \A i \in 1..k : t[i] = t[i - 1] + a[i]
    BY <2>2
  <2>5. t[k + 1] = t[k] + a[k + 1]
    OBVIOUS
  <2>6. DOMAIN t = 0..(k + 1) /\ t = [i \in DOMAIN t |-> t[i]]
    OBVIOUS
  <2> HIDE DEF t
  <2>7. ASSUME NEW i \in 0..(k + 1) PROVE t[i] = IF i = 0 THEN 0 ELSE t[i - 1] + a[i]
    <3>1. CASE i = 0
      BY <2>3, <3>1
    <3>2. CASE i \in 1..k
      BY <2>4, <3>2
    <3>3. CASE i = k + 1
      BY <2>5, <3>3
    <3> QED BY <3>1, <3>2, <3>3
  <2>8. IsSum(t, a, k + 1)
    BY <2>6, <2>7 DEF IsSum
  <2> QED
    BY <2>8
<1> HIDE DEF P
<1>3. 0 \in T
  BY <1>1
<1>4. \A k \in 0..(n - 1) : k \in T => k + 1 \in T
  BY <1>2
<1> HIDE DEF T
<1>5. \A k \in 0..n : k \in T
  BY <1>3, <1>4, InductionUpTo, Zenon
<1>6. n \in 0..n
  OBVIOUS
<1> QED
  BY <1>5, <1>6 DEF T, P

\* Sums that satisfy the equation up to n agree up to n.
LEMMA SumUnique ==
    ASSUME NEW n \in Nat, NEW a, NEW s, NEW t,
           s[0] = t[0], \A i \in 1..n : s[i] = s[i - 1] + a[i],
           \A i \in 1..n : t[i] = t[i - 1] + a[i]
    PROVE  \A i \in 0..n : s[i] = t[i]
<1> DEFINE P(i) == s[i] = t[i]
           T == {k \in 0..n : P(k)}
<1>1. P(0)
  OBVIOUS
<1>2. ASSUME NEW i \in 0..(n - 1), P(i) PROVE P(i + 1)
  <2>1. i + 1 \in 1..n /\ (i + 1) - 1 = i
    OBVIOUS
  <2> QED
    BY <1>2, <2>1
<1> HIDE DEF P
<1>3. 0 \in T
  BY <1>1
<1>4. \A k \in 0..(n - 1) : k \in T => k + 1 \in T
  BY <1>2
<1> HIDE DEF T
<1>5. \A k \in 0..n : k \in T
  BY <1>3, <1>4, InductionUpTo, Zenon
<1> QED
  BY <1>5 DEF T, P

\* What a solution says, value by value.
LEMMA SumSteps ==
    ASSUME NEW n \in Nat, NEW a, NEW s, IsSum(s, a, n)
    PROVE  s[0] = 0 /\ \A i \in 1..n : s[i] = s[i - 1] + a[i]
BY DEF IsSum

\* Every solution ends in the total.
LEMMA TotalIs ==
    ASSUME NEW n \in Nat, NEW a, NEW s, IsSum(s, a, n)
    PROVE  s[n] = Total(a, n)
<1> DEFINE t == CHOOSE t : IsSum(t, a, n)
<1>1. IsSum(t, a, n)
  BY SumExists
<1> HIDE DEF t
<1>2. \A i \in 0..n : s[i] = t[i]
  <2>1. s[0] = t[0] /\ \A i \in 1..n : s[i] = s[i - 1] + a[i]
    BY <1>1, SumSteps
  <2>2. \A i \in 1..n : t[i] = t[i - 1] + a[i]
    BY <1>1, SumSteps
  <2> QED
    BY <2>1, <2>2, SumUnique
<1> QED
  BY <1>2 DEF Total, t

\* What a total is made of.
LEMMA TotalStep ==
    ASSUME NEW n \in Nat, NEW a
    PROVE  /\ Total(a, 0) = 0
           /\ Total(a, n + 1) = Total(a, n) + a[n + 1]
<1>1. Total(a, 0) = 0
  <2>1. PICK s : IsSum(s, a, 0)
    BY SumExists
  <2>2. s[0] = Total(a, 0)
    BY <2>1, TotalIs
  <2>3. s[0] = 0
    BY <2>1, SumSteps
  <2> QED
    BY <2>2, <2>3
<1>2. Total(a, n + 1) = Total(a, n) + a[n + 1]
  <2>1. PICK s : IsSum(s, a, n + 1)
    BY SumExists
  <2>2. s[n + 1] = Total(a, n + 1)
    BY <2>1, TotalIs
  <2> DEFINE r == [i \in 0..n |-> s[i]]
  <2>3. s[0] = 0 /\ \A i \in 1..(n + 1) : s[i] = s[i - 1] + a[i]
    BY <2>1, SumSteps
  <2>4. IsSum(r, a, n)
    BY <2>3 DEF IsSum
  <2>5. r[n] = Total(a, n)
    <3> HIDE DEF r
    <3> QED BY <2>4, TotalIs
  <2>6. s[n + 1] = s[n] + a[n + 1]
    BY <2>3
  <2> QED
    BY <2>2, <2>5, <2>6
<1> QED
  BY <1>1, <1>2

\* The first n values of a are naturals.
Nats(a, n) == \A i \in 1..n : a[i] \in Nat

\* Naturals add up to a natural.
LEMMA TotalNat ==
    ASSUME NEW n \in Nat, NEW a, Nats(a, n)
    PROVE  Total(a, n) \in Nat
<1> DEFINE P(i) == Total(a, i) \in Nat
           T == {k \in 0..n : P(k)}
<1>1. P(0)
  BY TotalStep
<1>2. ASSUME NEW i \in 0..(n - 1), P(i) PROVE P(i + 1)
  <2>1. i + 1 \in 1..n /\ i \in Nat
    OBVIOUS
  <2>2. a[i + 1] \in Nat
    BY <2>1 DEF Nats
  <2>3. Total(a, i + 1) = Total(a, i) + a[i + 1]
    BY <2>1, TotalStep
  <2> QED
    BY <1>2, <2>2, <2>3
<1> HIDE DEF P
<1>3. 0 \in T
  BY <1>1
<1>4. \A k \in 0..(n - 1) : k \in T => k + 1 \in T
  BY <1>2
<1> HIDE DEF T
<1>5. \A k \in 0..n : k \in T
  BY <1>3, <1>4, InductionUpTo, Zenon
<1>6. n \in 0..n
  OBVIOUS
<1> QED
  BY <1>5, <1>6 DEF T, P

\* Equal values add up to equal totals.
LEMMA TotalSame ==
    ASSUME NEW n \in Nat, NEW a, NEW b, \A i \in 1..n : a[i] = b[i]
    PROVE  Total(a, n) = Total(b, n)
<1> DEFINE P(i) == Total(a, i) = Total(b, i)
           T == {k \in 0..n : P(k)}
<1>1. P(0)
  BY TotalStep
<1>2. ASSUME NEW i \in 0..(n - 1), P(i) PROVE P(i + 1)
  <2>1. i + 1 \in 1..n /\ i \in Nat
    OBVIOUS
  <2>2. a[i + 1] = b[i + 1]
    BY <2>1
  <2>3. Total(a, i + 1) = Total(a, i) + a[i + 1] /\ Total(b, i + 1) = Total(b, i) + b[i + 1]
    BY <2>1, TotalStep
  <2> QED
    BY <1>2, <2>2, <2>3
<1> HIDE DEF P
<1>3. 0 \in T
  BY <1>1
<1>4. \A k \in 0..(n - 1) : k \in T => k + 1 \in T
  BY <1>2
<1> HIDE DEF T
<1>5. \A k \in 0..n : k \in T
  BY <1>3, <1>4, InductionUpTo, Zenon
<1>6. n \in 0..n
  OBVIOUS
<1> QED
  BY <1>5, <1>6 DEF T, P

\* The step of TotalUpdate in numbers.
LEMMA UpdateStep ==
    ASSUME NEW i \in Nat, NEW k \in Nat, NEW x \in Nat, NEW si \in Nat, NEW ti \in Nat,
           NEW ai \in Nat, NEW bi \in Nat, NEW ak \in Nat,
           i < k => ti = si, i >= k => ti + ak = si + x,
           i + 1 # k => bi = ai, i + 1 = k => bi = x /\ ai = ak
    PROVE  /\ i + 1 < k => ti + bi = si + ai
           /\ i + 1 >= k => ti + bi + ak = si + ai + x
OBVIOUS

\* Replacing one value changes the total by the difference.
LEMMA TotalUpdate ==
    ASSUME NEW n \in Nat, NEW a, NEW b, Nats(a, n), Nats(b, n), NEW k \in 1..n,
           \A i \in 1..n : i # k => b[i] = a[i]
    PROVE  Total(b, n) + a[k] = Total(a, n) + b[k]
<1> DEFINE P(i) == /\ i < k => Total(b, i) = Total(a, i)
                   /\ i >= k => Total(b, i) + a[k] = Total(a, i) + b[k]
           T == {i \in 0..n : P(i)}
<1>1. P(0)
  BY TotalStep
<1>2. ASSUME NEW i \in 0..(n - 1), P(i) PROVE P(i + 1)
  <2>1. i \in Nat /\ k \in Nat /\ i + 1 \in 1..n
    OBVIOUS
  <2>2. Total(a, i + 1) = Total(a, i) + a[i + 1] /\ Total(b, i + 1) = Total(b, i) + b[i + 1]
    BY <2>1, TotalStep
  <2>3. Total(a, i) \in Nat /\ Total(b, i) \in Nat
    <3>1. Nats(a, i) /\ Nats(b, i)
      BY DEF Nats
    <3> QED
      BY <2>1, <3>1, TotalNat
  <2>4. PICK si \in Nat, ti \in Nat, ai \in Nat, bi \in Nat, ak \in Nat, x \in Nat :
            /\ si = Total(a, i) /\ ti = Total(b, i)
            /\ ai = a[i + 1] /\ bi = b[i + 1] /\ ak = a[k] /\ x = b[k]
    BY <2>1, <2>3, Zenon DEF Nats
  <2>5. (i + 1 # k => bi = ai) /\ (i + 1 = k => bi = x /\ ai = ak)
    BY <2>1, <2>4
  <2>6. (i < k => ti = si) /\ (i >= k => ti + ak = si + x)
    BY <1>2, <2>4
  <2>7. /\ i + 1 < k => ti + bi = si + ai
        /\ i + 1 >= k => ti + bi + ak = si + ai + x
    BY <2>1, <2>5, <2>6, UpdateStep
  <2> QED
    BY <2>2, <2>4, <2>7
<1> HIDE DEF P
<1>3. 0 \in T
  BY <1>1
<1>4. \A i \in 0..(n - 1) : i \in T => i + 1 \in T
  BY <1>2
<1> HIDE DEF T
<1>5. \A i \in 0..n : i \in T
  BY <1>3, <1>4, InductionUpTo, Zenon
<1>6. n \in 0..n /\ n >= k
  OBVIOUS
<1> QED
  BY <1>5, <1>6 DEF T, P

--------------------------------------------------------------------------------
(* Arrangements *)

\* The permutations of 1..n.
Arrangements(n) == {p \in [1..n -> 1..n] : \A i, j \in 1..n : i # j => p[i] # p[j]}

\* The last of n + 1 places taken out of an arrangement.
LEMMA ArrangementWithoutLast ==
    ASSUME NEW n \in Nat, NEW p \in Arrangements(n + 1)
    PROVE  [i \in 1..n |-> IF p[i] = n + 1 THEN p[n + 1] ELSE p[i]] \in Arrangements(n)
<1> DEFINE q == [i \in 1..n |-> IF p[i] = n + 1 THEN p[n + 1] ELSE p[i]]
<1>1. p \in [1..(n + 1) -> 1..(n + 1)] /\ \A i, j \in 1..(n + 1) : i # j => p[i] # p[j]
  BY DEF Arrangements
<1>2. n + 1 \in 1..(n + 1) /\ \A i \in 1..n : i \in 1..(n + 1) /\ i # n + 1
  OBVIOUS
<1>3. ASSUME NEW i \in 1..n PROVE q[i] \in 1..n /\ q[i] = (IF p[i] = n + 1 THEN p[n + 1] ELSE p[i])
  <2>1. p[i] # p[n + 1] /\ p[i] \in 1..(n + 1) /\ p[n + 1] \in 1..(n + 1)
    BY <1>1, <1>2
  <2> QED
    BY <2>1
<1>4. ASSUME NEW i \in 1..n, NEW j \in 1..n, i # j PROVE q[i] # q[j]
  <2>1. p[i] # p[j] /\ p[i] # p[n + 1] /\ p[j] # p[n + 1]
    BY <1>1, <1>2, <1>4, Zenon
  <2> QED
    BY <1>3, <2>1
<1>5. q \in [1..n -> 1..n]
  BY <1>3
<1> QED
  BY <1>4, <1>5 DEF Arrangements

\* A total does not depend on the order of its terms.
LEMMA TotalArranged ==
    ASSUME NEW n \in Nat, NEW a, Nats(a, n), NEW p \in Arrangements(n)
    PROVE  Total([i \in 1..n |-> a[p[i]]], n) = Total(a, n)
<1> DEFINE P(k) == \A b, q : Nats(b, k) /\ q \in Arrangements(k) =>
                      Total([i \in 1..k |-> b[q[i]]], k) = Total(b, k)
           T == {k \in Nat : P(k)}
<1>1. P(0)
  BY TotalStep
<1>2. ASSUME NEW k \in Nat, P(k) PROVE P(k + 1)
  <2> SUFFICES ASSUME NEW b, NEW q, Nats(b, k + 1), q \in Arrangements(k + 1)
               PROVE  Total([i \in 1..(k + 1) |-> b[q[i]]], k + 1) = Total(b, k + 1)
    OBVIOUS
  <2> DEFINE m == q[k + 1]
             r == [i \in 1..k |-> IF q[i] = k + 1 THEN m ELSE q[i]]
             c == [i \in 1..k |-> IF i = m THEN b[k + 1] ELSE b[i]]
             d == [i \in 1..(k + 1) |-> b[q[i]]]
  <2>1. /\ q \in [1..(k + 1) -> 1..(k + 1)]
        /\ \A i, j \in 1..(k + 1) : i # j => q[i] # q[j]
    BY DEF Arrangements
  <2>2. k + 1 \in 1..(k + 1) /\ \A i \in 1..k : i \in 1..(k + 1) /\ i # k + 1
    OBVIOUS
  <2>3. m \in 1..(k + 1)
    BY <2>1, <2>2
  <2>4. r \in Arrangements(k)
    BY ArrangementWithoutLast
  <2>5. r \in [1..k -> 1..k]
    BY <2>4 DEF Arrangements
  <2>6. Nats(c, k) /\ Nats(b, k) /\ b[k + 1] \in Nat /\ b[m] \in Nat
    BY <2>2, <2>3 DEF Nats
  <2>7. Total([i \in 1..k |-> c[r[i]]], k) = Total(c, k)
    <3> HIDE DEF c, r
    <3> QED
      BY <1>2, <2>4, <2>6
  <2>8. \A i \in 1..k : c[r[i]] = d[i]
    <3> TAKE i \in 1..k
    <3>1. q[i] # m /\ q[i] \in 1..(k + 1) /\ d[i] = b[q[i]] /\ r[i] \in 1..k
      BY <2>1, <2>2, <2>5
    <3>2. CASE q[i] = k + 1
      <4>1. r[i] = m
        BY <3>2
      <4> QED
        BY <3>1, <3>2, <4>1
    <3>3. CASE q[i] # k + 1
      <4>1. r[i] = q[i]
        BY <3>3
      <4> QED
        BY <3>1, <3>3, <4>1
    <3> QED
      BY <3>2, <3>3
  <2>9. d[k + 1] = b[m]
    BY <2>2
  <2>10. Total(d, k) = Total(c, k)
    <3> DEFINE e == [i \in 1..k |-> c[r[i]]]
    <3>1. \A i \in 1..k : e[i] = d[i]
      BY <2>8
    <3> HIDE DEF c, d, e, r
    <3>2. Total(e, k) = Total(d, k)
      BY <3>1, TotalSame
    <3> QED
      BY <2>7, <3>2 DEF e
  <2>11. Total(d, k + 1) = Total(c, k) + b[m] /\ Total(b, k + 1) = Total(b, k) + b[k + 1]
    <3> HIDE DEF c, d
    <3> QED
      BY <2>9, <2>10, TotalStep
  <2>12. Total(c, k) \in Nat /\ Total(b, k) \in Nat
    <3> HIDE DEF c
    <3> QED
      BY <2>6, TotalNat
  <2>13. Total(c, k) + b[m] = Total(b, k) + b[k + 1]
    <3>1. CASE m = k + 1
      <4>1. \A i \in 1..k : c[i] = b[i]
        BY <3>1
      <4>2. Total(c, k) = Total(b, k)
        <5> HIDE DEF c
        <5> QED BY <4>1, TotalSame
      <4> QED
        BY <3>1, <4>2
    <3>2. CASE m # k + 1
      <4>1. m \in 1..k
        BY <2>3, <3>2
      <4>2. c[m] = b[k + 1] /\ \A i \in 1..k : i # m => c[i] = b[i]
        BY <4>1
      <4> HIDE DEF c, m
      <4> QED
        BY <2>6, <4>1, <4>2, TotalUpdate
    <3> QED
      BY <3>1, <3>2
  <2> QED
    <3> HIDE DEF c, d
    <3>1. Total(d, k + 1) = Total(b, k + 1)
      BY <2>11, <2>13
    <3> QED
      BY <3>1 DEF d
<1> HIDE DEF P
<1>3. 0 \in T
  BY <1>1
<1>4. \A k \in Nat : k \in T => k + 1 \in T
  BY <1>2
<1> HIDE DEF T
<1>5. \A k \in Nat : k \in T
  BY <1>3, <1>4, Induction, Zenon
<1>6. P(n)
  BY <1>5 DEF T
<1> QED
  BY <1>6 DEF P

\* An arrangement reaches every place.
LEMMA ArrangementOnto ==
    ASSUME NEW n \in Nat, NEW p \in Arrangements(n), NEW l \in 1..n
    PROVE  \E i \in 1..n : p[i] = l
<1> DEFINE P(k) == \A q \in Arrangements(k) : \A j \in 1..k : \E i \in 1..k : q[i] = j
           T == {k \in Nat : P(k)}
<1>1. P(0)
  OBVIOUS
<1>2. ASSUME NEW k \in Nat, P(k) PROVE P(k + 1)
  <2> SUFFICES ASSUME NEW q \in Arrangements(k + 1), NEW j \in 1..(k + 1)
               PROVE  \E i \in 1..(k + 1) : q[i] = j
    OBVIOUS
  <2> DEFINE m == q[k + 1]
             r == [i \in 1..k |-> IF q[i] = k + 1 THEN m ELSE q[i]]
  <2>1. /\ q \in [1..(k + 1) -> 1..(k + 1)]
        /\ \A i, h \in 1..(k + 1) : i # h => q[i] # q[h]
    BY DEF Arrangements
  <2>2. k + 1 \in 1..(k + 1) /\ \A i \in 1..k : i \in 1..(k + 1) /\ i # k + 1
    OBVIOUS
  <2>3. r \in Arrangements(k)
    BY ArrangementWithoutLast
  <2>4. \A h \in 1..k : \E i \in 1..k : r[i] = h
    <3> HIDE DEF r
    <3> QED BY <1>2, <2>3
  <2>5. m \in 1..(k + 1)
    BY <2>1, <2>2
  <2>6. CASE j = m
    BY <2>2, <2>6
  <2>7. CASE j # m /\ j = k + 1
    <3>1. m \in 1..k
      BY <2>5, <2>7
    <3>2. PICK i \in 1..k : r[i] = m
      BY <2>4, <3>1
    <3>3. q[i] # m
      BY <2>1, <2>2
    <3>4. q[i] = k + 1
      BY <3>2, <3>3
    <3> QED
      BY <2>2, <2>7, <3>4
  <2>8. CASE j # m /\ j # k + 1
    <3>1. j \in 1..k
      BY <2>8
    <3>2. PICK i \in 1..k : r[i] = j
      BY <2>4, <3>1
    <3>3. q[i] = j
      BY <2>8, <3>2
    <3> QED
      BY <2>2, <3>3
  <2> QED
    BY <2>6, <2>7, <2>8
<1> HIDE DEF P
<1>3. 0 \in T
  BY <1>1
<1>4. \A k \in Nat : k \in T => k + 1 \in T
  BY <1>2
<1> HIDE DEF T
<1>5. \A k \in Nat : k \in T
  BY <1>3, <1>4, Induction, Zenon
<1>6. P(n)
  BY <1>5 DEF T
<1> QED
  BY <1>6 DEF P

\* The inverse of an arrangement, and one arrangement after another.
LEMMA ArrangementInverse ==
    ASSUME NEW n \in Nat, NEW p \in Arrangements(n)
    PROVE  \E q \in Arrangements(n) : \A j \in 1..n : p[q[j]] = j
<1> DEFINE q == [j \in 1..n |-> CHOOSE i \in 1..n : p[i] = j]
<1>1. \A j \in 1..n : q[j] \in 1..n /\ p[q[j]] = j
  BY ArrangementOnto
<1>2. q \in [1..n -> 1..n]
  BY <1>1
<1> HIDE DEF q
<1>3. q \in Arrangements(n)
  BY <1>1, <1>2, Zenon DEF Arrangements
<1> QED
  BY <1>1, <1>3

\* One arrangement after another is an arrangement.
LEMMA ArrangementCompose ==
    ASSUME NEW n \in Nat, NEW p \in Arrangements(n), NEW q \in Arrangements(n)
    PROVE  [i \in 1..n |-> p[q[i]]] \in Arrangements(n)
BY Zenon DEF Arrangements

--------------------------------------------------------------------------------
(* Sorting *)

\* No value of u comes before one that R does not let it precede.
Sorted(u, n, R) == \A i, j \in 1..n : i < j => <<u[i], u[j]>> \in R

\* Two arrangements of the same values that are sorted by an antisymmetric
\* relation are the same.
LEMMA SortedUnique ==
    ASSUME NEW n \in Nat, NEW R, NEW u, NEW v, NEW p \in Arrangements(n),
           \A i \in 1..n : v[i] = u[p[i]],
           \A x, y : <<x, y>> \in R /\ <<y, x>> \in R => x = y,
           Sorted(u, n, R), Sorted(v, n, R)
    PROVE  \A i \in 1..n : u[i] = v[i]
<1> DEFINE H(k, q) == /\ q \in Arrangements(k)
                      /\ \A i \in 1..k : v[i] = u[q[i]]
                      /\ Sorted(u, k, R) /\ Sorted(v, k, R)
           P(k) == \A q : H(k, q) => \A i \in 1..k : u[i] = v[i]
           T == {k \in Nat : P(k)}
<1>1. P(0)
  OBVIOUS
<1>2. ASSUME NEW k \in Nat, P(k) PROVE P(k + 1)
  <2> SUFFICES ASSUME NEW q, H(k + 1, q) PROVE \A i \in 1..(k + 1) : u[i] = v[i]
    OBVIOUS
  <2> DEFINE m == q[k + 1]
             r == [i \in 1..k |-> IF q[i] = k + 1 THEN m ELSE q[i]]
  <2>1. /\ q \in [1..(k + 1) -> 1..(k + 1)]
        /\ \A i, h \in 1..(k + 1) : i # h => q[i] # q[h]
    BY DEF Arrangements
  <2>2. k + 1 \in 1..(k + 1) /\ \A i \in 1..k : i \in 1..(k + 1) /\ i # k + 1 /\ i < k + 1
    OBVIOUS
  <2>3. r \in Arrangements(k)
    BY ArrangementWithoutLast
  <2>4. m \in 1..(k + 1) /\ v[k + 1] = u[m]
    BY <2>1, <2>2
  <2>5. u[k + 1] = v[k + 1]
    <3>1. PICK h \in 1..(k + 1) : q[h] = k + 1
      BY <2>2, ArrangementOnto
    <3>2. v[h] = u[k + 1]
      BY <3>1
    <3>3. CASE h = k + 1
      BY <3>2, <3>3
    <3>4. CASE m = k + 1
      BY <2>4, <3>4
    <3>5. CASE h # k + 1 /\ m # k + 1
      <4>1. <<v[h], v[k + 1]>> \in R
        BY <2>2, <3>5 DEF Sorted
      <4>2. <<u[m], u[k + 1]>> \in R
        BY <2>2, <2>4, <3>5 DEF Sorted
      <4> QED
        BY <2>4, <3>2, <4>1, <4>2
    <3> QED
      BY <3>3, <3>4, <3>5
  <2>6. \A i \in 1..k : v[i] = u[r[i]]
    <3> TAKE i \in 1..k
    <3>1. CASE q[i] = k + 1
      <4>1. r[i] = m
        BY <3>1
      <4> QED
        BY <2>2, <2>4, <2>5, <3>1, <4>1
    <3>2. CASE q[i] # k + 1
      BY <2>2, <3>2
    <3> QED
      BY <3>1, <3>2
  <2>7. Sorted(u, k, R) /\ Sorted(v, k, R)
    BY <2>2 DEF Sorted
  <2>8. \A i \in 1..k : u[i] = v[i]
    <3> HIDE DEF r
    <3> QED BY <1>2, <2>3, <2>6, <2>7
  <2> QED
    BY <2>5, <2>8
<1> HIDE DEF P
<1>3. 0 \in T
  BY <1>1
<1>4. \A k \in Nat : k \in T => k + 1 \in T
  BY <1>2
<1> HIDE DEF T
<1>5. \A k \in Nat : k \in T
  BY <1>3, <1>4, Induction, Zenon
<1>6. P(n)
  BY <1>5 DEF T
<1>7. H(n, p)
  OBVIOUS
<1> HIDE DEF H
<1> QED
  BY <1>6, <1>7 DEF P

\* Every sequence has an arrangement that a total, transitive relation sorts:
\* insert the last value before the first one it may precede.
LEMMA SortExists ==
    ASSUME NEW n \in Nat, NEW R, NEW u,
           \A i, j \in 1..n : <<u[i], u[j]>> \in R \/ <<u[j], u[i]>> \in R,
           \A i, j, k \in 1..n : <<u[i], u[j]>> \in R /\ <<u[j], u[k]>> \in R
                                    => <<u[i], u[k]>> \in R
    PROVE  \E p \in Arrangements(n) : Sorted([i \in 1..n |-> u[p[i]]], n, R)
<1> DEFINE Le(i, j) == <<u[i], u[j]>> \in R
           P(k) == \E p \in Arrangements(k) : \A i, j \in 1..k : i < j => Le(p[i], p[j])
           T == {k \in 0..n : P(k)}
<1>1. /\ \A i, j \in 1..n : Le(i, j) \/ Le(j, i)
      /\ \A i, j, k \in 1..n : Le(i, j) /\ Le(j, k) => Le(i, k)
  OBVIOUS
<1>2. P(0)
  <2>1. [i \in 1..0 |-> i] \in Arrangements(0)
    BY DEF Arrangements
  <2> QED
    BY <2>1
<1> HIDE DEF Le
<1>3. ASSUME NEW k \in 0..(n - 1), P(k) PROVE P(k + 1)
  <2>1. PICK p \in Arrangements(k) : \A i, j \in 1..k : i < j => Le(p[i], p[j])
    BY <1>3
  <2>2. p \in [1..k -> 1..k] /\ \A i, j \in 1..k : i # j => p[i] # p[j]
    BY DEF Arrangements
  <2> DEFINE After == {i \in 1..k : Le(k + 1, p[i])} \cup {k + 1}
  <2>3. PICK h \in After : \A i \in After : h <= i
    <3>1. After \in SUBSET Nat /\ After # {}
      OBVIOUS
    <3> HIDE DEF After
    <3> QED
      BY <3>1, LeastElement
  <2>4. h \in 1..(k + 1)
    OBVIOUS
  <2>5. \A i \in 1..k : i < h => Le(p[i], k + 1)
    <3> TAKE i \in 1..k
    <3> HAVE i < h
    <3>1. ~Le(k + 1, p[i])
      BY <2>3, <2>4
    <3>2. k + 1 \in 1..n /\ p[i] \in 1..n
      BY <2>2
    <3> QED
      BY <1>1, <3>1, <3>2
  <2>6. \A i \in 1..k : i >= h => Le(k + 1, p[i])
    <3> TAKE i \in 1..k
    <3> HAVE i >= h
    <3>1. h \in 1..k /\ Le(k + 1, p[h])
      BY <2>3, <2>4
    <3>2. k + 1 \in 1..n /\ p[i] \in 1..n /\ p[h] \in 1..n
      BY <2>2, <3>1
    <3>3. i = h \/ Le(p[h], p[i])
      BY <2>1, <3>1
    <3> QED
      BY <1>1, <3>1, <3>2, <3>3
  <2> HIDE DEF After
  <2> DEFINE q == [i \in 1..(k + 1) |-> IF i < h THEN p[i] ELSE IF i = h THEN k + 1 ELSE p[i - 1]]
  <2>7. ASSUME NEW i \in 1..(k + 1)
        PROVE  /\ i < h => i \in 1..k /\ q[i] = p[i] /\ p[i] \in 1..k
               /\ i = h => q[i] = k + 1
               /\ i > h => i - 1 \in 1..k /\ i - 1 >= h /\ q[i] = p[i - 1] /\ p[i - 1] \in 1..k
    BY <2>2, <2>4
  <2>8. q \in [1..(k + 1) -> 1..(k + 1)]
    BY <2>7, <2>4
  <2> HIDE DEF q
  <2>9. ASSUME NEW i \in 1..(k + 1), NEW j \in 1..(k + 1), i < j
        PROVE  q[i] # q[j] /\ Le(q[i], q[j])
    <3>1. CASE j < h
      <4>1. i < h /\ i \in 1..k /\ j \in 1..k
        BY <2>4, <2>9, <3>1
      <4> QED
        BY <2>1, <2>2, <2>7, <2>9, <3>1, <4>1
    <3>2. CASE j = h
      <4>1. i < h /\ i \in 1..k
        BY <2>4, <2>9, <3>2
      <4> QED
        BY <2>5, <2>7, <3>2, <4>1
    <3>3. CASE j > h /\ i < h
      <4>1. i \in 1..k /\ j - 1 \in 1..k /\ i < j - 1 /\ i # j - 1
        BY <2>4, <3>3
      <4> QED
        BY <2>1, <2>2, <2>7, <3>3, <4>1
    <3>4. CASE j > h /\ i = h
      <4>1. j - 1 \in 1..k /\ j - 1 >= h
        BY <2>4, <3>4
      <4> QED
        BY <2>6, <2>7, <3>4, <4>1
    <3>5. CASE j > h /\ i > h
      <4>1. i - 1 \in 1..k /\ j - 1 \in 1..k /\ i - 1 < j - 1 /\ i - 1 # j - 1
        BY <2>4, <2>9, <3>5
      <4> QED
        BY <2>1, <2>2, <2>7, <3>5, <4>1
    <3> QED
      BY <2>4, <3>1, <3>2, <3>3, <3>4, <3>5
  <2>10. \A i, j \in 1..(k + 1) : i # j => i < j \/ j < i
    OBVIOUS
  <2>11. q \in Arrangements(k + 1)
    BY <2>8, <2>9, <2>10 DEF Arrangements
  <2> QED
    BY <2>9, <2>11
<1> HIDE DEF P
<1>4. 0 \in T
  BY <1>2
<1>5. \A k \in 0..(n - 1) : k \in T => k + 1 \in T
  BY <1>3
<1> HIDE DEF T
<1>6. \A k \in 0..n : k \in T
  BY <1>4, <1>5, InductionUpTo, Zenon
<1>7. P(n)
  BY <1>6 DEF T
<1>8. PICK p \in Arrangements(n) : \A i, j \in 1..n : i < j => Le(p[i], p[j])
  BY <1>7 DEF P
<1>9. Sorted([i \in 1..n |-> u[p[i]]], n, R)
  BY <1>8 DEF Sorted, Le
<1> QED
  BY <1>9, Zenon

--------------------------------------------------------------------------------
(* Sums that wrap *)

\* The partial sums of a, reduced modulo M at every step as unsigned machine
\* integers are.
IsWrappedSum(s, a, n, M) ==
    s = [i \in 0..n |-> IF i = 0 THEN 0 ELSE (s[i - 1] + a[i]) % M]

\* Wrapping at every step leaves the total's remainder.
LEMMA WrappedTotal ==
    ASSUME NEW n \in Nat, NEW a, Nats(a, n), NEW M \in Nat \ {0},
           NEW s, IsWrappedSum(s, a, n, M)
    PROVE  s[n] = Total(a, n) % M
<1> DEFINE P(i) == s[i] = Total(a, i) % M
           T == {i \in 0..n : P(i)}
<1>1. s[0] = 0 /\ \A i \in 1..n : s[i] = (s[i - 1] + a[i]) % M
  BY DEF IsWrappedSum
<1>2. P(0)
  BY <1>1, TotalStep
<1>3. ASSUME NEW i \in 0..(n - 1), P(i) PROVE P(i + 1)
  <2>1. i \in Nat /\ i + 1 \in 1..n /\ (i + 1) - 1 = i
    OBVIOUS
  <2>2. s[i + 1] = ((Total(a, i) % M) + a[i + 1]) % M
    BY <1>1, <1>3, <2>1
  <2>3. Total(a, i) \in Int /\ a[i + 1] \in Int
    <3>1. Nats(a, i)
      BY DEF Nats
    <3> QED
      BY <2>1, <3>1, TotalNat DEF Nats
  <2>4. Total(a, i + 1) = Total(a, i) + a[i + 1]
    BY <2>1, TotalStep
  <2>5. ((Total(a, i) % M) + a[i + 1]) % M = Total(a, i + 1) % M
    <3>1. \A x, y \in Int : ((x % M) + y) % M = (x + y) % M
      BY RemainderPlus, Zenon
    <3> QED
      BY <2>3, <2>4, <3>1, Zenon
  <2> QED
    BY <2>2, <2>5
<1> HIDE DEF P
<1>4. 0 \in T
  BY <1>2
<1>5. \A i \in 0..(n - 1) : i \in T => i + 1 \in T
  BY <1>3
<1> HIDE DEF T
<1>6. \A i \in 0..n : i \in T
  BY <1>4, <1>5, InductionUpTo, Zenon
<1>7. n \in 0..n
  OBVIOUS
<1> QED
  BY <1>6, <1>7 DEF T, P

\* The recursive definition of the wrapped sums has a solution.
LEMMA WrappedSumExists ==
    ASSUME NEW n \in Nat, NEW a, Nats(a, n), NEW M \in Nat \ {0}
    PROVE  \E s : IsWrappedSum(s, a, n, M)
<1> DEFINE s == [i \in 0..n |-> Total(a, i) % M]
<1>1. ASSUME NEW i \in 0..n PROVE s[i] = IF i = 0 THEN 0 ELSE (s[i - 1] + a[i]) % M
  <2>1. CASE i = 0
    <3>1. Total(a, 0) = 0 /\ 0 % M = 0
      BY TotalStep
    <3> QED
      BY <2>1, <3>1
  <2>2. CASE i # 0
    <3>1. i - 1 \in Nat /\ i - 1 \in 0..n /\ i \in 1..n /\ (i - 1) + 1 = i
      BY <2>2
    <3>2. Total(a, i - 1) \in Int /\ a[i] \in Int
      <4>1. Nats(a, i - 1)
        BY <3>1 DEF Nats
      <4> QED
        BY <3>1, <4>1, TotalNat DEF Nats
    <3>3. Total(a, i) = Total(a, i - 1) + a[i]
      BY <3>1, TotalStep
    <3>4. ((Total(a, i - 1) % M) + a[i]) % M = Total(a, i) % M
      <4>1. \A x, y \in Int : ((x % M) + y) % M = (x + y) % M
        BY RemainderPlus, Zenon
      <4> QED
        BY <3>2, <3>3, <4>1, Zenon
    <3> QED
      BY <2>2, <3>1, <3>4
  <2> QED
    BY <2>1, <2>2
<1>2. s = [i \in 0..n |-> s[i]]
  OBVIOUS
<1> HIDE DEF s
<1>3. IsWrappedSum(s, a, n, M)
  BY <1>1, <1>2, Zenon DEF IsWrappedSum
<1> QED
  BY <1>3

--------------------------------------------------------------------------------
(* Concatenations *)

\* What stands after a prefix of two.
LEMMA AfterPrefix ==
    ASSUME NEW x \in Nat, NEW y \in Nat, NEW s \in Seq(Nat)
    PROVE  /\ (<<x, y>> \o s)[2] = y
           /\ \A k \in 1..Len(s) : (<<x, y>> \o s)[k + 2] = s[k]
<1>1. <<x, y>> \in Seq(Nat) /\ Len(<<x, y>>) = 2 /\ Len(s) \in Nat
  OBVIOUS
<1>2. \A i \in 1..(2 + Len(s)) :
         (<<x, y>> \o s)[i] = IF i <= 2 THEN <<x, y>>[i] ELSE s[i - 2]
  BY <1>1
<1>3. 2 \in 1..(2 + Len(s))
  BY <1>1
<1>4. (<<x, y>> \o s)[2] = <<x, y>>[2]
  BY <1>2, <1>3
<1>5. ASSUME NEW k \in 1..Len(s) PROVE (<<x, y>> \o s)[k + 2] = s[k]
  <2>1. k + 2 \in 1..(2 + Len(s)) /\ ~(k + 2 <= 2) /\ (k + 2) - 2 = k
    BY <1>1
  <2> QED
    BY <1>2, <2>1
<1> QED
  BY <1>4, <1>5
================================================================================
