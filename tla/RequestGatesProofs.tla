-------------------------- MODULE RequestGatesProofs --------------------------
(***************************************************************************)
(* Proofs about RequestGates, for any addresses, powers, width, sizes of   *)
(* the validator set, chains, timestamps and word length.                  *)
(***************************************************************************)
EXTENDS RequestGates, SequenceFacts

\* A sequence of SeqsOf(S, lo, hi) is one of values of S with its length between
\* the bounds.
LEMMA SeqsOfIs ==
    ASSUME NEW S, NEW lo \in Nat, NEW hi \in Nat, NEW vs \in SeqsOf(S, lo, hi)
    PROVE  /\ vs \in Seq(S) /\ Len(vs) \in lo..hi
           /\ DOMAIN vs = 1..Len(vs) /\ vs \in [1..Len(vs) -> S]
<1>1. PICK n \in lo..hi : vs \in [1..n -> S]
  BY DEF SeqsOf
<1>2. n \in Nat
  BY <1>1
<1>3. vs \in Seq(S) /\ Len(vs) = n
  BY <1>1, <1>2, SMT
<1> QED
  BY <1>1, <1>3

--------------------------------------------------------------------------------
(* The order of validators *)

\* The order sortBridgeValidators and the node sort by.
Precedes == {xy \in Validator \X Validator :
                \/ xy[1].power > xy[2].power
                \/ xy[1].power = xy[2].power /\ xy[1].addr <= xy[2].addr}

\* The fields of a validator are numbers, and determine it.
LEMMA ValidatorIs ==
    ASSUME NEW v \in Validator
    PROVE  /\ v.addr \in Nat /\ v.addr \in Addresses
           /\ v.power \in Nat /\ v.power > 0 /\ v.power \in Powers
           /\ v = [addr |-> v.addr, power |-> v.power]
<1>1. v.addr \in Addresses /\ v.power \in Powers
  BY DEF Validator
<1>2. v.addr \in Nat /\ v.power \in Nat /\ v.power > 0
  <2>1. \A M : M \in Nat /\ v.power \in 1..(M - 1) => v.power \in Nat /\ v.power > 0
    OBVIOUS
  <2>2. v.power \in 1..(2^Width - 1)
    BY <1>1, GatesAssumption, Zenon
  <2>3. 2^Width \in Nat
    BY GatesAssumption, Zenon DEF GatesAssumption
  <2> QED
    BY <1>1, <2>1, <2>2, <2>3, GatesAssumption
<1>3. v = [addr |-> v.addr, power |-> v.power]
  BY DEF Validator
<1> QED
  BY <1>1, <1>2, <1>3

\* The order of the validators is total.
LEMMA PrecedesIsOrder ==
    /\ \A x, y : <<x, y>> \in Precedes /\ <<y, x>> \in Precedes => x = y
    /\ \A x, y \in Validator : <<x, y>> \in Precedes \/ <<y, x>> \in Precedes
    /\ \A x, y, z \in Validator :
          <<x, y>> \in Precedes /\ <<y, z>> \in Precedes => <<x, z>> \in Precedes
    /\ \A x, y \in Validator :
          <<x, y>> \in Precedes <=> ~(\/ y.power > x.power
                                      \/ y.power = x.power /\ y.addr < x.addr)
<1>1. \A x, y : <<x, y>> \in Precedes <=>
          /\ x \in Validator /\ y \in Validator
          /\ \/ x.power > y.power
             \/ x.power = y.power /\ x.addr <= y.addr
  BY DEF Precedes
<1>2. \A x \in Validator : x.power \in Nat /\ x.addr \in Nat
                             /\ x = [addr |-> x.addr, power |-> x.power]
  BY ValidatorIs
<1>3. \A x, y : <<x, y>> \in Precedes /\ <<y, x>> \in Precedes => x = y
  <2> SUFFICES ASSUME NEW x, NEW y, <<x, y>> \in Precedes, <<y, x>> \in Precedes
               PROVE  x = y
    OBVIOUS
  <2>1. x.power = y.power /\ x.addr = y.addr
    BY <1>1, <1>2
  <2> QED
    BY <2>1, <1>1, <1>2
<1>4. ASSUME NEW x \in Validator, NEW y \in Validator
      PROVE  /\ <<x, y>> \in Precedes \/ <<y, x>> \in Precedes
             /\ <<x, y>> \in Precedes <=> ~(\/ y.power > x.power
                                            \/ y.power = x.power /\ y.addr < x.addr)
  <2>1. x.power \in Nat /\ y.power \in Nat /\ x.addr \in Nat /\ y.addr \in Nat
    BY <1>2
  <2>2. /\ <<x, y>> \in Precedes <=> \/ x.power > y.power
                                     \/ x.power = y.power /\ x.addr <= y.addr
        /\ <<y, x>> \in Precedes <=> \/ y.power > x.power
                                     \/ y.power = x.power /\ y.addr <= x.addr
    BY <1>1
  <2> QED
    BY <2>1, <2>2
<1>5. \A x, y, z \in Validator :
          <<x, y>> \in Precedes /\ <<y, z>> \in Precedes => <<x, z>> \in Precedes
  BY <1>1, <1>2
<1> QED
  BY <1>3, <1>4, <1>5, Zenon

\* The rearrangements are those along a permutation of the indices.
LEMMA RearrangedIs ==
    ASSUME NEW vs \in Seq(Validator), NEW ws
    PROVE  ws \in Rearranged(vs) <=>
              \E p \in Arrangements(Len(vs)) : ws = [i \in 1..Len(vs) |-> vs[p[i]]]
<1>1. Injection(1..Len(vs), 1..Len(vs)) = Arrangements(Len(vs))
  BY DEF Injection, IsInjective, Arrangements
<1> QED
  BY <1>1 DEF Rearranged

\* A rearrangement of validators is a sequence of as many.
LEMMA RearrangedSeq ==
    ASSUME NEW vs \in Seq(Validator), NEW ws \in Rearranged(vs)
    PROVE  ws \in Seq(Validator) /\ Len(ws) = Len(vs)
<1>1. PICK p \in Arrangements(Len(vs)) : ws = [i \in 1..Len(vs) |-> vs[p[i]]]
  BY RearrangedIs
<1>2. Len(vs) \in Nat /\ \A i \in 1..Len(vs) : p[i] \in 1..Len(vs)
  BY <1>1 DEF Arrangements
<1>3. \A i \in 1..Len(vs) : vs[p[i]] \in Validator
  BY <1>2
<1>4. ws \in [1..Len(vs) -> Validator]
  BY <1>1, <1>3
<1> QED
  BY <1>2, <1>4, SMT

\* ws has the validators of vs in order.
IsSortedBy(ws, vs) == ws \in Rearranged(vs) /\ Sorted(ws, Len(vs), Precedes)

\* p is an order of vs that SliceStable may choose.
IsStable(p, vs) ==
    \A i, j \in 1..Len(vs) : i < j =>
        /\ <<vs[p[j]], vs[p[i]]>> \notin Less
        /\ <<vs[p[i]], vs[p[j]]>> \in Less \/ p[i] < p[j]

\* One validator precedes another when that one is not less.
LEMMA PrecedesIsNotLess ==
    ASSUME NEW x \in Validator, NEW y \in Validator
    PROVE  /\ <<x, y>> \in Precedes <=> <<y, x>> \notin Less
           /\ <<x, y>> \in Less => <<x, y>> \in Precedes
<1>1. <<y, x>> \in Less <=>
         \/ y.power > x.power
         \/ y.power = x.power /\ y.addr < x.addr
  BY DEF Less
<1>2. <<x, y>> \in Less <=>
         \/ x.power > y.power
         \/ x.power = y.power /\ x.addr < y.addr
  BY DEF Less
<1>3. x.power \in Nat /\ y.power \in Nat /\ x.addr \in Nat /\ y.addr \in Nat
  BY ValidatorIs
<1>4. <<x, y>> \in Precedes <=>
         ~(\/ y.power > x.power
           \/ y.power = x.power /\ y.addr < x.addr)
  BY PrecedesIsOrder
<1> QED
  BY <1>1, <1>2, <1>3, <1>4

\* Every sequence of validators has a stable order: the indices are sorted by the
\* validators they stand for, and equal validators by their indices.
LEMMA StableOrderExists ==
    ASSUME NEW vs \in Seq(Validator)
    PROVE  \E p \in Arrangements(Len(vs)) : IsStable(p, vs)
<1> DEFINE n == Len(vs)
           R == {ab \in (1..n) \X (1..n) :
                    /\ <<vs[ab[1]], vs[ab[2]]>> \in Precedes
                    /\ vs[ab[1]] = vs[ab[2]] => ab[1] <= ab[2]}
           u == [i \in 1..n |-> i]
<1>1. n \in Nat /\ \A i \in 1..n : vs[i] \in Validator
  OBVIOUS
<1>2. \A a, b : <<a, b>> \in R <=>
          /\ a \in 1..n /\ b \in 1..n
          /\ <<vs[a], vs[b]>> \in Precedes
          /\ vs[a] = vs[b] => a <= b
  OBVIOUS
<1>3. \A i \in 1..n : u[i] = i
  OBVIOUS
<1>4. \A i \in 1..n : i \in Nat
  BY <1>1
<1> HIDE DEF n, R, u
<1>5. ASSUME NEW a \in 1..n, NEW b \in 1..n PROVE <<a, b>> \in R \/ <<b, a>> \in R
  <2>1. <<vs[a], vs[b]>> \in Precedes \/ <<vs[b], vs[a]>> \in Precedes
    BY <1>1, PrecedesIsOrder
  <2>2. CASE vs[a] = vs[b]
    <3>1. a <= b \/ b <= a
      BY <1>4
    <3> QED
      BY <1>2, <2>1, <2>2, <3>1
  <2>3. CASE vs[a] # vs[b]
    BY <1>2, <2>1, <2>3
  <2> QED
    BY <2>2, <2>3
<1>6. ASSUME NEW a \in 1..n, NEW b \in 1..n, NEW c \in 1..n,
             <<a, b>> \in R, <<b, c>> \in R
      PROVE  <<a, c>> \in R
  <2>1. <<vs[a], vs[b]>> \in Precedes /\ <<vs[b], vs[c]>> \in Precedes
    BY <1>2, <1>6
  <2>2. <<vs[a], vs[c]>> \in Precedes
    BY <1>1, <2>1, PrecedesIsOrder
  <2>3. ASSUME vs[a] = vs[c] PROVE a <= c
    <3>1. vs[a] = vs[b] /\ vs[b] = vs[c]
      BY <2>1, <2>3, PrecedesIsOrder
    <3>2. a <= b /\ b <= c
      BY <1>2, <1>6, <3>1
    <3> QED
      BY <1>4, <3>2
  <2> QED
    BY <1>2, <2>2, <2>3
<1>7. /\ \A i, j \in 1..n : <<u[i], u[j]>> \in R \/ <<u[j], u[i]>> \in R
      /\ \A i, j, k \in 1..n : <<u[i], u[j]>> \in R /\ <<u[j], u[k]>> \in R
                                    => <<u[i], u[k]>> \in R
  BY <1>3, <1>5, <1>6, Zenon
<1>8. PICK p \in Arrangements(n) : Sorted([i \in 1..n |-> u[p[i]]], n, R)
  BY <1>1, <1>7, SortExists, Zenon
<1>9. ASSUME NEW i \in 1..n, NEW j \in 1..n, i < j
      PROVE  /\ <<vs[p[j]], vs[p[i]]>> \notin Less
             /\ <<vs[p[i]], vs[p[j]]>> \in Less \/ p[i] < p[j]
  <2>1. p[i] \in 1..n /\ p[j] \in 1..n /\ p[i] # p[j]
    BY <1>4, <1>9 DEF Arrangements
  <2>2. <<p[i], p[j]>> \in R
    BY <1>3, <1>8, <1>9, <2>1 DEF Sorted
  <2>3. <<vs[p[i]], vs[p[j]]>> \in Precedes
    BY <1>2, <2>2
  <2>4. <<vs[p[j]], vs[p[i]]>> \notin Less
    BY <1>1, <2>1, <2>3, PrecedesIsNotLess
  <2>5. CASE vs[p[i]] = vs[p[j]]
    <3>1. p[i] <= p[j]
      BY <1>2, <2>2, <2>5
    <3>2. p[i] < p[j]
      BY <1>4, <2>1, <3>1
    <3> QED
      BY <2>4, <3>2
  <2>6. CASE vs[p[i]] # vs[p[j]]
    <3>1. <<vs[p[j]], vs[p[i]]>> \notin Precedes
      BY <2>3, <2>6, PrecedesIsOrder
    <3> QED
      BY <1>1, <2>1, <2>4, <3>1, PrecedesIsNotLess
  <2> QED
    BY <2>5, <2>6
<1> QED
  BY <1>8, <1>9, Zenon DEF IsStable, n

\* sortBridgeValidators and the node both put a set in that order.
LEMMA SortIs ==
    ASSUME NEW vs \in Seq(Validator)
    PROVE  IsSortedBy(sortBridgeValidators(vs), vs) /\ IsSortedBy(NodeOrder(vs), vs)
<1> DEFINE p == CHOOSE p \in Injection(1..Len(vs), 1..Len(vs)) : IsStable(p, vs)
           sv == [i \in 1..Len(vs) |-> vs[p[i]]]
<1>1. p \in Arrangements(Len(vs)) /\ IsStable(p, vs)
  <2>1. Injection(1..Len(vs), 1..Len(vs)) = Arrangements(Len(vs))
    BY DEF Injection, IsInjective, Arrangements
  <2>2. \E q \in Injection(1..Len(vs), 1..Len(vs)) : IsStable(q, vs)
    BY <2>1, StableOrderExists
  <2>3. p \in Injection(1..Len(vs), 1..Len(vs)) /\ IsStable(p, vs)
    BY <2>2, Zenon
  <2> HIDE DEF p
  <2> QED
    BY <2>1, <2>3
<1>2. sortBridgeValidators(vs) = sv
  BY Zenon DEF sortBridgeValidators, SliceStable, IsStable
<1> HIDE DEF p
<1>3. IsSortedBy(sv, vs)
  <2>1. sv \in Rearranged(vs)
    BY <1>1, RearrangedIs
  <2>2. ASSUME NEW i \in 1..Len(vs), NEW j \in 1..Len(vs), i < j
        PROVE  <<sv[i], sv[j]>> \in Precedes
    <3>1. p[i] \in 1..Len(vs) /\ p[j] \in 1..Len(vs)
      BY <1>1 DEF Arrangements
    <3>2. <<vs[p[j]], vs[p[i]]>> \notin Less
      BY <1>1, <2>2 DEF IsStable
    <3> QED
      BY <3>1, <3>2, PrecedesIsNotLess
  <2> QED
    BY <2>1, <2>2, Zenon DEF IsSortedBy, Sorted
<1>4. \A us \in Rearranged(vs) : Sorted(us, Len(vs), Precedes) <=> IsCanonical(us)
  <2> SUFFICES ASSUME NEW us \in Rearranged(vs), NEW i \in 1..Len(vs), NEW j \in 1..Len(vs)
               PROVE  <<us[i], us[j]>> \in Precedes <=>
                        \/ us[i].power > us[j].power
                        \/ us[i].power = us[j].power /\ us[i].addr <= us[j].addr
    BY RearrangedSeq, Zenon DEF Sorted, IsCanonical
  <2>1. us[i] \in Validator /\ us[j] \in Validator
    BY RearrangedSeq
  <2> QED
    BY <2>1 DEF Precedes
<1>5. IsSortedBy(NodeOrder(vs), vs)
  BY <1>3, <1>4 DEF IsSortedBy, NodeOrder
<1> QED
  BY <1>2, <1>3, <1>5


--------------------------------------------------------------------------------
(* Rearranged sets of validators *)

\* Rearranging can be undone.
LEMMA RearrangedSym ==
    ASSUME NEW vs \in Seq(Validator), NEW ws \in Rearranged(vs)
    PROVE  vs \in Rearranged(ws)
<1>1. PICK p \in Arrangements(Len(vs)) : ws = [i \in 1..Len(vs) |-> vs[p[i]]]
  BY RearrangedIs
<1>2. ws \in Seq(Validator) /\ Len(ws) = Len(vs) /\ Len(vs) \in Nat
  BY RearrangedSeq
<1>3. PICK q \in Arrangements(Len(vs)) : \A j \in 1..Len(vs) : p[q[j]] = j
  BY <1>2, ArrangementInverse
<1>4. \A j \in 1..Len(vs) : q[j] \in 1..Len(vs)
  BY Zenon DEF Arrangements
<1>5. vs = [i \in 1..Len(vs) |-> ws[q[i]]]
  BY <1>1, <1>3, <1>4
<1> QED
  BY <1>2, <1>5, RearrangedIs

\* Rearranging twice is rearranging.
LEMMA RearrangedTrans ==
    ASSUME NEW vs \in Seq(Validator), NEW ws \in Rearranged(vs), NEW us \in Rearranged(ws)
    PROVE  us \in Rearranged(vs)
<1>1. PICK p \in Arrangements(Len(vs)) : ws = [i \in 1..Len(vs) |-> vs[p[i]]]
  BY RearrangedIs
<1>2. ws \in Seq(Validator) /\ Len(ws) = Len(vs) /\ Len(vs) \in Nat
  BY RearrangedSeq
<1>3. PICK q \in Arrangements(Len(vs)) : us = [i \in 1..Len(vs) |-> ws[q[i]]]
  BY <1>2, RearrangedIs
<1>4. \A j \in 1..Len(vs) : q[j] \in 1..Len(vs)
  BY DEF Arrangements
<1> DEFINE r == [i \in 1..Len(vs) |-> p[q[i]]]
<1>5. r \in Arrangements(Len(vs))
  BY <1>2, ArrangementCompose
<1>6. us = [i \in 1..Len(vs) |-> vs[r[i]]]
  BY <1>1, <1>3, <1>4
<1> QED
  BY <1>5, <1>6, RearrangedIs

\* Two sequences hold the same validators exactly when their sorted forms are equal.
LEMMA SameBagIffSameOrder ==
    ASSUME NEW vs \in Seq(Validator), NEW ws \in Seq(Validator)
    PROVE  SameBag(vs, ws) <=> sortBridgeValidators(vs) = NodeOrder(ws)
<1> DEFINE sv == sortBridgeValidators(vs)
           nw == NodeOrder(ws)
<1>1. /\ sv \in Rearranged(vs) /\ Sorted(sv, Len(vs), Precedes)
      /\ nw \in Rearranged(ws) /\ Sorted(nw, Len(ws), Precedes)
  BY SortIs DEF IsSortedBy
<1>2. sv \in Seq(Validator) /\ Len(sv) = Len(vs) /\ nw \in Seq(Validator) /\ Len(nw) = Len(ws)
  BY <1>1, RearrangedSeq
<1>3. ws \in Rearranged(nw) /\ vs \in Rearranged(sv)
  BY <1>1, RearrangedSym
<1> HIDE DEF sv, nw
<1>4. ASSUME sv = nw PROVE SameBag(vs, ws)
  <2>1. ws \in Rearranged(sv)
    BY <1>3, <1>4
  <2> QED
    BY <2>1, <1>1, RearrangedTrans DEF SameBag
<1>5. ASSUME SameBag(vs, ws) PROVE sv = nw
  <2>1. ws \in Rearranged(vs)
    BY <1>5 DEF SameBag
  <2>2. ws \in Rearranged(sv)
    BY <2>1, <1>2, <1>3, RearrangedTrans
  <2>3. nw \in Rearranged(sv)
    BY <2>2, <1>1, <1>2, RearrangedTrans
  <2>4. Len(nw) = Len(sv) /\ Len(sv) \in Nat
    BY <2>3, <1>2, RearrangedSeq
  <2>5. PICK p \in Arrangements(Len(sv)) : nw = [i \in 1..Len(sv) |-> sv[p[i]]]
    BY <2>3, <1>2, RearrangedIs
  <2>6. Sorted(sv, Len(sv), Precedes) /\ Sorted(nw, Len(sv), Precedes)
    BY <1>1, <1>2, <2>4
  <2>7. \A i \in 1..Len(sv) : nw[i] = sv[p[i]]
    BY <2>5
  <2>8. \A x, y : <<x, y>> \in Precedes /\ <<y, x>> \in Precedes => x = y
    BY PrecedesIsOrder
  <2>9. ASSUME NEW n, n = Len(sv), NEW R, R = Precedes
        PROVE  \A i \in 1..n : sv[i] = nw[i]
    <3>1. n \in Nat /\ p \in Arrangements(n) /\ (\A i \in 1..n : nw[i] = sv[p[i]])
      BY <2>4, <2>5, <2>7, <2>9
    <3>2. Sorted(sv, n, R) /\ Sorted(nw, n, R)
      BY <2>6, <2>9
    <3>3. \A x, y : <<x, y>> \in R /\ <<y, x>> \in R => x = y
      BY <2>8, <2>9
    <3> QED
      BY <3>1, <3>2, <3>3, SortedUnique
  <2> QED
    BY <2>4, <2>9, <1>2
<1> QED
  BY <1>4, <1>5 DEF sv, nw

--------------------------------------------------------------------------------
(* Encoders *)

\* The word encodeAndHashValidatorSet writes at index i belongs to validator
\* (i + 1) \div 2.
LEMMA Halves ==
    ASSUME NEW j \in Nat \ {0}
    PROVE  /\ (2 * j - 1 + 1) \div 2 = j /\ (2 * j - 1) % 2 = 1
           /\ (2 * j + 1) \div 2 = j /\ (2 * j) % 2 = 0
<1>1. 2 * j - 1 + 1 = 2 * j + 0 /\ 2 * j - 1 = 2 * (j - 1) + 1
  OBVIOUS
<1>2. (2 * j - 1 + 1) \div 2 = j /\ (2 * j) % 2 = 0
  BY <1>1, RemainderIs
<1>3. (2 * j - 1) % 2 = 1
  BY <1>1, RemainderIs
<1>4. (2 * j + 1) \div 2 = j
  BY RemainderIs
<1> QED
  BY <1>2, <1>3, <1>4

\* The encoding determines the sequence.
LEMMA HashInjective ==
    ASSUME NEW vs \in Seq(Validator), NEW ws \in Seq(Validator),
           encodeAndHashValidatorSet(vs) = encodeAndHashValidatorSet(ws)
    PROVE  vs = ws
<1> DEFINE F(us) == [i \in 1..(2 * Len(us)) |->
                        LET v == us[(i + 1) \div 2] IN IF i % 2 = 1 THEN v.addr ELSE v.power]
<1>1. ASSUME NEW us \in Seq(Validator)
      PROVE  /\ F(us) \in Seq(Nat) /\ Len(F(us)) = 2 * Len(us)
             /\ \A j \in 1..Len(us) :
                   F(us)[2 * j - 1] = us[j].addr /\ F(us)[2 * j] = us[j].power
  <2>1. Len(us) \in Nat /\ 2 * Len(us) \in Nat
    OBVIOUS
  <2>2. ASSUME NEW i \in 1..(2 * Len(us)) PROVE F(us)[i] \in Nat
    <3>1. (i + 1) \div 2 \in 1..Len(us)
      BY <2>1, <2>2
    <3>2. us[(i + 1) \div 2] \in Validator
      BY <3>1
    <3> QED
      BY <3>2, ValidatorIs
  <2>3. F(us) \in [1..(2 * Len(us)) -> Nat]
    BY <2>2
  <2>4. F(us) \in Seq(Nat) /\ Len(F(us)) = 2 * Len(us)
    <3> HIDE DEF F
    <3> QED
      BY <2>1, <2>3
  <2>5. ASSUME NEW j \in 1..Len(us)
        PROVE  F(us)[2 * j - 1] = us[j].addr /\ F(us)[2 * j] = us[j].power
    <3>1. 2 * j - 1 \in 1..(2 * Len(us)) /\ 2 * j \in 1..(2 * Len(us)) /\ j \in Nat \ {0}
      BY <2>1
    <3>2. F(us)[2 * j - 1] = IF (2 * j - 1) % 2 = 1 THEN us[(2 * j - 1 + 1) \div 2].addr
                             ELSE us[(2 * j - 1 + 1) \div 2].power
      BY <3>1
    <3>3. F(us)[2 * j] = IF (2 * j) % 2 = 1 THEN us[(2 * j + 1) \div 2].addr
                         ELSE us[(2 * j + 1) \div 2].power
      BY <3>1
    <3> QED
      BY <3>1, <3>2, <3>3, Halves
  <2> QED
    BY <2>4, <2>5
<1>2. <<32, Len(vs)>> \o F(vs) = <<32, Len(ws)>> \o F(ws)
  BY Zenon DEF encodeAndHashValidatorSet, Keccak
<1> HIDE DEF F
<1>3. ASSUME NEW us \in Seq(Validator)
      PROVE  /\ (<<32, Len(us)>> \o F(us))[2] = Len(us)
             /\ \A k \in 1..(2 * Len(us)) : (<<32, Len(us)>> \o F(us))[k + 2] = F(us)[k]
  BY <1>1, AfterPrefix, Len(us) \in Nat
<1>4. Len(vs) = Len(ws)
  BY <1>2, <1>3
<1>5. ASSUME NEW j \in 1..Len(vs) PROVE vs[j] = ws[j]
  <2>1. 2 * j - 1 \in 1..(2 * Len(vs)) /\ 2 * j \in 1..(2 * Len(vs))
    OBVIOUS
  <2>2. \A k \in 1..(2 * Len(vs)) : F(vs)[k] = F(ws)[k]
    BY <1>2, <1>3, <1>4, Zenon
  <2>3. vs[j].addr = ws[j].addr /\ vs[j].power = ws[j].power
    BY <1>1, <1>4, <2>1, <2>2, Zenon
  <2>4. vs[j] \in Validator /\ ws[j] \in Validator
    BY <1>4
  <2> QED
    BY <2>3, <2>4, ValidatorIs, Zenon
<1> QED
  BY <1>4, <1>5

\* computeDomainSeparator tells chains apart.
LEMMA DomainInjective ==
    ASSUME NEW c, NEW d, computeDomainSeparator(c) = computeDomainSeparator(d)
    PROVE  c = d
<1>1. /\ Word("checkpoint") # Keccak(<<"checkpoint", c>>)
      /\ Word("checkpoint") # Keccak(<<"checkpoint", d>>)
  BY DEF Word, Keccak
<1>2. Keccak(<<"checkpoint", c>>) = Keccak(<<"checkpoint", d>>) => c = d
  BY DEF Keccak
<1> QED
  BY <1>1, <1>2 DEF computeDomainSeparator

\* The powers of a sequence of validators.
PowersOf(vs) == [i \in 1..Len(vs) |-> vs[i].power]

\* The total the handler computes in uint64 arithmetic is the sum of the powers
\* modulo 2^Width.
LEMMA TotalPowerIs ==
    ASSUME NEW vs \in Seq(Validator)
    PROVE  /\ Nats(PowersOf(vs), Len(vs)) /\ Total(PowersOf(vs), Len(vs)) \in Nat
           /\ TotalPower(vs) = Total(PowersOf(vs), Len(vs)) % 2^Width
           /\ IdealTotal(vs) = Total(PowersOf(vs), Len(vs))
<1> DEFINE n == Len(vs)
           a == PowersOf(vs)
           M == 2^Width
<1>1. n \in Nat
  OBVIOUS
<1>2. M \in Nat \ {0}
  BY GatesAssumption, Zenon DEF GatesAssumption
<1>3. Nats(a, n)
  BY ValidatorIs DEF Nats, PowersOf
<1>4. \A i \in 1..n : a[i] = vs[i].power
  BY DEF PowersOf
<1>5. Total(a, n) \in Nat
  BY <1>1, <1>3, TotalNat
<1>6. IdealTotal(vs) = Total(a, n)
  <2> DEFINE t == CHOOSE t : t = [i \in 0..n |-> IF i = 0 THEN 0 ELSE t[i - 1] + vs[i].power]
  <2>1. \A s : IsSum(s, a, n) <=>
                  s = [i \in 0..n |-> IF i = 0 THEN 0 ELSE s[i - 1] + vs[i].power]
    BY <1>1, <1>4 DEF IsSum
  <2>2. \E s : IsSum(s, a, n)
    BY <1>1, SumExists
  <2>3. IsSum(t, a, n)
    BY <2>1, <2>2, Zenon
  <2>4. t[n] = Total(a, n)
    BY <1>1, <2>3, TotalIs
  <2> QED
    BY <2>4 DEF IdealTotal
<1>7. TotalPower(vs) = Total(a, n) % M
  <2> DEFINE t == CHOOSE t :
                    t = [i \in 0..n |-> IF i = 0 THEN 0 ELSE (t[i - 1] + vs[i].power) % M]
  <2>1. \A s : IsWrappedSum(s, a, n, M) <=>
                  s = [i \in 0..n |-> IF i = 0 THEN 0 ELSE (s[i - 1] + vs[i].power) % M]
    BY <1>1, <1>4 DEF IsWrappedSum
  <2>2. \E s : IsWrappedSum(s, a, n, M)
    BY <1>1, <1>2, <1>3, WrappedSumExists
  <2>3. IsWrappedSum(t, a, n, M)
    BY <2>1, <2>2, Zenon
  <2>4. t[n] = Total(a, n) % M
    BY <1>1, <1>2, <1>3, <2>3, WrappedTotal
  <2> QED
    BY <2>4 DEF TotalPower, Wrap
<1> QED
  BY <1>3, <1>5, <1>6, <1>7

\* The power threshold does not depend on the order of the validators.
LEMMA ThresholdRearranged ==
    ASSUME NEW vs \in Seq(Validator), NEW ws \in Rearranged(vs)
    PROVE  PowerThreshold(ws) = PowerThreshold(vs) /\ PowerThreshold(vs) \in Int
<1>1. PICK p \in Arrangements(Len(vs)) : ws = [i \in 1..Len(vs) |-> vs[p[i]]]
  BY RearrangedIs
<1>2. ws \in Seq(Validator) /\ Len(ws) = Len(vs) /\ Len(vs) \in Nat
  BY RearrangedSeq
<1>3. \A i \in 1..Len(vs) : p[i] \in 1..Len(vs)
  BY DEF Arrangements
<1>4. PowersOf(ws) = [i \in 1..Len(vs) |-> PowersOf(vs)[p[i]]]
  BY <1>1, <1>2, <1>3 DEF PowersOf
<1>5. Nats(PowersOf(vs), Len(vs))
  BY TotalPowerIs
<1>6. Total(PowersOf(ws), Len(ws)) = Total(PowersOf(vs), Len(vs))
  BY <1>2, <1>4, <1>5, TotalArranged
<1>7. TotalPower(ws) = TotalPower(vs)
  BY <1>2, <1>6, TotalPowerIs
<1>8. TotalPower(vs) \in Int
  <2>1. 2^Width \in Nat \ {0}
    BY GatesAssumption, Zenon DEF GatesAssumption
  <2>2. \A x, M : x \in Nat /\ M \in Nat \ {0} => x % M \in Int
    OBVIOUS
  <2> QED
    BY <2>1, <2>2, TotalPowerIs
<1>9. Wrap(TotalPower(vs) * 2) \in Int
  <2>1. 2^Width \in Nat \ {0}
    BY GatesAssumption, Zenon DEF GatesAssumption
  <2>2. \A x, M : x \in Int /\ M \in Nat \ {0} => (x * 2) % M \in Int
    OBVIOUS
  <2> QED
    BY <1>8, <2>1, <2>2 DEF Wrap
<1> QED
  BY <1>7, <1>9 DEF PowerThreshold


--------------------------------------------------------------------------------
(* SignBridgeCheckpoint *)

\* The four claims of a node with view w.
NodeHash(w) == encodeAndHashValidatorSet(NodeOrder(w.validators))
NodeDomain(w) == computeDomainSeparator(w.chain)
NodeThreshold(w) == PowerThreshold(w.validators)
NodeSnapshot(w) ==
    encodeValsetCheckpoint(NodeDomain(w), NodeThreshold(w), w.ts, NodeHash(w))

\* A request has the fields of the view that was sent and the claims of w.
LEMMA NodeRequestIs ==
    ASSUME NEW sent, NEW w
    PROVE  NodeCheckpointRequest(sent, w) =
             [kind |-> "SignBridgeCheckpoint",
              validators |-> sent.validators, chain |-> sent.chain, ts |-> sent.ts,
              valsetHash |-> NodeHash(w), threshold |-> NodeThreshold(w),
              domainSep |-> NodeDomain(w), expected |-> NodeSnapshot(w)]
BY DEF NodeCheckpointRequest, NodeHash, NodeThreshold, NodeDomain, NodeSnapshot

\* What a node's view and claims are: a non-empty set of well-formed validators,
\* a named chain, and nothing malformed.
LEMMA ViewIs ==
    ASSUME NEW w \in CheckpointView
    PROVE  /\ w.validators \in Seq(Validator) /\ Len(w.validators) \in Nat
           /\ Len(w.validators) >= 1 /\ w.validators # <<>>
           /\ w.chain # "" /\ w.chain \in Chains
           /\ NodeHash(w) # Malformed /\ NodeDomain(w) # Malformed
           /\ NodeSnapshot(w) # Malformed /\ NodeThreshold(w) \in Int
           /\ \A i \in 1..Len(w.validators) :
                 /\ w.validators[i] \in Validator
                 /\ w.validators[i].addr # Malformed
                 /\ w.validators[i].power \in Nat /\ w.validators[i].power > 0
<1>1. w.validators \in SeqsOf(Validator, 1, MaxSet) /\ w.chain \in Chains
  BY DEF CheckpointView
<1>2. MaxSet \in Nat /\ "" \notin Chains
  BY GatesAssumption, Zenon DEF GatesAssumption
<1>3. w.validators \in Seq(Validator) /\ Len(w.validators) \in 1..MaxSet
  BY <1>1, <1>2, SeqsOfIs
<1>4. NodeThreshold(w) \in Int
  <2>1. w.validators \in Rearranged(w.validators)
    BY <1>3, SortIs, RearrangedSym, RearrangedTrans DEF IsSortedBy
  <2> QED
    BY <2>1, <1>3, ThresholdRearranged DEF NodeThreshold
<1>5. NodeHash(w) # Malformed /\ NodeDomain(w) # Malformed /\ NodeSnapshot(w) # Malformed
  <2>1. /\ Malformed # NodeCheckpointRequest(w, w).valsetHash
        /\ Malformed # NodeCheckpointRequest(w, w).domainSep
        /\ Malformed # NodeCheckpointRequest(w, w).expected
    BY MalformedAssumption DEF MalformedAssumption
  <2> QED
    BY <2>1, NodeRequestIs
<1>6. Malformed \notin Addresses
  BY MalformedAssumption DEF MalformedAssumption
<1>7. ASSUME NEW i \in 1..Len(w.validators)
      PROVE  /\ w.validators[i] \in Validator
             /\ w.validators[i].addr # Malformed
             /\ w.validators[i].power \in Nat /\ w.validators[i].power > 0
  <2>1. w.validators[i] \in Validator
    BY <1>3
  <2> QED
    BY <2>1, <1>6, ValidatorIs
<1>8. Len(w.validators) \in Nat /\ Len(w.validators) >= 1 /\ w.validators # <<>>
  <2>1. Len(w.validators) \in Nat /\ Len(w.validators) >= 1
    <3>1. \A m, n : m \in Nat /\ n \in 1..m => n \in Nat /\ n >= 1
      OBVIOUS
    <3> QED
      BY <1>2, <1>3, <3>1
  <2>2. Len(<<>>) = 0
    OBVIOUS
  <2> QED
    BY <2>1, <2>2
<1> QED
  BY <1>1, <1>2, <1>3, <1>4, <1>5, <1>7, <1>8

\* A rearrangement has the same members.
LEMMA RearrangedMembers ==
    ASSUME NEW vs \in Seq(Validator), NEW ws \in Rearranged(vs)
    PROVE  /\ \A i \in 1..Len(ws) : \E j \in 1..Len(vs) : ws[i] = vs[j]
           /\ \A j \in 1..Len(vs) : \E i \in 1..Len(ws) : ws[i] = vs[j]
<1>1. PICK p \in Arrangements(Len(vs)) : ws = [i \in 1..Len(vs) |-> vs[p[i]]]
  BY RearrangedIs
<1>2. ws \in Seq(Validator) /\ Len(ws) = Len(vs) /\ Len(vs) \in Nat
  BY RearrangedSeq
<1>3. \A i \in 1..Len(vs) : p[i] \in 1..Len(vs)
  BY DEF Arrangements
<1>4. \A j \in 1..Len(vs) : \E i \in 1..Len(vs) : p[i] = j
  BY <1>2, ArrangementOnto
<1> QED
  BY <1>1, <1>2, <1>3, <1>4, Zenon

\* The request says of the node's view what the property AgreesWithNode asks.
Agrees(r, w) ==
    /\ SameBag(r.validators, w.validators)
    /\ r.chain = w.chain
    /\ r.ts = w.ts
    /\ \E i \in 1..Len(r.validators) : r.validators[i].addr = Self
    /\ r = NodeCheckpointRequest(r, w)

\* A request whose structured fields come from any view is signed exactly when
\* that view agrees with the node's.
LEMMA SentAgrees ==
    ASSUME NEW sent \in CheckpointView, NEW w \in CheckpointView
    PROVE  LET r == NodeCheckpointRequest(sent, w)
           IN CheckpointVerdict(r) = "OK" <=> Agrees(r, w)
<1> DEFINE r == NodeCheckpointRequest(sent, w)
           vs == sortBridgeValidators(sent.validators)
<1>1. /\ r.validators = sent.validators /\ r.chain = sent.chain /\ r.ts = sent.ts
      /\ r.valsetHash = NodeHash(w) /\ r.threshold = NodeThreshold(w)
      /\ r.domainSep = NodeDomain(w) /\ r.expected = NodeSnapshot(w)
  BY NodeRequestIs
<1>2. r = NodeCheckpointRequest(r, w)
  BY <1>1, NodeRequestIs
<1> HIDE DEF r
<1>3. CheckpointWellFormed(r)
  BY <1>1, ViewIs DEF CheckpointWellFormed
<1>4. /\ sent.validators \in Seq(Validator) /\ w.validators \in Seq(Validator)
      /\ vs \in Rearranged(sent.validators) /\ vs \in Seq(Validator)
      /\ NodeOrder(w.validators) \in Rearranged(w.validators)
      /\ NodeOrder(w.validators) \in Seq(Validator)
  BY ViewIs, SortIs, RearrangedSeq DEF IsSortedBy
<1>5. encodeAndHashValidatorSet(vs) = r.valsetHash
         <=> SameBag(sent.validators, w.validators)
  BY <1>1, <1>4, HashInjective, SameBagIffSameOrder DEF NodeHash
<1>6. SameBag(sent.validators, w.validators) => PowerThreshold(vs) = r.threshold
  BY <1>1, <1>4, ThresholdRearranged DEF SameBag, NodeThreshold
<1>7. computeDomainSeparator(r.chain) = r.domainSep <=> sent.chain = w.chain
  BY <1>1, DomainInjective DEF NodeDomain
<1>8. (\A i \in 1..Len(vs) : vs[i].addr # Self)
         <=> ~\E i \in 1..Len(sent.validators) : sent.validators[i].addr = Self
  <2>1. /\ \A i \in 1..Len(vs) : \E j \in 1..Len(sent.validators) : vs[i] = sent.validators[j]
        /\ \A j \in 1..Len(sent.validators) : \E i \in 1..Len(vs) : vs[i] = sent.validators[j]
    BY <1>4, RearrangedMembers, Zenon
  <2> HIDE DEF vs
  <2> QED
    BY <2>1, Zenon
<1>9. ASSUME encodeAndHashValidatorSet(vs) = r.valsetHash,
             computeDomainSeparator(r.chain) = r.domainSep
      PROVE  encodeValsetCheckpoint(computeDomainSeparator(r.chain), r.threshold, r.ts,
                                    encodeAndHashValidatorSet(vs)) = r.expected
                <=> sent.ts = w.ts
  BY <1>1, <1>9 DEF NodeSnapshot, encodeValsetCheckpoint, Keccak
<1>10. CheckpointVerdict(r) =
          IF \/ encodeAndHashValidatorSet(vs) # r.valsetHash
             \/ PowerThreshold(vs) # r.threshold
             \/ computeDomainSeparator(r.chain) # r.domainSep
          THEN "InvalidArgument"
          ELSE IF \A i \in 1..Len(vs) : vs[i].addr # Self
          THEN "PermissionDenied"
          ELSE IF encodeValsetCheckpoint(computeDomainSeparator(r.chain), r.threshold, r.ts,
                                         encodeAndHashValidatorSet(vs)) # r.expected
          THEN "InvalidArgument"
          ELSE "OK"
  BY <1>1, <1>3 DEF CheckpointVerdict
<1> HIDE DEF vs
<1>11. Agrees(r, w) <=> /\ SameBag(sent.validators, w.validators)
                        /\ sent.chain = w.chain /\ sent.ts = w.ts
                        /\ \E i \in 1..Len(sent.validators) : sent.validators[i].addr = Self
  BY <1>1, <1>2 DEF Agrees
<1> QED
  BY <1>5, <1>6, <1>7, <1>8, <1>9, <1>10, <1>11 DEF r

\* A request of which one field is malformed is not signed and does not agree.
LEMMA GarbledDisagrees ==
    ASSUME NEW w \in CheckpointView, NEW r \in Garbled(NodeCheckpointRequest(w, w))
    PROVE  CheckpointVerdict(r) # "OK" /\ ~Agrees(r, w)
<1> DEFINE g == [kind |-> "SignBridgeCheckpoint",
                 validators |-> w.validators, chain |-> w.chain, ts |-> w.ts,
                 valsetHash |-> NodeHash(w), threshold |-> NodeThreshold(w),
                 domainSep |-> NodeDomain(w), expected |-> NodeSnapshot(w)]
           vs == w.validators
<1>1. r \in Garbled(g)
  BY NodeRequestIs
<1>2. \A q : /\ NodeCheckpointRequest(q, w).valsetHash = NodeHash(w)
             /\ NodeCheckpointRequest(q, w).domainSep = NodeDomain(w)
             /\ NodeCheckpointRequest(q, w).expected = NodeSnapshot(w)
             /\ NodeCheckpointRequest(q, w).threshold = NodeThreshold(w)
  BY NodeRequestIs
<1>3. ASSUME Malformed \in {r.domainSep, r.valsetHash, r.expected}
      PROVE  CheckpointVerdict(r) # "OK" /\ ~Agrees(r, w)
  <2>1. CheckpointVerdict(r) # "OK"
    BY <1>3 DEF CheckpointVerdict, CheckpointWellFormed
  <2>2. ~Agrees(r, w)
    BY <1>2, <1>3, ViewIs DEF Agrees
  <2> QED
    BY <2>1, <2>2
<1>4. CASE r = [g EXCEPT !.valsetHash = Malformed]
  BY <1>3, <1>4
<1>5. CASE r = [g EXCEPT !.domainSep = Malformed]
  BY <1>3, <1>5
<1>6. CASE r = [g EXCEPT !.expected = Malformed]
  BY <1>3, <1>6
<1>7. CASE r = [g EXCEPT !.threshold = @ + 1]
  <2>1. r.validators = vs /\ r.threshold = NodeThreshold(w) + 1
    BY <1>7
  <2>2. /\ vs \in Seq(Validator) /\ sortBridgeValidators(vs) \in Rearranged(vs)
        /\ NodeThreshold(w) \in Int
    BY ViewIs, SortIs DEF IsSortedBy
  <2>3. PowerThreshold(sortBridgeValidators(r.validators)) = NodeThreshold(w)
    BY <2>1, <2>2, ThresholdRearranged DEF NodeThreshold
  <2>4. r.threshold # NodeThreshold(w)
    BY <2>1, <2>2
  <2>5. CheckpointVerdict(r) # "OK"
    BY <2>3, <2>4 DEF CheckpointVerdict
  <2>6. ~Agrees(r, w)
    BY <1>2, <2>4 DEF Agrees
  <2> QED
    BY <2>5, <2>6
<1>8. CASE r = [g EXCEPT !.validators = <<>>]
  <2>1. r.validators = <<>>
    BY <1>8
  <2>2. CheckpointVerdict(r) # "OK"
    BY <2>1 DEF CheckpointVerdict, CheckpointWellFormed
  <2>3. ~Agrees(r, w)
    BY <2>1 DEF Agrees
  <2> QED
    BY <2>2, <2>3
<1>9. CASE r = [g EXCEPT !.chain = ""]
  <2>1. r.chain = ""
    BY <1>9
  <2> QED
    BY <2>1, ViewIs DEF Agrees, CheckpointVerdict, CheckpointWellFormed
<1>10. ASSUME Len(r.validators) = Len(vs), r.validators[1] \notin Validator
              \/ r.validators[1].addr = Malformed \/ r.validators[1].power = 0
       PROVE  ~SameBag(r.validators, vs)
  <2> SUFFICES ASSUME vs \in Rearranged(r.validators) PROVE FALSE
    BY DEF SameBag
  <2> DEFINE n == Len(vs)
  <2>1. PICK p \in Injection(1..n, 1..n) : vs = [i \in 1..n |-> r.validators[p[i]]]
    BY <1>10, Zenon DEF Rearranged
  <2>2. n \in Nat /\ n >= 1 /\ p \in Arrangements(n)
    BY ViewIs DEF Injection, IsInjective, Arrangements
  <2>3. PICK i \in 1..n : p[i] = 1
    BY <2>2, ArrangementOnto
  <2>4. vs[i] = r.validators[1]
    BY <2>1, <2>3
  <2>5. /\ vs[i] \in Validator /\ vs[i].addr # Malformed
        /\ vs[i].power \in Nat /\ vs[i].power > 0
    BY <2>3, ViewIs
  <2> QED
    BY <2>4, <2>5, <1>10
<1>13. vs \in Seq(Validator) /\ Len(vs) \in Nat /\ 1 \in 1..Len(vs) /\ vs[1] \in Validator
  <2>1. vs \in Seq(Validator) /\ Len(vs) \in Nat /\ Len(vs) >= 1
    BY ViewIs
  <2>2. 1 \in 1..Len(vs)
    BY <2>1
  <2> QED
    BY <2>1, <2>2
<1>11. CASE r = [g EXCEPT !.validators[1].addr = Malformed]
  <2>1. r.validators = [vs EXCEPT ![1].addr = Malformed]
    BY <1>11
  <2>2. vs \in Seq(Validator) /\ Len(vs) \in Nat /\ 1 \in 1..Len(vs) /\ vs[1] \in Validator
    BY <1>13
  <2>3. Len(r.validators) = Len(vs) /\ r.validators[1].addr = Malformed
    BY <2>1, <2>2 DEF Validator
  <2>4. ~CheckpointWellFormed(r)
    BY <2>2, <2>3 DEF CheckpointWellFormed
  <2> QED
    BY <2>3, <2>4, <1>10 DEF Agrees, CheckpointVerdict
<1>12. CASE r = [g EXCEPT !.validators[1].power = 0]
  <2>1. r.validators = [vs EXCEPT ![1].power = 0]
    BY <1>12
  <2>2. vs \in Seq(Validator) /\ Len(vs) \in Nat /\ 1 \in 1..Len(vs) /\ vs[1] \in Validator
    BY <1>13
  <2>3. Len(r.validators) = Len(vs) /\ r.validators[1].power = 0
    BY <2>1, <2>2 DEF Validator
  <2>4. ~CheckpointWellFormed(r)
    <3>1. 1 \in 1..Len(r.validators) /\ ~(r.validators[1].power > 0)
      BY <2>2, <2>3
    <3> QED
      BY <3>1, Zenon DEF CheckpointWellFormed
  <2> QED
    BY <2>3, <2>4, <1>10 DEF Agrees, CheckpointVerdict
<1> QED
  BY <1>1, <1>4, <1>5, <1>6, <1>7, <1>8, <1>9, <1>11, <1>12 DEF Garbled


\* 2 * total \div 3, computed in a width the doubled total fits in.
LEMMA ThresholdRounds ==
    ASSUME NEW t \in Nat, NEW M \in Nat \ {0}, 2 * t < M
    PROVE  LET h == (((t % M) * 2) % M) \div 3
           IN 3 * h <= 2 * t /\ 2 * t < 3 * h + 3
<1>1. t % M = t
  BY t = M * 0 + t, t \in 0..(M - 1), RemainderIs
<1>2. (t * 2) % M = t * 2
  BY t * 2 = M * 0 + t * 2, t * 2 \in 0..(M - 1), RemainderIs
<1>3. t * 2 = 3 * ((t * 2) \div 3) + ((t * 2) % 3) /\ (t * 2) % 3 \in 0..2
      /\ (t * 2) \div 3 \in Int
  BY t * 2 \in Int, DivMod
<1> QED
  BY <1>1, <1>2, <1>3

\* A threshold that SignBridgeCheckpoint signs is two thirds of the total.
LEMMA SignedThreshold ==
    ASSUME NEW r, NEW w \in CheckpointView,
           \/ \E sent \in CheckpointView : r = NodeCheckpointRequest(sent, w)
           \/ r \in Garbled(NodeCheckpointRequest(w, w)),
           CheckpointVerdict(r) = "OK",
           2 * IdealTotal(r.validators) < 2^Width
    PROVE  /\ 3 * r.threshold <= 2 * IdealTotal(r.validators)
           /\ 2 * IdealTotal(r.validators) < 3 * r.threshold + 3
<1> DEFINE vs == r.validators
           M == 2^Width
           t == Total(PowersOf(vs), Len(vs))
<1>1. PICK sent \in CheckpointView : r = NodeCheckpointRequest(sent, w)
  BY GarbledDisagrees
<1>2. vs \in Seq(Validator)
  <2>1. r.validators = sent.validators
    BY <1>1, NodeRequestIs
  <2> QED
    BY <2>1, ViewIs
<1>3. PowerThreshold(sortBridgeValidators(vs)) = r.threshold
  BY DEF CheckpointVerdict
<1>4. PowerThreshold(vs) = r.threshold
  BY <1>2, <1>3, SortIs, ThresholdRearranged DEF IsSortedBy
<1>5. IdealTotal(vs) = t /\ TotalPower(vs) = t % M /\ t \in Nat
  BY <1>2, TotalPowerIs
<1>6. M \in Nat \ {0}
  BY GatesAssumption, Zenon DEF GatesAssumption
<1>7. r.threshold = (((t % M) * 2) % M) \div 3
  BY <1>4, <1>5 DEF PowerThreshold, Wrap
<1> HIDE DEF vs, M, t
<1>8. 2 * t < M
  BY <1>5 DEF vs, M
<1> QED
  BY <1>5, <1>6, <1>7, <1>8, ThresholdRounds DEF vs

--------------------------------------------------------------------------------
(* SignOracleAttestation, SignTx and SignInitial *)

\* SignOracleAttestation's checks pass exactly for the fields of the node's view.
LEMMA AttestationAgrees ==
    ASSUME NEW v \in AttestationView, NEW a, a.uints \in [AttestationUints -> Timestamps],
           NEW e, e \in {Malformed, encodeOracleAttestation(v)}
    PROVE  /\ AttestationWellFormed(a, e)
           /\ encodeOracleAttestation(a) = e
           <=>
           /\ Len(a.queryId) \in 1..WordLen
           /\ Bytes32(a.queryId) = v.queryId
           /\ a.value = v.value
           /\ a.uints = v.uints
           /\ a.valsetCheckpoint = v.valsetCheckpoint
           /\ e # Malformed
<1>1. CASE e = Malformed
  BY <1>1 DEF AttestationWellFormed
<1>2. CASE e = encodeOracleAttestation(v) /\ e # Malformed
  <2>1. /\ v.queryId \in SeqsOf(Bytes, 1, WordLen) /\ Len(v.queryId) = WordLen
        /\ v.uints \in [AttestationUints -> Timestamps]
        /\ v.valsetCheckpoint = Keccak("c")
    BY DEF AttestationView, Attestation
  <2>2. WordLen \in Nat
    BY GatesAssumption, Zenon DEF GatesAssumption
  <2>3. v.queryId \in [1..WordLen -> Bytes]
    BY <2>1, <2>2, SeqsOfIs
  <2>4. Bytes32(v.queryId) = v.queryId
    BY <2>1, <2>2, <2>3 DEF Bytes32
  <2>5. Malformed # Keccak("c")
    BY MalformedAssumption, Zenon DEF MalformedAssumption
  <2>6. encodeOracleAttestation(a) = e <=>
           /\ Bytes32(a.queryId) = Bytes32(v.queryId)
           /\ a.value = v.value
           /\ a.uints.timestamp = v.uints.timestamp
           /\ a.uints.aggregatePower = v.uints.aggregatePower
           /\ a.uints.previousTimestamp = v.uints.previousTimestamp
           /\ a.uints.nextTimestamp = v.uints.nextTimestamp
           /\ a.uints.attestationTimestamp = v.uints.attestationTimestamp
           /\ a.uints.lastConsensusTimestamp = v.uints.lastConsensusTimestamp
           /\ a.valsetCheckpoint = v.valsetCheckpoint
    BY <1>2 DEF encodeOracleAttestation, Keccak
  <2>7. /\ a.uints.timestamp = v.uints.timestamp
        /\ a.uints.aggregatePower = v.uints.aggregatePower
        /\ a.uints.previousTimestamp = v.uints.previousTimestamp
        /\ a.uints.nextTimestamp = v.uints.nextTimestamp
        /\ a.uints.attestationTimestamp = v.uints.attestationTimestamp
        /\ a.uints.lastConsensusTimestamp = v.uints.lastConsensusTimestamp
        <=> a.uints = v.uints
    BY <2>1 DEF AttestationUints
  <2> QED
    BY <1>2, <2>1, <2>4, <2>5, <2>6, <2>7 DEF AttestationWellFormed
<1> QED
  BY <1>1, <1>2

\* SignTx's verdict in terms of the set of its messages' types.
LEMMA TxIs ==
    ASSUME NEW s \in Seq(MsgTypes)
    PROVE  TxVerdict(<<"body", s>>) = "OK" <=>
              {s[i] : i \in 1..Len(s)} \in (SUBSET AllowedMsgTypes) \ {{}}
<1> DEFINE S == {s[i] : i \in 1..Len(s)}
<1>1. s # <<>> <=> S # {}
  <2>1. Len(s) \in Nat /\ (s = <<>> <=> Len(s) = 0)
    OBVIOUS
  <2>2. CASE Len(s) = 0
    BY <2>1, <2>2
  <2>3. CASE Len(s) # 0
    <3>1. 1 \in 1..Len(s)
      BY <2>1, <2>3
    <3>2. s[1] \in S
      BY <3>1
    <3> QED
      BY <2>1, <2>3, <3>2
  <2> QED
    BY <2>2, <2>3
<1>2. (\E i \in 1..Len(s) : s[i] \notin AllowedMsgTypes) <=> ~(S \subseteq AllowedMsgTypes)
  OBVIOUS
<1> HIDE DEF S
<1>3. TxVerdict(<<"body", s>>) =
         IF s = <<>> \/ \E i \in 1..Len(s) : s[i] \notin AllowedMsgTypes
         THEN "PermissionDenied" ELSE "OK"
  BY DEF TxVerdict
<1>4. TxVerdict(<<"body", s>>) = "OK" <=> S # {} /\ S \subseteq AllowedMsgTypes
  BY <1>1, <1>2, <1>3
<1>5. S \in (SUBSET AllowedMsgTypes) \ {{}} <=> S # {} /\ S \subseteq AllowedMsgTypes
  OBVIOUS
<1>6. TxVerdict(<<"body", s>>) = "OK" <=> S \in (SUBSET AllowedMsgTypes) \ {{}}
  BY <1>4, <1>5, Zenon
<1> QED
  BY <1>6, Zenon DEF S

\* The two registration messages have different digests.
LEMMA TwoMessages ==
    ASSUME NEW op
    PROVE  \E d, e : /\ d # e
                     /\ {initialSigningDigest(m) :
                             m \in initialRegistrationMessages(op)} = {d, e}
<1> DEFINE x == initialSigningDigest(<<"A", op>>)
           y == initialSigningDigest(<<"B", op>>)
<1>1. {initialSigningDigest(m) : m \in initialRegistrationMessages(op)} = {x, y}
  BY DEF initialRegistrationMessages
<1>2. x # y
  BY DEF initialSigningDigest, Sha
<1> QED
  BY <1>1, <1>2, Zenon

--------------------------------------------------------------------------------
(* The inductive invariant *)

\* What a handler that has run decided, in terms of its request.
Verdict ==
    /\ req.kind = "SignBridgeCheckpoint" => code = CheckpointVerdict(req)
    /\ req.kind = "SignOracleAttestation" =>
          (code = "OK" <=> /\ AttestationWellFormed(req.att, req.expected)
                           /\ encodeOracleAttestation(req.att) = req.expected)
    /\ req.kind = "SignTx" => (signed # {} <=> TxVerdict(req.doc) = "OK")
    /\ req.kind = "SignInitial" =>
          signed = IF req.operator \in OwnOperators
                   THEN {initialSigningDigest(m) :
                             m \in initialRegistrationMessages(req.operator)}
                   ELSE {}

\* The inductive invariant: the request is still one of those a node may send, and
\* a handler that has run decided by it.
GatesInv ==
    /\ CheckpointInit \/ AttestationInit \/ TxInit \/ InitialInit
    /\ code # "pending" => Verdict

\* Each kind of request names its RPC.
LEMMA KindIs ==
    /\ CheckpointInit => req.kind = "SignBridgeCheckpoint"
    /\ AttestationInit => req.kind = "SignOracleAttestation"
    /\ TxInit => req.kind = "SignTx"
    /\ InitialInit => req.kind = "SignInitial"
<1>1. CheckpointInit => req.kind = "SignBridgeCheckpoint"
  <2>1. \A sent, w : NodeCheckpointRequest(sent, w).kind = "SignBridgeCheckpoint"
    BY NodeRequestIs
  <2>2. ASSUME NEW w, NEW r \in Garbled(NodeCheckpointRequest(w, w))
        PROVE  r.kind = "SignBridgeCheckpoint"
    BY NodeRequestIs DEF Garbled
  <2> QED
    BY <2>1, <2>2 DEF CheckpointInit
<1>2. AttestationInit => req.kind = "SignOracleAttestation"
  BY DEF AttestationInit
<1>3. TxInit => req.kind = "SignTx"
  BY DEF TxInit
<1>4. InitialInit => req.kind = "SignInitial"
  <2>1. \A op : [kind |-> "SignInitial", operator |-> op].kind = "SignInitial"
    OBVIOUS
  <2> QED
    BY <2>1, Zenon DEF InitialInit
<1> QED
  BY <1>1, <1>2, <1>3, <1>4

\* Every handler keeps the invariant.
LEMMA GatesStep == GatesInv /\ [Next]_vars => GatesInv'
<1> SUFFICES ASSUME GatesInv, [Next]_vars PROVE GatesInv'
  OBVIOUS
<1>1. CASE UNCHANGED vars
  BY <1>1, Zenon DEF GatesInv, Verdict, vars, CheckpointInit, AttestationInit, TxInit,
     InitialInit
<1>2. CASE Next
  <2>1. req' = req /\ view' = view
    BY <1>2 DEF Next
  <2>2. (CheckpointInit \/ AttestationInit \/ TxInit \/ InitialInit)'
    BY <2>1, Zenon DEF GatesInv, CheckpointInit, AttestationInit, TxInit, InitialInit
  <2>3. CASE SignBridgeCheckpoint
    BY <2>1, <2>2, <2>3 DEF GatesInv, Verdict, SignBridgeCheckpoint
  <2>4. CASE SignOracleAttestation
    BY <2>1, <2>2, <2>4 DEF GatesInv, Verdict, SignOracleAttestation
  <2>5. CASE SignTx
    BY <2>1, <2>2, <2>5 DEF GatesInv, Verdict, SignTx
  <2>6. CASE SignInitial
    <3>1. /\ req.kind = "SignInitial"
          /\ signed' = IF req.operator \notin {"", Malformed} /\ req.operator \in OwnOperators
                       THEN {initialSigningDigest(m) :
                                 m \in initialRegistrationMessages(req.operator)}
                       ELSE {}
      BY <2>6 DEF SignInitial
    <3>2. req.operator \in OwnOperators => req.operator \notin {"", Malformed}
      BY GatesAssumption
    <3> QED
      BY <2>1, <2>2, <3>1, <3>2 DEF GatesInv, Verdict
  <2> QED
    BY <1>2, <2>3, <2>4, <2>5, <2>6 DEF Next
<1> QED
  BY <1>1, <1>2

\* Every reachable state satisfies the invariant.
LEMMA GatesInductive == Spec => []GatesInv
<1>1. Init => GatesInv
  BY DEF Init, GatesInv
<1> QED
  BY <1>1, GatesStep, PTL DEF Spec

--------------------------------------------------------------------------------
(* Results *)

\* For any addresses, powers, chains, timestamps and sizes of the set: what
\* SignBridgeCheckpoint signs is what agrees with the node's view, and it refuses
\* nothing that agrees.  Sorting by power and address, a total order, gives the
\* node's order of a set from any order of it; the encoding of that order, and the
\* separator of a chain, determine them.
THEOREM CheckpointAgreesWithNode == Spec => []AgreesWithNode
<1>1. GatesInv => AgreesWithNode
  <2> SUFFICES ASSUME GatesInv, Ran("SignBridgeCheckpoint")
               PROVE  code = "OK" <=> Agrees(req, view)
    BY DEF AgreesWithNode, Agrees
  <2>1. CheckpointInit /\ code = CheckpointVerdict(req)
    BY KindIs DEF GatesInv, Verdict, Ran
  <2>2. view \in CheckpointView
    BY <2>1 DEF CheckpointInit
  <2>3. CASE \E sent \in CheckpointView : req = NodeCheckpointRequest(sent, view)
    BY <2>1, <2>2, <2>3, SentAgrees
  <2>4. CASE req \in Garbled(NodeCheckpointRequest(view, view))
    BY <2>1, <2>2, <2>4, GarbledDisagrees
  <2> QED
    BY <2>1, <2>3, <2>4 DEF CheckpointInit
<1> QED
  BY <1>1, GatesInductive, PTL

\* For any set of validators whose doubled total power fits in a uint64: the
\* threshold SignBridgeCheckpoint signs is two thirds of that total, rounded down.
THEOREM SignsTwoThirds == Spec => []ThresholdTwoThirds
<1>1. GatesInv => ThresholdTwoThirds
  <2> SUFFICES ASSUME GatesInv, Ran("SignBridgeCheckpoint"), code = "OK",
                      2 * IdealTotal(req.validators) < 2^Width
               PROVE  /\ 3 * req.threshold <= 2 * IdealTotal(req.validators)
                      /\ 2 * IdealTotal(req.validators) < 3 * req.threshold + 3
    BY DEF ThresholdTwoThirds
  <2>1. CheckpointInit /\ code = CheckpointVerdict(req)
    BY KindIs DEF GatesInv, Verdict, Ran
  <2> QED
    BY <2>1, SignedThreshold DEF CheckpointInit
<1> QED
  BY <1>1, GatesInductive, PTL

\* For any word length, values and timestamps: SignOracleAttestation signs exactly
\* what has, field by field, what is in the node's view.
THEOREM AttestationAgreesWithNode == Spec => []SnapshotAgrees
<1>1. GatesInv => SnapshotAgrees
  <2> SUFFICES ASSUME GatesInv, Ran("SignOracleAttestation")
               PROVE  SnapshotAgrees
    BY DEF SnapshotAgrees
  <2>1. AttestationInit
    BY KindIs DEF GatesInv, Ran
  <2>2. code = "OK" <=> /\ AttestationWellFormed(req.att, req.expected)
                        /\ encodeOracleAttestation(req.att) = req.expected
    BY DEF GatesInv, Verdict, Ran
  <2>3. /\ view \in AttestationView
        /\ req.att.uints \in [AttestationUints -> Timestamps]
        /\ req.expected \in {Malformed, encodeOracleAttestation(view)}
    <3>1. view \in AttestationView
      BY <2>1 DEF AttestationInit
    <3>2. PICK sent \in Attestation, bad \in {"none", "queryId", "checkpoint", "snapshot"} :
            req = [kind |-> "SignOracleAttestation",
                   att |-> [sent EXCEPT
                       !.queryId = IF bad = "queryId" THEN @ \o Bytes32(<<>>) ELSE @,
                       !.valsetCheckpoint = IF bad = "checkpoint" THEN Malformed ELSE @],
                   expected |-> IF bad = "snapshot" THEN Malformed
                                ELSE encodeOracleAttestation(view)]
      BY <2>1, Zenon DEF AttestationInit
    <3>3. req.expected \in {Malformed, encodeOracleAttestation(view)}
      BY <3>2
    <3>4. req.att.uints = sent.uints
      <4>1. \A q, c : [sent EXCEPT !.queryId = q, !.valsetCheckpoint = c].uints = sent.uints
        BY DEF Attestation
      <4>2. \E q, c : req.att = [sent EXCEPT !.queryId = q, !.valsetCheckpoint = c]
        BY <3>2, Zenon
      <4> QED
        BY <4>1, <4>2, Zenon
    <3>5. sent.uints \in [AttestationUints -> Timestamps]
      BY DEF Attestation
    <3> QED
      BY <3>1, <3>3, <3>4, <3>5
  <2>4. /\ AttestationWellFormed(req.att, req.expected)
        /\ encodeOracleAttestation(req.att) = req.expected
        <=>
        /\ Len(req.att.queryId) \in 1..WordLen
        /\ Bytes32(req.att.queryId) = view.queryId
        /\ req.att.value = view.value
        /\ req.att.uints = view.uints
        /\ req.att.valsetCheckpoint = view.valsetCheckpoint
        /\ req.expected # Malformed
    BY <2>3, AttestationAgrees
  <2> QED
    BY <2>2, <2>4 DEF SnapshotAgrees
<1> QED
  BY <1>1, GatesInductive, PTL

\* For any message types and operators: SignTx signs exactly the documents with
\* messages, all of them allowed, and SignInitial both registration messages of the
\* signer's own account or none.
THEOREM SigningIsScoped == Spec => []ScopedSigning
<1>1. GatesInv => ScopedSigning
  <2> SUFFICES ASSUME GatesInv PROVE ScopedSigning
    OBVIOUS
  <2>1. ASSUME Ran("SignTx")
        PROVE  signed # {} <=> /\ req.doc[1] = "body"
                               /\ {req.doc[2][i] : i \in 1..Len(req.doc[2])}
                                      \in (SUBSET AllowedMsgTypes) \ {{}}
    <3>1. TxInit /\ (signed # {} <=> TxVerdict(req.doc) = "OK")
      BY <2>1, KindIs DEF GatesInv, Verdict, Ran
    <3>2. CASE req.doc[1] = "body"
      <4>1. PICK s \in SeqsOf(MsgTypes, 0, MaxSet) : req.doc = <<"body", s>>
        BY <3>1, <3>2 DEF TxInit
      <4>2. s \in Seq(MsgTypes)
        BY SeqsOfIs, GatesAssumption
      <4>3. req.doc[1] = "body" /\ req.doc[2] = s
        BY <4>1
      <4> QED
        BY <3>1, <4>1, <4>2, <4>3, TxIs, Zenon
    <3>3. CASE req.doc[1] # "body"
      BY <3>1, <3>3 DEF TxVerdict
    <3> QED
      BY <3>2, <3>3, Zenon
  <2>2. ASSUME Ran("SignInitial")
        PROVE  IF req.operator \in OwnOperators
               THEN \E d, e \in signed : d # e /\ signed = {d, e}
               ELSE signed = {}
    <3>1. signed = IF req.operator \in OwnOperators
                   THEN {initialSigningDigest(m) :
                             m \in initialRegistrationMessages(req.operator)}
                   ELSE {}
      BY <2>2 DEF GatesInv, Verdict, Ran
    <3> QED
      BY <3>1, TwoMessages, Zenon
  <2> QED
    BY <2>1, <2>2, Zenon DEF ScopedSigning
<1> QED
  BY <1>1, GatesInductive, PTL


====
