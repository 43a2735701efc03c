--------------------------- MODULE RetransmitProofs ---------------------------
(***************************************************************************)
(* Theorems about Retransmit, for any numbers of packets, words, losses,   *)
(* requests and delays, and any window of handleRecovery: its types, that  *)
(* nothing is delivered twice, that a request finds what it is about and   *)
(* only what was not delivered (both but for packets found behind a jump), *)
(* and that every gap is asked for.  The argument is that a packet can be  *)
(* asked for in one place only (Chain): when it goes into another bunch,   *)
(* the bunch it was in has left both the air and the retransmit buffer.    *)
(***************************************************************************)
EXTENDS Retransmit, Induction, FiniteSetTheorems, TLAPS

-----------------------------------------------------------------------------
(* Numbers modulo SeqSize.                                                 *)

\* Quotient and remainder, and that they are the only ones.
LEMMA DivMod ==
    ASSUME NEW s \in Nat \ {0}, NEW a \in Int
    PROVE  a \div s \in Int /\ a % s \in 0..(s - 1) /\ a = s * (a \div s) + (a % s)
  OBVIOUS

LEMMA OneQuotient ==
    ASSUME NEW s \in Nat \ {0}, NEW k \in Int, NEW l \in Int,
           NEW x \in 0..(s - 1), NEW y \in 0..(s - 1), s * k + x = s * l + y
    PROVE  k = l /\ x = y
  <1>1. s * (k - l) = y - x
    <2>1. s * (k - l) = s * k - s * l
      OBVIOUS
    <2> QED BY <2>1
  <1>2. -s < y - x /\ y - x < s
    OBVIOUS
  <1>3. k - l >= 1 => s * (k - l) >= s
    OBVIOUS
  <1>4. k - l <= -1 => s * (k - l) <= -s
    OBVIOUS
  <1> QED BY <1>1, <1>2, <1>3, <1>4

LEMMA Remainder ==
    ASSUME NEW s \in Nat \ {0}, NEW a \in Int, NEW k \in Int, NEW x \in 0..(s - 1),
           a = s * k + x
    PROVE  a % s = x
  BY DivMod, OneQuotient

LEMMA ModUnique ==
    ASSUME NEW s \in Nat \ {0}, NEW a \in Nat, NEW b \in Nat,
           a % s = b % s, a < b + s, b < a + s
    PROVE  a = b
  <1> DEFINE k == a \div s
             l == b \div s
             x == a % s
  <1>1. k \in Int /\ l \in Int /\ x \in 0..(s - 1) /\ a = s * k + x /\ b = s * l + x
    BY DivMod
  <1> HIDE DEF k, l, x
  <1>2. s * (k - l) = a - b
    <2>1. s * (k - l) = s * k - s * l
      BY <1>1
    <2> QED BY <2>1, <1>1
  <1>3. k - l >= 1 => s * (k - l) >= s
    BY <1>1
  <1>4. k - l <= -1 => s * (k - l) <= -s
    BY <1>1
  <1>5. k = l
    BY <1>1, <1>2, <1>3, <1>4
  <1> QED BY <1>1, <1>5

LEMMA ModPlus ==
    ASSUME NEW s \in Nat \ {0}, NEW a \in Int, NEW i \in Int
    PROVE  ((a % s) + i) % s = (a + i) % s
  <1> DEFINE k == a \div s
             x == a % s
             c == a + i
             l == c \div s
             y == c % s
             z == x + i
             m == l - k
  <1>1. k \in Int /\ x \in 0..(s - 1) /\ a = s * k + x
    BY DivMod
  <1>2. c \in Int
    OBVIOUS
  <1> HIDE DEF c
  <1>3. l \in Int /\ y \in 0..(s - 1) /\ c = s * l + y
    BY <1>2, DivMod
  <1> HIDE DEF k, x, l, y
  <1>4. z = s * m + y /\ z \in Int /\ m \in Int
    <2>1. s * (l - k) = s * l - s * k
      BY <1>1, <1>3
    <2> QED BY <2>1, <1>1, <1>3 DEF c
  <1> HIDE DEF z, m
  <1>5. z % s = y
    BY <1>3, <1>4, Remainder
  <1> QED BY <1>5 DEF x, y, z, c

LEMMA ModSmall ==
    ASSUME NEW s \in Nat \ {0}, NEW a \in Nat, a < s
    PROVE  a % s = a
  OBVIOUS

LEMMA ModLess ==
    ASSUME NEW s \in Nat \ {0}, NEW a \in Nat, NEW b \in Nat, a <= b, b < a + s
    PROVE  ((b % s) - (a % s)) % s = b - a
  <1> DEFINE k == a \div s
             x == a % s
             i == -x
             c == b + i
             d == b - a
  <1>1. k \in Int /\ x \in 0..(s - 1) /\ a = s * k + x
    BY DivMod
  <1>2. b % s \in Int
    BY DivMod
  <1> HIDE DEF k, x
  <1>3. i \in Int /\ c \in Int /\ d \in 0..(s - 1) /\ c = s * k + d
    BY <1>1
  <1>4. (b % s) - x = (b % s) + i
    BY <1>1, <1>2
  <1> HIDE DEF i, d
  <1>5. ((b % s) + i) % s = c % s
    <2>1. b \in Int
      OBVIOUS
    <2> QED BY <1>3, <2>1, ModPlus
  <1> HIDE DEF c
  <1>6. c % s = d
    BY <1>1, <1>3, Remainder
  <1>7. ((b % s) - x) % s = d
    BY <1>4, <1>5, <1>6, Zenon
  <1>8. x = a % s /\ d = b - a
    BY DEF x, d
  <1> QED BY <1>7, <1>8, Zenon
-----------------------------------------------------------------------------
(* Sequences: entries picked in order, one removed, one found.             *)

\* q[i] holds the entries of s[1], ..., s[i] whose index is in T.
PickedBy(q, s, T) ==
    q = [i \in 0..Len(s) |-> IF i = 0 THEN <<>>
                             ELSE IF i \in T THEN Append(q[i - 1], s[i]) ELSE q[i - 1]]

\* r consists of entries of s with indices in T, up to i, in their order.
Within(r, s, T, i) ==
    \E f \in [1..Len(r) -> 1..i] :
        /\ \A k \in 1..Len(r) : f[k] \in T /\ r[k] = s[f[k]]
        /\ \A k, l \in 1..Len(r) : k < l => f[k] < f[l]

\* One more entry.
LEMMA WithinAppend ==
    ASSUME NEW S, NEW s \in Seq(S), NEW T, NEW i \in 1..Len(s), i \in T,
           NEW r \in Seq(S), Within(r, s, T, i - 1)
    PROVE  Within(Append(r, s[i]), s, T, i)
  <1>1. PICK f \in [1..Len(r) -> 1..(i - 1)] :
            /\ \A k \in 1..Len(r) : f[k] \in T /\ r[k] = s[f[k]]
            /\ \A k, l \in 1..Len(r) : k < l => f[k] < f[l]
    BY DEF Within
  <1> DEFINE n == Len(r)
             r1 == Append(r, s[i])
             f1 == [k \in 1..(n + 1) |-> IF k = n + 1 THEN i ELSE f[k]]
  <1>2. n \in Nat /\ i \in Nat /\ s[i] \in S
    OBVIOUS
  <1>3. Len(r1) = n + 1 /\ r1[n + 1] = s[i] /\ \A k \in 1..n : r1[k] = r[k]
    BY <1>2
  <1> HIDE DEF r1
  <1>4. f1[n + 1] = i /\ \A k \in 1..n : f1[k] = f[k] /\ f1[k] \in 1..(i - 1)
    BY <1>2
  <1>5. f1 \in [1..(n + 1) -> 1..i]
    BY <1>2
  <1> HIDE DEF f1
  <1>6. \A k \in 1..(n + 1) : f1[k] \in T /\ r1[k] = s[f1[k]]
    <2> TAKE k \in 1..(n + 1)
    <2>1. CASE k = n + 1
      BY <1>3, <1>4, <2>1
    <2>2. CASE k \in 1..n
      BY <1>1, <1>3, <1>4, <2>2
    <2> QED BY <1>2, <2>1, <2>2
  <1>7. \A k, l \in 1..(n + 1) : k < l => f1[k] < f1[l]
    <2> SUFFICES ASSUME NEW k \in 1..(n + 1), NEW l \in 1..(n + 1), k < l
                 PROVE  f1[k] < f1[l]
      OBVIOUS
    <2>1. k \in 1..n
      BY <1>2
    <2>2. CASE l = n + 1
      BY <1>2, <1>4, <2>1, <2>2
    <2>3. CASE l \in 1..n
      BY <1>1, <1>4, <2>1, <2>3
    <2> QED BY <1>2, <2>2, <2>3, SMTT(60)
  <1>8. Within(r1, s, T, i)
    BY <1>3, <1>5, <1>6, <1>7 DEF Within
  <1> QED BY <1>8 DEF r1

LEMMA WithinMore ==
    ASSUME NEW s, NEW T, NEW i \in Nat, NEW r, Within(r, s, T, i)
    PROVE  Within(r, s, T, i + 1)
  <1>1. 1..i \subseteq 1..(i + 1)
    OBVIOUS
  <1> QED BY <1>1 DEF Within

\* The picked entries: a function that lists them exists, and what it lists.
LEMMA PickedExists ==
    ASSUME NEW S, NEW s \in Seq(S), NEW T
    PROVE  \E q : PickedBy(q, s, T)
  <1> DEFINE n == Len(s)
             step == [k \in 1..n |-> [r \in Seq(S) |-> IF k \in T THEN Append(r, s[k]) ELSE r]]
  <1>1. n \in Nat /\ <<>> \in Seq(S)
    OBVIOUS
  <1>2. step \in [1..n -> [Seq(S) -> Seq(S)]]
    OBVIOUS
  <1>3. \A k \in 1..n, r \in Seq(S) :
            step[k][r] = IF k \in T THEN Append(r, s[k]) ELSE r
    OBVIOUS
  <1> HIDE DEF step
  <1>4. PICK p \in [0..n -> Seq(S)] :
            p[0] = <<>> /\ \A k \in 1..n : p[k] = step[k][p[k - 1]]
    <2>1. Iterates(Seq(S), <<>>, n, step)
      BY <1>1, <1>2, Iteration
    <2> QED BY <2>1 DEF Iterates
  <1>5. \A i \in 0..n : p[i] = IF i = 0 THEN <<>>
                               ELSE IF i \in T THEN Append(p[i - 1], s[i]) ELSE p[i - 1]
    <2> TAKE i \in 0..n
    <2>1. CASE i = 0
      BY <1>4, <2>1
    <2>2. CASE i # 0
      <3>1. i \in 1..n /\ i - 1 \in 0..n
        BY <1>1, <2>2
      <3>2. p[i - 1] \in Seq(S)
        BY <3>1
      <3> QED BY <1>3, <1>4, <2>2, <3>1, <3>2
    <2> QED BY <2>1, <2>2
  <1>6. PickedBy(p, s, T)
    <2>1. p = [i \in 0..n |-> p[i]]
      OBVIOUS
    <2> QED BY <1>5, <2>1 DEF PickedBy
  <1> QED BY <1>6

LEMMA PickedIs ==
    ASSUME NEW S, NEW s \in Seq(S), NEW T, NEW q, PickedBy(q, s, T)
    PROVE  /\ q[Len(s)] \in Seq(S) /\ Within(q[Len(s)], s, T, Len(s))
           /\ Len(s) > 0 /\ Len(s) \in T
                => Len(q[Len(s)]) > 0 /\ q[Len(s)][Len(q[Len(s)])] = s[Len(s)]
  <1> DEFINE n == Len(s)
             G(i) == q[i] \in Seq(S) /\ Within(q[i], s, T, i)
             U == {i \in Nat : i \in 0..n => G(i)}
  <1>0. n \in Nat
    OBVIOUS
  <1>1. \A i \in 0..n : q[i] = IF i = 0 THEN <<>>
                               ELSE IF i \in T THEN Append(q[i - 1], s[i]) ELSE q[i - 1]
    BY DEF PickedBy
  <1>2. 0 \in U
    <2>1. q[0] = <<>>
      BY <1>0, <1>1
    <2>2. Within(<<>>, s, T, 0)
      <3> DEFINE f == [k \in 1..0 |-> 0]
      <3>1. f \in [1..0 -> 1..0] /\ 1..0 = {}
        OBVIOUS
      <3>2. Len(<<>>) = 0
        OBVIOUS
      <3> QED BY <3>1, <3>2 DEF Within
    <2>3. <<>> \in Seq(S)
      OBVIOUS
    <2>4. G(0)
      BY <2>1, <2>2, <2>3, Zenon
    <2> QED BY <2>4
  <1>3. ASSUME NEW i \in Nat, i \in U PROVE i + 1 \in U
    <2> SUFFICES ASSUME i + 1 \in 0..n PROVE G(i + 1)
      OBVIOUS
    <2>1. i \in 0..n /\ G(i) /\ i + 1 \in 1..n /\ (i + 1) - 1 = i
      BY <1>0, <1>3
    <2>2. CASE i + 1 \in T
      <3>1. q[i + 1] = Append(q[i], s[i + 1]) /\ s[i + 1] \in S
        <4> DEFINE j == i + 1
        <4>1. j \in 0..n /\ j # 0 /\ j \in 1..n /\ j - 1 = i /\ j \in T
          BY <1>0, <2>1, <2>2
        <4>2. s[j] \in S
          BY <4>1
        <4> HIDE DEF j
        <4>3. q[j] = Append(q[i], s[j])
          BY <1>1, <4>1
        <4> QED BY <4>2, <4>3 DEF j
      <3>2. Within(Append(q[i], s[i + 1]), s, T, i + 1)
        <4> DEFINE j == i + 1
        <4>1. j \in 1..Len(s) /\ j \in T /\ j - 1 = i
          BY <2>1, <2>2
        <4> HIDE DEF j
        <4>2. Within(q[i], s, T, j - 1)
          BY <2>1, <4>1
        <4>3. Within(Append(q[i], s[j]), s, T, j)
          BY <2>1, <4>1, <4>2, WithinAppend
        <4> QED BY <4>3 DEF j
      <3> QED BY <2>1, <3>1, <3>2
    <2>3. CASE i + 1 \notin T
      <3>1. q[i + 1] = q[i]
        BY <1>1, <2>1, <2>3
      <3> QED BY <2>1, <3>1, WithinMore
    <2> QED BY <2>2, <2>3
  <1> HIDE DEF U
  <1>4. Nat \subseteq U
    BY <1>2, <1>3, SetInduction
  <1>5. \A i \in 0..n : G(i)
    BY <1>0, <1>4 DEF U
  <1>6. ASSUME n > 0, n \in T PROVE Len(q[n]) > 0 /\ q[n][Len(q[n])] = s[n]
    <2>1. n \in 0..n /\ n - 1 \in 0..n /\ n # 0
      BY <1>0, <1>6
    <2>2. q[n - 1] \in Seq(S) /\ s[n] \in S
      BY <1>5, <2>1, <1>6
    <2>3. q[n] = Append(q[n - 1], s[n])
      BY <1>1, <1>6, <2>1
    <2> QED BY <2>2, <2>3
  <1> QED BY <1>0, <1>5, <1>6

\* pruneOld.
LEMMA NotOlderIs ==
    ASSUME NEW S, NEW s \in Seq(S), NEW keep
    PROVE  /\ NotOlder(s, keep) \in Seq(S)
           /\ Within(NotOlder(s, keep), s, {i \in 1..Len(s) : s[i].age <= keep}, Len(s))
           /\ Len(s) > 0 /\ s[Len(s)].age <= keep
                => /\ Len(NotOlder(s, keep)) > 0
                   /\ NotOlder(s, keep)[Len(NotOlder(s, keep))] = s[Len(s)]
  <1> DEFINE T == {i \in 1..Len(s) : s[i].age <= keep}
             P(q) == q = [i \in 0..Len(s) |->
                             IF i = 0 THEN <<>>
                             ELSE IF s[i].age <= keep THEN Append(q[i - 1], s[i])
                             ELSE q[i - 1]]
  <1>1. NotOlder(s, keep) = (CHOOSE q : P(q))[Len(s)]
    BY DEF NotOlder
  <1>2. ASSUME NEW q PROVE P(q) <=> PickedBy(q, s, T)
    <2>1. \A i \in 0..Len(s) : i # 0 => (s[i].age <= keep <=> i \in T)
      OBVIOUS
    <2> QED BY <2>1 DEF PickedBy
  <1> HIDE DEF P
  <1>3. P(CHOOSE q : P(q))
    BY <1>2, PickedExists
  <1>4. PickedBy(CHOOSE q : P(q), s, T)
    BY <1>2, <1>3
  <1> DEFINE q0 == CHOOSE q : P(q)
  <1>5. NotOlder(s, keep) = q0[Len(s)] /\ PickedBy(q0, s, T)
    BY <1>1, <1>4
  <1>6. Len(s) \in Nat /\ (Len(s) > 0 /\ s[Len(s)].age <= keep => Len(s) \in T)
    OBVIOUS
  <1> HIDE DEF q0, T
  <1>7. /\ q0[Len(s)] \in Seq(S) /\ Within(q0[Len(s)], s, T, Len(s))
        /\ Len(s) > 0 /\ Len(s) \in T
                => Len(q0[Len(s)]) > 0 /\ q0[Len(s)][Len(q0[Len(s)])] = s[Len(s)]
    BY <1>5, PickedIs
  <1> QED BY <1>5, <1>6, <1>7 DEF T

LEMMA KeptIs ==
    ASSUME NEW S, NEW s \in Seq(S), NEW keep
    PROVE  NotOlder(s, keep) \in Seq({e \in S : e.age <= keep})
  <1> DEFINE F == {e \in S : e.age <= keep}
  <1>1. PICK o : o = NotOlder(s, keep)
    OBVIOUS
  <1>2. o \in Seq(S) /\ Within(o, s, {i \in 1..Len(s) : s[i].age <= keep}, Len(s))
    BY <1>1, NotOlderIs
  <1>3. \A k \in 1..Len(o) : o[k] \in F
    <2> TAKE k \in 1..Len(o)
    <2>1. PICK i \in 1..Len(s) : o[k] = s[i] /\ s[i].age <= keep
      BY <1>2 DEF Within
    <2> QED BY <2>1
  <1> HIDE DEF F
  <1>4. o \in Seq(F)
    BY <1>2, <1>3
  <1> QED BY <1>1, <1>4 DEF F

\* The packets at some indices of a bunch.
LEMMA PacketsOfIs ==
    ASSUME NEW n, NEW S, sent[n].packets \in Seq(S), NEW indices
    PROVE  /\ PacketsOf(n, indices) \in Seq(S)
           /\ indices = AllMissing => PacketsOf(n, indices) = sent[n].packets
           /\ indices # AllMissing => Within(PacketsOf(n, indices), sent[n].packets, indices,
                                             Len(sent[n].packets))
  <1> DEFINE s == sent[n].packets
             P(q) == q = [i \in 0..Len(s) |->
                             IF i = 0 THEN <<>>
                             ELSE IF i \in indices THEN Append(q[i - 1], s[i])
                             ELSE q[i - 1]]
  <1>1. PacketsOf(n, indices) = IF indices = AllMissing THEN s ELSE (CHOOSE q : P(q))[Len(s)]
    BY DEF PacketsOf
  <1>2. ASSUME NEW q PROVE P(q) <=> PickedBy(q, s, indices)
    BY DEF PickedBy
  <1> HIDE DEF P
  <1>3. P(CHOOSE q : P(q))
    BY <1>2, PickedExists
  <1> DEFINE q0 == CHOOSE q : P(q)
  <1>4. PickedBy(q0, s, indices)
    BY <1>2, <1>3
  <1> HIDE DEF q0
  <1>5. q0[Len(s)] \in Seq(S) /\ Within(q0[Len(s)], s, indices, Len(s))
    BY <1>4, PickedIs
  <1> QED BY <1>1, <1>5 DEF q0

\* What is within an ordered sequence is ordered.
Increasing(b) == \A i, k \in 1..Len(b) : i < k => b[i].n < b[k].n

LEMMA WithinIs ==
    ASSUME NEW s, NEW T, NEW r, Within(r, s, T, Len(s))
    PROVE  /\ \A k \in 1..Len(r) : \E l \in 1..Len(s) : l \in T /\ r[k] = s[l]
           /\ Increasing(s) => Increasing(r)
  BY SMTT(60) DEF Within, Increasing

LEMMA RemoveAtIs ==
    ASSUME NEW S, NEW s \in Seq(S), NEW j \in 1..Len(s)
    PROVE  /\ RemoveAt(s, j) \in Seq(S)
           /\ Within(RemoveAt(s, j), s, 1..Len(s) \ {j}, Len(s))
  <1> DEFINE u == SubSeq(s, 1, j - 1)
             v == SubSeq(s, j + 1, Len(s))
             r == u \o v
             f == [k \in 1..(Len(s) - 1) |-> IF k < j THEN k ELSE k + 1]
  <1>1. u \in Seq(S) /\ Len(u) = j - 1 /\ \A k \in 1..(j - 1) : u[k] = s[k]
    OBVIOUS
  <1>2. v \in Seq(S) /\ Len(v) = Len(s) - j /\ \A k \in 1..(Len(s) - j) : v[k] = s[k + j]
    OBVIOUS
  <1> HIDE DEF u, v
  <1>3. r \in Seq(S) /\ Len(r) = Len(s) - 1
    BY <1>1, <1>2
  <1>4. f \in [1..Len(r) -> 1..Len(s)]
    BY <1>3
  <1>5. ASSUME NEW k \in 1..Len(r)
        PROVE  f[k] \in 1..Len(s) \ {j} /\ r[k] = s[f[k]]
    <2>1. CASE k < j
      BY <1>1, <1>2, <1>3, <2>1
    <2>2. CASE ~(k < j)
      <3>1. r[k] = v[k - Len(u)] /\ k - Len(u) \in 1..(Len(s) - j)
        BY <1>1, <1>2, <1>3, <2>2
      <3>2. f[k] = k + 1 /\ (k - Len(u)) + j = k + 1
        BY <1>1, <1>3, <2>2
      <3> QED BY <1>2, <1>3, <2>2, <3>1, <3>2
    <2> QED BY <2>1, <2>2
  <1>6. \A k, l \in 1..Len(r) : k < l => f[k] < f[l]
    BY <1>3
  <1>7. Within(r, s, 1..Len(s) \ {j}, Len(s))
    BY <1>4, <1>5, <1>6 DEF Within
  <1> QED BY <1>3, <1>7 DEF RemoveAt, u, v

\* Least and greatest elements.
LEMMA MinIs ==
    ASSUME NEW I \in SUBSET Nat, I # {}
    PROVE  Min(I) \in I /\ \A y \in I : Min(I) <= y
  <1>1. \E x \in I : \A y \in I : x <= y
    BY Least
  <1> QED BY <1>1 DEF Min

LEMMA MinOfTwo ==
    ASSUME NEW a \in Int, NEW b \in Int
    PROVE  Min({a, b}) = IF a <= b THEN a ELSE b
  BY DEF Min

LEMMA MaxOfTwo ==
    ASSUME NEW a \in Int, NEW b \in Int
    PROVE  Max({a, b}) = IF a >= b THEN a ELSE b
  BY DEF Max

\* A bounded set of naturals has a greatest element.
LEMMA MaxIs ==
    ASSUME NEW I \in SUBSET Nat, I # {}, NEW bound \in Nat, \A y \in I : y <= bound
    PROVE  Max(I) \in I /\ \A y \in I : Max(I) >= y
  <1> DEFINE J == {bound - y : y \in I}
  <1>1. J \in SUBSET Nat /\ J # {}
    <2>1. \A y \in I : bound - y \in Nat
      OBVIOUS
    <2>2. PICK y \in I : TRUE
      OBVIOUS
    <2>3. bound - y \in J
      OBVIOUS
    <2> QED BY <2>1, <2>3
  <1>2. PICK z \in J : \A y \in J : z <= y
    BY <1>1, Least
  <1>3. PICK x \in I : z = bound - x
    OBVIOUS
  <1>4. \A y \in I : x >= y
    <2> TAKE y \in I
    <2>1. bound - y \in J
      OBVIOUS
    <2> QED BY <1>2, <1>3, <2>1
  <1> QED BY <1>3, <1>4 DEF Max

\* Where scheduleRetransmit finds a bunch.
LEMMA AskedForIs ==
    ASSUME buffer \in Seq([n : 1..Len(sent), age : 0..Top]), NEW seq, NEW indices
    PROVE  /\ AskedFor(seq, indices) \in 0..Len(buffer)
           /\ AskedFor(seq, indices) # 0 => sent[buffer[AskedFor(seq, indices)].n].seq = seq
           /\ AskedFor(seq, indices) = 0 /\ indices = AllMissing
                => \A i \in 1..Len(buffer) : sent[buffer[i].n].seq # seq
  <1> DEFINE I == {i \in 1..Len(buffer) : sent[buffer[i].n].seq = seq}
             j == IF I # {} THEN Min(I) ELSE 0
  <1>1. SelectInSeq(buffer, LAMBDA e : sent[e.n].seq = seq) = j
    BY DEF SelectInSeq
  <1>2. j \in 0..Len(buffer) /\ (j # 0 => j \in I) /\ (j = 0 => I = {})
    <2>1. CASE I # {}
      <3>1. I \in SUBSET Nat
        OBVIOUS
      <3>2. Min(I) \in I
        BY <2>1, <3>1, MinIs
      <3> HIDE DEF I
      <3>3. j = Min(I)
        BY <2>1
      <3>4. Min(I) \in 1..Len(buffer)
        BY <3>2 DEF I
      <3> QED BY <3>2, <3>3, <3>4
    <2>2. CASE I = {}
      BY <2>2, SMTT(60)
    <2> QED BY <2>1, <2>2
  <1>3. AskedFor(seq, indices) = j \/ (AskedFor(seq, indices) = 0 /\ indices # AllMissing)
    BY <1>1 DEF AskedFor
  <1> HIDE DEF j
  <1> QED BY <1>2, <1>3

-----------------------------------------------------------------------------
(* Seconds, and getStatus.                                                 *)

LEMMA TopIs == Top \in Nat /\ Top >= 1 /\ Top > BufferKeep /\ Top > HashKeep /\ Top > Flight
  <1> DEFINE I == {BufferKeep, HashKeep, Flight}
             b == BufferKeep + HashKeep + Flight
  <1>1. I \in SUBSET Nat /\ I # {} /\ b \in Nat /\ \A y \in I : y <= b
    BY BufferAssumption, HashAssumption, RetransmitAssumption
  <1>2. Max(I) \in I /\ \A y \in I : Max(I) >= y
    BY <1>1, MaxIs
  <1>3. Top = 1 + Max(I)
    BY DEF Top
  <1> DEFINE m == Max(I)
  <1>4. m \in Nat /\ m >= BufferKeep /\ m >= HashKeep /\ m >= Flight /\ Top = 1 + m
    BY <1>1, <1>2, <1>3
  <1> HIDE DEF m
  <1> QED BY <1>4, BufferAssumption, HashAssumption, RetransmitAssumption

\* Older changes the ages only.
LEMMA OlderIs ==
    ASSUME NEW S, NEW s \in Seq(S), \A e \in S : e.age \in 0..Top,
           \A e \in S, x \in 0..Top : [e EXCEPT !.age = x] \in S
    PROVE  /\ Older(s, Top) \in Seq(S) /\ Len(Older(s, Top)) = Len(s)
           /\ \A i \in 1..Len(s) : \E x \in 0..Top : Older(s, Top)[i] = [s[i] EXCEPT !.age = x]
  <1>1. Top \in Nat
    BY TopIs
  <1>2. DOMAIN s = 1..Len(s) /\ Len(s) \in Nat /\ \A i \in 1..Len(s) : s[i] \in S
    OBVIOUS
  <1>3. \A i \in 1..Len(s) : Min({s[i].age + 1, Top}) \in 0..Top
    <2> TAKE i \in 1..Len(s)
    <2> DEFINE x == s[i].age + 1
    <2>1. x \in Nat /\ x \in Int /\ Top \in Int
      BY <1>1, <1>2
    <2> HIDE DEF x
    <2>3. Min({x, Top}) = IF x <= Top THEN x ELSE Top
      BY <2>1, MinOfTwo
    <2>2. Min({x, Top}) \in 0..Top
      BY <1>1, <2>1, <2>3
    <2> QED BY <2>2 DEF x
  <1> DEFINE m(i) == Min({s[i].age + 1, Top})
             o == [i \in 1..Len(s) |-> [s[i] EXCEPT !.age = m(i)]]
  <1>4. Older(s, Top) = o
    BY <1>2 DEF Older
  <1>5. \A i \in 1..Len(s) : m(i) \in 0..Top
    BY <1>3
  <1> HIDE DEF m
  <1>6. \A i \in 1..Len(s) : o[i] = [s[i] EXCEPT !.age = m(i)] /\ o[i] \in S
    BY <1>2, <1>5
  <1>7. o \in Seq(S) /\ Len(o) = Len(s)
    BY <1>2, <1>6
  <1> HIDE DEF o
  <1> QED BY <1>4, <1>5, <1>6, <1>7

\* One turn of getStatus: the list stays, or takes a list that matches.
Answers(E, R) == {NoReply} \cup {Reply(a, b) : a \in R, b \in E}
Statuses(E, R) == [expected : Seq(E), received : Seq(R), reply : Answers(E, R)]

LEMMA SettleIs ==
    ASSUME NEW E, NEW R, NEW st \in Statuses(E, R), NEW a \in R
    PROVE  /\ Settle(st, a) \in Statuses(E, R)
           /\ \/ Settle(st, a).reply = NoReply
              \/ \E b \in E : Compare(a, b) /\ Settle(st, a).reply = Reply(a, b)
  <1> DEFINE I == {i \in 1..Len(st.expected) : Compare(a, st.expected[i])}
             j == IF I # {} THEN Min(I) ELSE 0
  <1>1. SelectInSeq(st.expected, LAMBDA b : Compare(a, b)) = j
    BY DEF SelectInSeq
  <1>2. st.expected \in Seq(E) /\ st.received \in Seq(R) /\ st.reply \in Answers(E, R)
    BY DEF Statuses
  <1>3. j = 0 \/ (j \in 1..Len(st.expected) /\ Compare(a, st.expected[j]))
    <2>1. CASE I # {}
      <3>1. I \in SUBSET Nat
        BY <1>2
      <3>2. Min(I) \in I
        BY <2>1, <3>1, MinIs
      <3>3. j = Min(I)
        BY <2>1
      <3> HIDE DEF j
      <3> QED BY <3>2, <3>3
    <2>2. CASE I = {}
      BY <2>2
    <2> QED BY <2>1, <2>2
  <1>4. Settle(st, a) =
            IF j = 0 THEN [st EXCEPT !.received = Append(@, a), !.reply = NoReply]
            ELSE [st EXCEPT !.expected = RemoveAt(@, j), !.reply = Reply(a, st.expected[j])]
    BY <1>1 DEF Settle
  <1> HIDE DEF j, I
  <1>5. CASE j = 0
    <2>1. Append(st.received, a) \in Seq(R) /\ NoReply \in Answers(E, R)
      BY <1>2 DEF Answers
    <2>2. Settle(st, a) = [st EXCEPT !.received = Append(@, a), !.reply = NoReply]
      BY <1>4, <1>5
    <2> QED BY <2>1, <2>2 DEF Statuses
  <1>6. CASE j # 0
    <2> DEFINE b == st.expected[j]
               r == RemoveAt(st.expected, j)
    <2>1. b \in E /\ Compare(a, b) /\ j \in 1..Len(st.expected)
      BY <1>2, <1>3, <1>6
    <2>2. r \in Seq(E)
      BY <1>2, <2>1, RemoveAtIs
    <2>3. Reply(a, b) \in Answers(E, R)
      BY <2>1 DEF Answers
    <2>4. Settle(st, a) = [st EXCEPT !.expected = r, !.reply = Reply(a, b)]
      BY <1>4, <1>6
    <2> HIDE DEF r, b
    <2> QED BY <2>1, <2>2, <2>3, <2>4 DEF Statuses
  <1> QED BY <1>5, <1>6

\* getStatus: the lists left are some of the lists given that are not too old,
\* and what is returned is for the last list that was decoded.
LEMMA GetStatusIs ==
    ASSUME NEW E, NEW R, NEW exp \in Seq(E), NEW rec \in Seq(R),
           NEW F, F = {e \in E : e.age <= HashKeep}
    PROVE  /\ GetStatus(exp, rec) \in Statuses(F, R)
           /\ Len(rec) > 0 /\ rec[Len(rec)].age <= HashKeep =>
                \/ GetStatus(exp, rec).reply = NoReply
                \/ \E b \in F : /\ Compare(rec[Len(rec)], b)
                                /\ GetStatus(exp, rec).reply = Reply(rec[Len(rec)], b)
  <1> DEFINE lists == PruneOldLists(rec)
             n == Len(lists)
             st0 == [expected |-> PruneOldLists(exp), received |-> <<>>, reply |-> NoReply]
             St == Statuses(F, R)
             P(q) == q = [i \in 0..n |-> IF i = 0 THEN st0 ELSE Settle(q[i - 1], lists[i])]
             step == [k \in 1..n |-> [t \in St |-> Settle(t, lists[k])]]
  <1>1. GetStatus(exp, rec) = (CHOOSE q : P(q))[n]
    BY DEF GetStatus
  <1>2. lists \in Seq(R) /\ n \in Nat
    <2>1. lists = NotOlder(rec, HashKeep)
      BY DEF PruneOldLists
    <2> HIDE DEF lists, P, step, st0
    <2>2. NotOlder(rec, HashKeep) \in Seq(R)
      BY NotOlderIs
    <2>3. lists \in Seq(R)
      BY <2>1, <2>2
    <2> QED BY <2>3
  <1>3. st0 \in St
    <2>1. PruneOldLists(exp) \in Seq(F)
      BY KeptIs DEF PruneOldLists
    <2>2. <<>> \in Seq(R) /\ NoReply \in Answers(F, R)
      BY DEF Answers
    <2> HIDE DEF NoReply
    <2> QED BY <2>1, <2>2 DEF Statuses
  <1>4. Len(rec) > 0 /\ rec[Len(rec)].age <= HashKeep => n > 0 /\ lists[n] = rec[Len(rec)]
    <2>1. lists = NotOlder(rec, HashKeep)
      BY DEF PruneOldLists
    <2> HIDE DEF lists
    <2>2. Len(rec) > 0 /\ rec[Len(rec)].age <= HashKeep
                => /\ Len(NotOlder(rec, HashKeep)) > 0
                   /\ NotOlder(rec, HashKeep)[Len(NotOlder(rec, HashKeep))] = rec[Len(rec)]
      BY NotOlderIs
    <2> QED BY <2>1, <2>2
  <1> HIDE DEF lists, st0, St
  <1>5. \A t \in St, k \in 1..n : Settle(t, lists[k]) \in St
    <2> TAKE t \in St, k \in 1..n
    <2>1. lists[k] \in R /\ t \in Statuses(F, R)
      BY <1>2 DEF St
    <2> QED BY <2>1, SettleIs DEF St
  <1>6. step \in [1..n -> [St -> St]]
    BY <1>5
  <1>7. \A k \in 1..n, t \in St : step[k][t] = Settle(t, lists[k])
    OBVIOUS
  <1> HIDE DEF step, n
  <1>8. PICK p \in [0..n -> St] : p[0] = st0 /\ \A k \in 1..n : p[k] = step[k][p[k - 1]]
    <2>1. Iterates(St, st0, n, step)
      BY <1>2, <1>3, <1>6, Iteration
    <2> QED BY <2>1 DEF Iterates
  <1>9. P(p)
    <2>1. p = [i \in 0..n |-> p[i]]
      OBVIOUS
    <2>2. \A i \in 0..n : p[i] = IF i = 0 THEN st0 ELSE Settle(p[i - 1], lists[i])
      <3> TAKE i \in 0..n
      <3>1. CASE i = 0
        BY <1>8, <3>1
      <3>2. CASE i # 0
        <4>1. i \in 1..n /\ i - 1 \in 0..n
          BY <1>2, <3>2
        <4>2. p[i - 1] \in St
          BY <4>1
        <4> QED BY <1>7, <1>8, <3>2, <4>1, <4>2
      <3> QED BY <3>1, <3>2
    <2> QED BY <2>1, <2>2
  <1>10. ASSUME NEW q, P(q) PROVE \A i \in 0..n : q[i] \in St
    <2> DEFINE U == {k \in Nat : k \in 0..n => q[k] \in St}
    <2>1. \A i \in 0..n : q[i] = IF i = 0 THEN st0 ELSE Settle(q[i - 1], lists[i])
      BY <1>10
    <2>2. 0 \in U
      BY <1>2, <1>3, <2>1
    <2>3. ASSUME NEW k \in Nat, k \in U PROVE k + 1 \in U
      <3> SUFFICES ASSUME k + 1 \in 0..n PROVE q[k + 1] \in St
        OBVIOUS
      <3>1. k \in 0..n /\ q[k] \in St /\ k + 1 \in 1..n
        BY <1>2, <2>3
      <3>2. q[k + 1] = Settle(q[k], lists[k + 1])
        <4>1. k + 1 # 0 /\ (k + 1) - 1 = k
          OBVIOUS
        <4> QED BY <2>1, <4>1
      <3> QED BY <1>5, <3>1, <3>2
    <2> HIDE DEF U
    <2>4. Nat \subseteq U
      BY <2>2, <2>3, SetInduction
    <2> QED BY <1>2, <2>4 DEF U
  <1> DEFINE q0 == CHOOSE q : P(q)
  <1>11. P(q0) /\ GetStatus(exp, rec) = q0[n]
    <2> HIDE DEF P
    <2> QED BY <1>1, <1>9
  <1> HIDE DEF q0
  <1>12. q0[n] \in St /\ (n > 0 => q0[n] = Settle(q0[n - 1], lists[n]) /\ q0[n - 1] \in St /\ lists[n] \in R)
    <2>1. \A i \in 0..n : q0[i] \in St
      BY <1>10, <1>11
    <2>2. \A i \in 0..n : q0[i] = IF i = 0 THEN st0 ELSE Settle(q0[i - 1], lists[i])
      BY <1>11
    <2>3. n \in 0..n /\ (n > 0 => n - 1 \in 0..n /\ n # 0 /\ n \in 1..n)
      BY <1>2
    <2>4. n > 0 => lists[n] \in R
      BY <1>2, <2>3 DEF n
    <2> QED BY <2>1, <2>2, <2>3, <2>4
  <1>13. ASSUME Len(rec) > 0, rec[Len(rec)].age <= HashKeep
         PROVE  \/ q0[n].reply = NoReply
                \/ \E b \in F : Compare(rec[Len(rec)], b) /\ q0[n].reply = Reply(rec[Len(rec)], b)
    <2> DEFINE a == rec[Len(rec)]
    <2>1. a \in R /\ q0[n] = Settle(q0[n - 1], a) /\ q0[n - 1] \in Statuses(F, R)
      BY <1>4, <1>12, <1>13 DEF St
    <2> HIDE DEF a
    <2>2. \/ Settle(q0[n - 1], a).reply = NoReply
          \/ \E b \in F : Compare(a, b) /\ Settle(q0[n - 1], a).reply = Reply(a, b)
      BY <2>1, SettleIs
    <2> QED BY <2>1, <2>2 DEF a
  <1> QED BY <1>11, <1>12, <1>13 DEF St
-----------------------------------------------------------------------------
(* The invariant.                                                          *)

\* Which bunches left the air; what a bunch, the packets to send again and
\* the tun buffer hold; which bunches can be asked for, and which cannot any
\* more.
Off(n) == n <= Len(sent) - Len(air)
Has(n, p) == \E i \in 1..Len(sent[n].packets) : sent[n].packets[i] = p
InBuffer(n) == \E i \in 1..Len(buffer) : buffer[i].n = n
InNeed(p) == \E i \in 1..Len(need_retransmit) : need_retransmit[i] = p
Spent(n) == Off(n) /\ ~InBuffer(n)

Distinct(s) == \A i, k \in 1..Len(s) : i # k => s[i] # s[k]
Bunches == 1..Len(sent)

\* The shapes of the state: TypeOK, with sequences.
Entry == [n : Bunches, age : 0..Top]
Bunch == [seq : 0..(SeqSize - 1), packets : Seq(Packet)]
Hashes == Seq(Packet \cup {Bad})
List == [n : Bunches, seq : 0..(SeqSize - 1), hashes : Hashes, age : 0..Top]
Received == {l \in List : l.seq = sent[l.n].seq}
Expected == {l \in Received : l.hashes = sent[l.n].packets}

Shapes ==
    /\ setting \in Settings
    /\ sent \in Seq(Bunch) /\ \A n \in Bunches : Len(sent[n].packets) \in 1..MaxWords
    /\ tun \in Seq(Packet) /\ need_retransmit \in Seq(Packet)
    /\ arb_seq \in 0..(SeqSize - 1) /\ expected_seq \in 0..(SeqSize - 1)
    /\ slots \in 0..SlotsPerSec
    /\ buffer \in Seq(Entry) /\ air \in Seq(Entry)
    /\ hashNet \in Seq(Bunches) /\ lost \in SUBSET Bunches /\ seen \in 0..Len(sent)
    /\ requestNet \in Seq(Request)
    /\ expected \in Seq(Expected) /\ received \in Seq(Received)
    /\ delivered \in [Packet -> Nat] /\ beyond \in SUBSET Packet
    /\ budget \in [Damage -> Nat]

\* Bunches are numbered in turn, leave the air in turn, and those passed over
\* were lost.
Numbers ==
    /\ \A n \in Bunches : sent[n].seq = (n - 1) % SeqSize
    /\ arb_seq = Len(sent) % SeqSize /\ expected_seq = seen % SeqSize
    /\ Len(air) <= Len(sent)
    /\ \A i \in 1..Len(air) : air[i].n = Len(sent) - Len(air) + i
    /\ Off(seen) /\ seen \notin lost
    /\ \A m \in Bunches : m \in lost => Off(m)
    /\ \A m \in Bunches : Off(m) /\ seen < m => m \in lost
    /\ Increasing(buffer)

\* A packet is in a later bunch, or waits to be sent again, only when the
\* bunch it was in cannot be asked for any more.
Chain ==
    /\ \A n, m \in Bunches, p \in Packet : n < m /\ Has(n, p) /\ Has(m, p) => Spent(n)
    /\ \A n \in Bunches, p \in Packet : Has(n, p) /\ InNeed(p) => Spent(n)
    /\ \A n \in Bunches : Distinct(sent[n].packets)
    /\ Distinct(need_retransmit)
    /\ \A p \in Packet : InNeed(p) => \E n \in Bunches : Has(n, p)
    /\ \A n \in Bunches, p \in Packet, i \in 1..Len(tun) : Has(n, p) => p < tun[i]
    /\ \A i, k \in 1..Len(tun) : i < k => tun[i] < tun[k]

\* How often a packet was delivered, for all but those behind a jump.
written == [p \in Packet |-> IF p \in beyond THEN 0 ELSE delivered[p]]

\* What may still be delivered was not.
Undelivered ==
    /\ \A p \in Packet : written[p] <= 1
    /\ \A p \in Packet : InNeed(p) => written[p] = 0
    /\ \A p \in Packet : (\A n \in Bunches : ~Has(n, p)) => written[p] = 0
    /\ \A n \in Bunches, p \in Packet : Has(n, p) /\ ~Off(n) => written[p] = 0
    /\ \A n \in Bunches, p \in Packet :
           Has(n, p) /\ n \in lost /\ InBuffer(n) => written[p] = 0

\* A request names a bunch that left the air, by its number, and asks for what
\* was not delivered, unless the bunch is gone.
Asks(r, n, k) == r.of = n /\ (r.indices = AllMissing \/ k \in r.indices)
Sound(r) ==
    /\ r.of \in Bunches /\ Off(r.of) /\ r.seq = sent[r.of].seq
    /\ InBuffer(r.of) =>
           \A k \in 1..Len(sent[r.of].packets) :
               Asks(r, r.of, k) => written[sent[r.of].packets[k]] = 0
Requests == \A i \in 1..Len(requestNet) : Sound(requestNet[i])

\* A lost bunch that was passed over and can still be found is asked for.
GapsAsked ==
    /\ budget["request"] <= setting.budget["request"]
    /\ budget["request"] = setting.budget["request"] =>
           \A m \in Bunches : m \in lost /\ m < seen /\ InBuffer(m) =>
               \E i \in 1..Len(requestNet) : /\ requestNet[i].of = m
                                             /\ requestNet[i].indices = AllMissing

-----------------------------------------------------------------------------
(* Types.                                                                  *)

LEMMA SettingIs ==
    ASSUME setting \in Settings
    PROVE  /\ MaxWords \in Nat /\ MaxWords >= 1 /\ setting.packets \in Nat
           /\ setting.waiting \in 0..setting.packets /\ setting.budget \in [Damage -> Nat]
  BY RetransmitAssumption DEF MaxWords

LEMMA BunchAt ==
    ASSUME Shapes, NEW n \in Bunches PROVE sent[n] \in Bunch
  <1>1. sent \in Seq(Bunch)
    BY DEF Shapes
  <1> QED BY <1>1 DEF Bunches

LEMMA SeqSizeIs == SeqSize \in Nat \ {0} /\ SeqSize \in Nat /\ SeqSize >= 1
  BY BufferAssumption

\* A bunch: a packets that are sent again and c from the tun device.
Scheduled(P, a, c) ==
    /\ sent' = Append(sent, [seq |-> arb_seq, packets |-> P])
    /\ Len(P) = a + c /\ a + c \in 1..MaxWords
    /\ c > 0 => a = Len(need_retransmit)
    /\ \A i \in 1..a : P[i] = need_retransmit[i]
    /\ \A i \in 1..c : P[a + i] = tun[i]
    /\ need_retransmit' = SubSeq(need_retransmit, a + 1, Len(need_retransmit))
    /\ tun' = SubSeq(tun, c + 1, Len(tun))

LEMMA ScheduledIs ==
    ASSUME Shapes, HitTimeslot
    PROVE  \E P \in Seq(Packet), a \in 0..Len(need_retransmit), c \in 0..Len(tun) :
               Scheduled(P, a, c)
  <1> DEFINE need == need_retransmit
             ready == need \o tun
             count == BunchSize(ready)
             again == Min({count, Len(need)})
             P == SubSeq(ready, 1, count)
             c == count - again
  <1>1. need \in Seq(Packet) /\ tun \in Seq(Packet) /\ Len(tun) > 0 /\ setting \in Settings
    BY DEF Shapes, HitTimeslot, WordsInTun
  <1>2. MaxWords \in Nat /\ MaxWords >= 1
    BY <1>1, SettingIs
  <1>3. ready \in Seq(Packet) /\ Len(ready) = Len(need) + Len(tun)
        /\ Len(need) \in Nat /\ Len(tun) \in Nat
    BY <1>1
  <1>4. count = IF MaxWords <= Len(ready) THEN MaxWords ELSE Len(ready)
    <2>1. MaxWords \in Int /\ Len(ready) \in Int
      BY <1>2, <1>3
    <2> QED BY <2>1, MinOfTwo DEF BunchSize
  <1>5. count \in 1..MaxWords /\ count <= Len(ready)
    BY <1>1, <1>2, <1>3, <1>4
  <1>6. /\ sent' = Append(sent, [seq |-> arb_seq, packets |-> P])
        /\ need' = SubSeq(need, again + 1, Len(need))
        /\ tun' = SubSeq(tun, c + 1, Len(tun))
    BY DEF HitTimeslot, Trigger4, ScheduleJointFromTunData, StillToSend
  <1>7. \A i \in 1..Len(need) : ready[i] = need[i]
    BY <1>1
  <1>8. \A i \in 1..Len(tun) : ready[Len(need) + i] = tun[i]
    BY <1>1
  <1> HIDE DEF ready, count
  <1>9. again = IF count <= Len(need) THEN count ELSE Len(need)
    <2>1. count \in Int /\ Len(need) \in Int
      BY <1>3, <1>5
    <2> QED BY <2>1, MinOfTwo
  <1> HIDE DEF again
  <1>10. again \in 0..Len(need) /\ c \in 0..Len(tun) /\ again + c = count
         /\ (c > 0 => again = Len(need))
    BY <1>3, <1>5, <1>9, <1>2
  <1>11. P \in Seq(Packet) /\ Len(P) = count /\ \A i \in 1..count : P[i] = ready[i]
    BY <1>3, <1>5, <1>2
  <1> HIDE DEF P, c
  <1>12. \A i \in 1..again : P[i] = need[i]
    <2> TAKE i \in 1..again
    <2>1. i \in 1..count /\ i \in 1..Len(need)
      BY <1>3, <1>5, <1>10, <1>2
    <2> QED BY <2>1, <1>7, <1>11
  <1>13. \A i \in 1..c : P[again + i] = tun[i]
    <2> TAKE i \in 1..c
    <2>1. again = Len(need) /\ again + i \in 1..count /\ i \in 1..Len(tun)
      BY <1>3, <1>5, <1>10, <1>2
    <2> QED BY <2>1, <1>8, <1>11
  <1>14. Scheduled(P, again, c)
    BY <1>5, <1>6, <1>10, <1>11, <1>12, <1>13 DEF Scheduled
  <1> QED BY <1>10, <1>11, <1>14

\* The bunches so far stay as they are.
LEMMA SentGrows ==
    ASSUME Shapes, NEW P \in Seq(Packet), NEW a \in Nat, NEW c \in Nat, Scheduled(P, a, c),
           setting' = setting
    PROVE  /\ sent' \in Seq(Bunch) /\ Len(sent') = Len(sent) + 1 /\ Len(sent) \in Nat
           /\ \A n \in Bunches : sent'[n] = sent[n]
           /\ sent'[Len(sent) + 1] = [seq |-> arb_seq, packets |-> P]
           /\ Packet' = Packet /\ MaxWords' = MaxWords
           /\ Bunches \subseteq Bunches' /\ Len(sent) + 1 \in Bunches'
           /\ Bunches' = Bunches \cup {Len(sent) + 1}
  <1> DEFINE b == [seq |-> arb_seq, packets |-> P]
  <1>1. b \in Bunch /\ sent \in Seq(Bunch) /\ sent' = Append(sent, b)
    BY DEF Shapes, Bunch, Scheduled
  <1> HIDE DEF b
  <1>2. /\ sent' \in Seq(Bunch) /\ Len(sent') = Len(sent) + 1 /\ Len(sent) \in Nat
        /\ \A n \in 1..Len(sent) : sent'[n] = sent[n]
        /\ sent'[Len(sent) + 1] = b
    BY <1>1
  <1>3. Packet' = Packet /\ MaxWords' = MaxWords
    BY DEF Packet, MaxWords
  <1> QED BY <1>2, <1>3 DEF Bunches, b

LEMMA SeqMore ==
    ASSUME NEW S, NEW T, S \subseteq T, NEW s \in Seq(S) PROVE s \in Seq(T)
  OBVIOUS

LEMMA TailIs ==
    ASSUME NEW S, NEW s \in Seq(S), s # <<>>
    PROVE  /\ Tail(s) \in Seq(S) /\ Len(s) \in Nat /\ Len(s) >= 1 /\ Len(Tail(s)) = Len(s) - 1
           /\ \A i \in 1..(Len(s) - 1) : Tail(s)[i] = s[i + 1]
           /\ Head(s) = s[1] /\ s[1] \in S
  OBVIOUS

LEMMA ConcatIs ==
    ASSUME NEW S, NEW u \in Seq(S), NEW v \in Seq(S)
    PROVE  /\ u \o v \in Seq(S) /\ Len(u \o v) = Len(u) + Len(v)
           /\ \A i \in 1..Len(u) : (u \o v)[i] = u[i]
           /\ \A i \in 1..Len(v) : (u \o v)[Len(u) + i] = v[i]
           /\ u \o <<>> = u
  OBVIOUS

LEMMA RestIs ==
    ASSUME NEW S, NEW s \in Seq(S), NEW a \in 0..Len(s), NEW t, t = SubSeq(s, a + 1, Len(s))
    PROVE  /\ Len(s) \in Nat /\ Len(t) = Len(s) - a /\ t \in Seq(S)
           /\ \A i \in 1..Len(t) : t[i] = s[i + a] /\ i + a \in 1..Len(s)
  <1>1. Len(s) \in Nat /\ a \in Nat /\ a <= Len(s)
    OBVIOUS
  <1>2. Len(t) = Len(s) - a /\ t \in Seq(S)
    BY <1>1
  <1>3. \A i \in 1..Len(t) : i + a \in 1..Len(s)
    BY <1>1, <1>2
  <1>4. \A i \in 1..Len(t) : t[i] = s[i + a]
    BY <1>1, <1>2
  <1> QED BY <1>1, <1>2, <1>3, <1>4

LEMMA ConcatMembers ==
    ASSUME NEW S, NEW u \in Seq(S), NEW v \in Seq(S), NEW x \in 1..Len(u \o v)
    PROVE  \/ \E k \in 1..Len(u) : (u \o v)[x] = u[k]
           \/ \E k \in 1..Len(v) : (u \o v)[x] = v[k]
  <1>1. CASE x <= Len(u)
    BY <1>1
  <1>2. CASE x > Len(u)
    <2>1. x - Len(u) \in 1..Len(v) /\ (u \o v)[x] = v[x - Len(u)]
      BY <1>2
    <2> QED BY <2>1
  <1> QED BY <1>1, <1>2

\* What is found in a damaged bunch: some of its packets, in order, with the
\* damaged ones as Bad, at their places unless handleRecovery jumped.
AllOf(packets, bad) == [i \in 1..Len(packets) |-> IF i \in bad THEN Bad ELSE packets[i]]

DecodedFrom(S, packets, bad, cut, D) ==
    /\ D \in Seq(S \cup {Bad})
    /\ Within(D, AllOf(packets, bad), 1..Len(packets), Len(packets))
    /\ \A k \in 1..Len(D) : \/ k \in 1..Len(packets) /\ D[k] = AllOf(packets, bad)[k]
                           \/ D[k] \in Beyond(packets, bad, cut) \cup {Bad}

LEMMA DecodedIs ==
    ASSUME NEW S, NEW packets \in Seq(S), NEW bad, NEW cut \in 0..Len(packets)
    PROVE  DecodedFrom(S, packets, bad, cut, Decoded(packets, bad, cut))
  <1> DEFINE all == AllOf(packets, bad)
             n == Len(packets)
             left == Len(all) - cut + 1
             skip == HandleRecovery(cut, bad, left)
             S1 == S \cup {Bad}
             D == Decoded(packets, bad, cut)
             u == SubSeq(all, 1, cut - 1)
             v == IF skip = 0 THEN <<>> ELSE SubSeq(all, cut + skip, Len(all))
             B == Beyond(packets, bad, cut)
  <1> SUFFICES /\ D \in Seq(S1)
               /\ Within(D, all, 1..n, n)
               /\ \A k \in 1..Len(D) : \/ k \in 1..n /\ D[k] = all[k]
                                      \/ D[k] \in B \cup {Bad}
    BY DEF DecodedFrom
  <1>1. DOMAIN packets = 1..n /\ n \in Nat
    OBVIOUS
  <1>2. D = IF cut = 0 THEN all ELSE u \o v
    BY <1>1 DEF Decoded, AllOf
  <1>3. all \in Seq(S1) /\ Len(all) = n
    BY <1>1 DEF AllOf
  <1>31. \A i \in 1..n : all[i] = IF i \in bad THEN Bad ELSE packets[i]
    BY <1>1 DEF AllOf
  <1>32. B = {packets[i] : i \in {j \in 1..n : cut # 0 /\ skip # 0 /\ j >= cut + skip /\ j \notin bad}}
    BY <1>1, <1>3 DEF Beyond
  <1> HIDE DEF all, D, B
  <1>4. left \in Int /\ left = n - cut + 1
    BY <1>1, <1>3
  <1> HIDE DEF left
  <1>5. skip = 0 \/ (skip \in 1..left /\ skip + Window < left)
    <2> DEFINE ahead == {s \in 1..left : s < Window /\ s + Window < left /\ cut + s \notin bad}
    <2>1. skip = IF ahead = {} THEN 0 ELSE Min(ahead)
      BY DEF HandleRecovery
    <2>2. CASE ahead # {}
      <3>1. ahead \in SUBSET Nat
        BY <1>4
      <3>2. Min(ahead) \in ahead
        BY <2>2, <3>1, MinIs
      <3>3. skip = Min(ahead)
        BY <2>1, <2>2
      <3> HIDE DEF skip
      <3> QED BY <3>2, <3>3
    <2> QED BY <2>1, <2>2
  <1> HIDE DEF skip
  <1>6. CASE cut = 0
    <2> DEFINE f == [k \in 1..n |-> k]
    <2>1. D = all
      BY <1>2, <1>6
    <2>2. f \in [1..n -> 1..n] /\ \A k \in 1..n : f[k] = k
      OBVIOUS
    <2> HIDE DEF f
    <2>3. Within(all, all, 1..n, n)
      BY <1>3, <2>2 DEF Within
    <2> QED BY <1>1, <1>3, <2>1, <2>3 DEF D, all
  <1>7. CASE cut # 0 /\ skip = 0
    <2>1. u \in Seq(S1) /\ Len(u) = cut - 1 /\ \A k \in 1..(cut - 1) : u[k] = all[k]
      BY <1>3, <1>1, <1>7
    <2>2. D = u \o <<>>
      BY <1>2, <1>7
    <2> HIDE DEF u, v
    <2>3. D = u
      BY <2>1, <2>2, ConcatIs
    <2> DEFINE f == [k \in 1..Len(u) |-> k]
    <2>4. f \in [1..Len(u) -> 1..n] /\ \A k \in 1..Len(u) : f[k] = k
      BY <2>1, <1>1
    <2> HIDE DEF f
    <2>5. Within(u, all, 1..n, n)
      BY <1>3, <2>1, <2>4, <1>1 DEF Within
    <2> QED BY <1>1, <1>3, <2>1, <2>3, <2>5 DEF D, all
  <1>8. CASE cut # 0 /\ skip # 0
    <2> DEFINE d == cut + skip
               w == SubSeq(all, d, n)
    <2>1. u \in Seq(S1) /\ Len(u) = cut - 1 /\ \A k \in 1..(cut - 1) : u[k] = all[k]
      BY <1>3, <1>1, <1>8
    <2>2. d \in (cut + 1)..(n + 1) /\ d \in Nat /\ d \in Int /\ d >= 1
      BY <1>1, <1>4, <1>5, <1>8
    <2>3. v = w
      BY <1>3, <1>8
    <2> HIDE DEF d, u
    <2>4. w \in Seq(S1) /\ Len(w) = n - d + 1 /\ \A k \in 1..(n - d + 1) : w[k] = all[k + d - 1]
      BY <1>1, <1>3, <2>2
    <2> HIDE DEF w, v
    <2>5. D = u \o w
      BY <1>2, <1>8, <2>3
    <2>6. D \in Seq(S1) /\ Len(D) = cut - 1 + n - d + 1
      <3>1. D \in Seq(S1) /\ Len(D) = Len(u) + Len(w)
        <4> HIDE DEF S1
        <4> QED BY <2>1, <2>4, <2>5, ConcatIs
      <3> QED BY <2>1, <2>4, <3>1, <1>1, <2>2
    <2> DEFINE f == [k \in 1..Len(D) |-> IF k < cut THEN k ELSE k - (cut - 1) + d - 1]
    <2>7. f \in [1..Len(D) -> 1..n]
      BY <2>6, <1>1, <2>2, <1>8
    <2>71. \A k \in 1..Len(D) : f[k] = IF k < cut THEN k ELSE k + skip
      <3> TAKE k \in 1..Len(D)
      <3>1. k - (cut - 1) + d - 1 = k + skip
        BY <2>6, <1>1, <1>4, <1>5, <1>8 DEF d
      <3> QED BY <3>1
    <2>8. \A k \in 1..Len(D) : D[k] = all[f[k]]
      <3> TAKE k \in 1..Len(D)
      <3>1. CASE k < cut
        BY <2>1, <2>4, <2>5, <2>6, <3>1
      <3>2. CASE ~(k < cut)
        <4>1. D[k] = w[k - Len(u)] /\ k - Len(u) \in 1..(n - d + 1)
          BY <2>1, <2>4, <2>5, <2>6, <3>2
        <4>2. f[k] = (k - Len(u)) + d - 1
          BY <2>1, <2>6, <3>2
        <4> QED BY <2>4, <4>1, <4>2
      <3> QED BY <3>1, <3>2
    <2>9. \A k, l \in 1..Len(D) : k < l => f[k] < f[l]
      BY <2>6, <2>2
    <2> HIDE DEF f
    <2>10. Within(D, all, 1..n, n)
      BY <2>7, <2>8, <2>9, <1>1 DEF Within
    <2>11. \A k \in 1..Len(D) : \/ k \in 1..n /\ D[k] = all[k]
                              \/ D[k] \in B \cup {Bad}
      <3> SUFFICES ASSUME NEW k \in 1..Len(D), ~(k \in 1..n /\ D[k] = all[k])
                   PROVE  D[k] \in B \cup {Bad}
        OBVIOUS
      <3>1. f[k] \in 1..n /\ D[k] = all[f[k]] /\ (k < cut => f[k] = k) /\ (~(k < cut) => f[k] = k + skip)
        BY <2>7, <2>8, <2>71
      <3>2. ~(k < cut)
        BY <3>1
      <3>3. f[k] >= cut + skip
        BY <3>1, <3>2, <1>5, <1>4, <2>6, <1>1
      <3>4. CASE f[k] \in bad
        BY <1>31, <3>1, <3>4
      <3>5. CASE f[k] \notin bad
        BY <1>8, <1>31, <1>32, <3>1, <3>3, <3>5
      <3> QED BY <3>4, <3>5
    <2> QED BY <1>3, <2>6, <2>10, <2>11 DEF D, all
  <1> QED BY <1>6, <1>7, <1>8

\* What is behind a jump is packets of the bunch; the other packets that are
\* found are at their places.
LEMMA BeyondIs ==
    ASSUME NEW packets \in Seq(Packet), NEW bad, NEW cut
    PROVE  Beyond(packets, bad, cut) \in SUBSET Packet
  BY DEF Beyond

LEMMA InPlace ==
    ASSUME NEW packets \in Seq(Packet), NEW bad, NEW cut \in 0..Len(packets),
           NEW D, D = Decoded(packets, bad, cut), setting \in Settings,
           NEW k \in 1..Len(D), D[k] \in Packet, D[k] \notin Beyond(packets, bad, cut)
    PROVE  k \in 1..Len(packets) /\ packets[k] = D[k]
  <1>1. DecodedFrom(Packet, packets, bad, cut, D)
    BY DecodedIs, Zenon
  <1>2. D[k] # Bad
    BY SettingIs DEF Packet, Bad
  <1>3. k \in 1..Len(packets) /\ D[k] = AllOf(packets, bad)[k]
    BY <1>1, <1>2 DEF DecodedFrom
  <1> QED BY <1>2, <1>3 DEF AllOf

LEMMA DecodedOnce ==
    ASSUME NEW packets \in Seq(Packet), Distinct(packets), NEW bad,
           NEW cut \in 0..Len(packets), setting \in Settings
    PROVE  /\ \A k \in 1..Len(Decoded(packets, bad, cut)), p \in Packet :
                  Decoded(packets, bad, cut)[k] = p =>
                      \E i \in 1..Len(packets) : packets[i] = p /\ i \notin bad
           /\ \A k, l \in 1..Len(Decoded(packets, bad, cut)), p \in Packet :
                  Decoded(packets, bad, cut)[k] = p /\ Decoded(packets, bad, cut)[l] = p
                      => k = l
  <1> DEFINE D == Decoded(packets, bad, cut)
             all == AllOf(packets, bad)
  <1>1. Within(D, all, 1..Len(packets), Len(packets)) /\ D \in Seq(Packet \cup {Bad})
    <2>1. DecodedFrom(Packet, packets, bad, cut, D)
      BY DecodedIs, Zenon
    <2> QED BY <2>1 DEF DecodedFrom
  <1>2. PICK f \in [1..Len(D) -> 1..Len(packets)] :
            /\ \A k \in 1..Len(D) : D[k] = all[f[k]]
            /\ \A k, l \in 1..Len(D) : k < l => f[k] < f[l]
    BY <1>1 DEF Within
  <1>3. \A i \in 1..Len(packets), p \in Packet : all[i] = p => packets[i] = p /\ i \notin bad
    <2>1. \A p \in Packet : p # Bad
      BY SettingIs DEF Packet, Bad
    <2> QED BY <2>1 DEF AllOf
  <1> HIDE DEF D, all
  <1>4. \A k \in 1..Len(D), p \in Packet : D[k] = p =>
            \E i \in 1..Len(packets) : packets[i] = p /\ i \notin bad
    BY <1>2, <1>3
  <1>5. ASSUME NEW k \in 1..Len(D), NEW l \in 1..Len(D), NEW p \in Packet, D[k] = p, D[l] = p
        PROVE  k = l
    <2>1. f[k] \in 1..Len(packets) /\ f[l] \in 1..Len(packets)
          /\ packets[f[k]] = p /\ packets[f[l]] = p
      BY <1>2, <1>3, <1>5, SMTT(60)
    <2>2. f[k] = f[l]
      BY <2>1 DEF Distinct
    <2>3. Len(D) \in Nat /\ k \in Int /\ l \in Int /\ f[k] \in Int
      BY <1>1
    <2> QED BY <1>2, <2>2, <2>3
  <1> QED BY <1>4, <1>5 DEF D

\* The sets are the same after a step that sends nothing.
LEMMA SameSets ==
    ASSUME sent' = sent, setting' = setting
    PROVE  /\ Packet' = Packet /\ MaxWords' = MaxWords /\ Bunches' = Bunches
           /\ Entry' = Entry /\ Bunch' = Bunch /\ Received' = Received /\ Expected' = Expected
           /\ Request' = Request
  BY DEF Packet, MaxWords, Bunches, Entry, Bunch, Received, Expected, List, Hashes, Request

LEMMA Aged ==
    ASSUME NEW S \in {Entry, Received, Expected}
    PROVE  /\ \A e \in S : e.age \in 0..Top
           /\ \A e \in S, x \in 0..Top : [e EXCEPT !.age = x] \in S
  <1>1. /\ \A e \in Entry : e.age \in 0..Top
        /\ \A e \in Entry, x \in 0..Top : [e EXCEPT !.age = x] \in Entry
    BY DEF Entry
  <1>2. /\ \A e \in List : e.age \in 0..Top
        /\ \A e \in List, x \in 0..Top :
              /\ [e EXCEPT !.age = x] \in List
              /\ [e EXCEPT !.age = x].n = e.n /\ [e EXCEPT !.age = x].seq = e.seq
              /\ [e EXCEPT !.age = x].hashes = e.hashes
    <2> HIDE DEF Hashes
    <2> QED BY DEF List
  <1>3. /\ \A e \in Received : e.age \in 0..Top
        /\ \A e \in Received, x \in 0..Top : [e EXCEPT !.age = x] \in Received
    BY <1>2 DEF Received
  <1>4. /\ \A e \in Expected : e.age \in 0..Top
        /\ \A e \in Expected, x \in 0..Top : [e EXCEPT !.age = x] \in Expected
    <2> SUFFICES ASSUME NEW e \in Expected
                 PROVE  e.age \in 0..Top /\ \A x \in 0..Top : [e EXCEPT !.age = x] \in Expected
      OBVIOUS
    <2>1. e \in Received /\ e \in List /\ e.hashes = sent[e.n].packets
      BY DEF Expected, Received
    <2>2. e.age \in 0..Top
      BY <1>3, <2>1
    <2>3. ASSUME NEW x \in 0..Top PROVE [e EXCEPT !.age = x] \in Expected
      <3> DEFINE o == [e EXCEPT !.age = x]
      <3>1. o \in Received /\ o.n = e.n /\ o.hashes = e.hashes
        BY <1>2, <1>3, <2>1
      <3> HIDE DEF o
      <3>2. o \in Expected
        BY <2>1, <3>1 DEF Expected
      <3> QED BY <3>2 DEF o
    <2> QED BY <2>2, <2>3
  <1> QED BY <1>1, <1>3, <1>4

\* What getStatus finds missing.
LEMMA ReplyIs ==
    ASSUME NEW a, NEW b, Reply(a, b) # NoReply
    PROVE  /\ Reply(a, b).of = b.n /\ Reply(a, b).seq = b.seq
           /\ Reply(a, b).indices = InvalidIdx(a, b)
  BY DEF Reply

LEMMA AnswerIs ==
    ASSUME NEW r \in Answers(Expected, Received), r.need
    PROVE  \E a \in Received, b \in Expected :
               r.of = b.n /\ r.seq = b.seq /\ r.indices = InvalidIdx(a, b)
  <1>1. r # NoReply
    BY DEF NoReply
  <1>2. PICK a \in Received, b \in Expected : r = Reply(a, b)
    BY <1>1 DEF Answers
  <1> QED BY <1>1, <1>2, ReplyIs

LEMMA InvalidIs ==
    ASSUME NEW a, NEW b PROVE InvalidIdx(a, b) \in SUBSET Nat
  BY DEF InvalidIdx

LEMMA ShapesInit ==
    ASSUME Init PROVE Shapes
  <1>1. setting \in Settings
    BY DEF Init
  <1>2. setting.packets \in Nat /\ setting.waiting \in 0..setting.packets
        /\ setting.budget \in [Damage -> Nat]
    BY <1>1, SettingIs
  <1>3. tun \in Seq(Packet)
    BY <1>2 DEF Init, Packet
  <1>4. sent = <<>> /\ buffer = <<>> /\ need_retransmit = <<>> /\ expected = <<>>
        /\ received = <<>> /\ air = <<>> /\ hashNet = <<>> /\ requestNet = <<>>
    BY DEF Init, BufferInit, HashInit
  <1>5. Len(sent) = 0 /\ Bunches = {}
    BY <1>4 DEF Bunches
  <1>6. \A S : <<>> \in Seq(S)
    OBVIOUS
  <1>7. slots \in 0..SlotsPerSec /\ arb_seq \in 0..(SeqSize - 1) /\ expected_seq \in 0..(SeqSize - 1)
    BY SeqSizeIs, RetransmitAssumption DEF Init
  <1>8. delivered \in [Packet -> Nat] /\ beyond \in SUBSET Packet /\ budget \in [Damage -> Nat]
    BY <1>2 DEF Init
  <1>9. lost \in SUBSET Bunches /\ seen \in 0..Len(sent)
    BY <1>5 DEF Init
  <1>10. \A n \in Bunches : Len(sent[n].packets) \in 1..MaxWords
    BY <1>5
  <1>11. /\ sent \in Seq(Bunch) /\ buffer \in Seq(Entry) /\ need_retransmit \in Seq(Packet)
         /\ expected \in Seq(Expected) /\ received \in Seq(Received) /\ air \in Seq(Entry)
         /\ hashNet \in Seq(Bunches) /\ requestNet \in Seq(Request)
    BY <1>4, <1>6, Zenon
  <1> QED BY <1>1, <1>3, <1>7, <1>8, <1>9, <1>10, <1>11, Zenon DEF Shapes

LEMMA ShapesTun ==
    ASSUME Shapes, TunArrives PROVE Shapes'
  <1> USE DEF Shapes
  <1>1. /\ fresh \in Packet /\ tun' = Append(tun, fresh)
        /\ UNCHANGED <<setting, arb_seq, slots, sent, buffer, need_retransmit, expected_seq,
                       delivered, expected, received, air, hashNet, requestNet, lost, seen, beyond, budget>>
    BY DEF TunArrives, bufferVars, demodVars, netVars, history
  <1>2. tun' \in Seq(Packet)
    BY <1>1
  <1> QED BY <1>1, <1>2, SameSets

LEMMA ShapesTimeslot ==
    ASSUME Shapes, HitTimeslot PROVE Shapes'
  <1>1. PICK P \in Seq(Packet), a \in 0..Len(need_retransmit), c \in 0..Len(tun) :
            Scheduled(P, a, c)
    BY ScheduledIs
  <1>2. /\ slots < SlotsPerSec /\ slots' = slots + 1 /\ arb_seq' = (arb_seq + 1) % SeqSize
        /\ air' = Append(air, [n |-> Len(sent) + 1, age |-> 0])
        /\ buffer' = Append(buffer, [n |-> Len(sent) + 1, age |-> 0])
        /\ hashNet' = Append(hashNet, Len(sent) + 1)
        /\ UNCHANGED <<setting, expected_seq, delivered, expected, received, requestNet, lost, seen, beyond,
                       budget>>
    BY DEF HitTimeslot, Trigger4, ScheduleJointFromTunData, SentOverAir, demodVars, history
  <1>3. a \in Nat /\ c \in Nat /\ need_retransmit \in Seq(Packet) /\ tun \in Seq(Packet)
    BY DEF Shapes
  <1>4. /\ sent' \in Seq(Bunch) /\ Len(sent') = Len(sent) + 1 /\ Len(sent) \in Nat
        /\ \A n \in Bunches : sent'[n] = sent[n]
        /\ sent'[Len(sent) + 1] = [seq |-> arb_seq, packets |-> P]
        /\ Packet' = Packet /\ MaxWords' = MaxWords
        /\ Bunches \subseteq Bunches' /\ Len(sent) + 1 \in Bunches'
        /\ Bunches' = Bunches \cup {Len(sent) + 1}
    BY <1>1, <1>2, <1>3, SentGrows
  <1>5. Entry \subseteq Entry' /\ [n |-> Len(sent) + 1, age |-> 0] \in Entry'
    BY <1>4, TopIs DEF Entry
  <1>6. Received \subseteq Received' /\ Expected \subseteq Expected'
    <2>1. List \subseteq List'
      BY <1>4 DEF List, Hashes
    <2>2. \A l \in List : sent'[l.n] = sent[l.n]
      BY <1>4 DEF List
    <2> HIDE DEF List
    <2> QED BY <2>1, <2>2 DEF Received, Expected
  <1>7. Bunch' = Bunch /\ Request' = Request
    BY <1>4 DEF Bunch, Request
  <1>8. \A n \in Bunches' : Len(sent'[n].packets) \in 1..MaxWords
    <2>1. Len(sent'[Len(sent) + 1].packets) \in 1..MaxWords
      <3>1. Len(P) \in 1..MaxWords
        BY <1>1 DEF Scheduled
      <3>2. sent'[Len(sent) + 1].packets = P
        BY <1>4
      <3> QED BY <3>1, <3>2, Zenon
    <2> QED BY <1>4, <2>1 DEF Shapes
  <1>9. need_retransmit' \in Seq(Packet) /\ tun' \in Seq(Packet)
    BY <1>1, <1>3, SMTT(60) DEF Scheduled
  <1>10. slots' \in 0..SlotsPerSec /\ arb_seq' \in 0..(SeqSize - 1)
    <2>1. arb_seq + 1 \in Int
      BY DEF Shapes
    <2>2. (arb_seq + 1) % SeqSize \in 0..(SeqSize - 1)
      BY <2>1, SeqSizeIs, DivMod
    <2>3. arb_seq' \in 0..(SeqSize - 1)
      BY <1>2, <2>2
    <2>4. slots \in 0..SlotsPerSec /\ slots < SlotsPerSec /\ slots' = slots + 1
      BY <1>2 DEF Shapes
    <2>5. SlotsPerSec \in Nat
      BY RetransmitAssumption
    <2>6. slots' \in 0..SlotsPerSec
      BY <2>4, <2>5
    <2> QED BY <2>3, <2>6
  <1>11. buffer' \in Seq(Entry') /\ air' \in Seq(Entry')
    <2>0. buffer \in Seq(Entry) /\ air \in Seq(Entry)
      BY DEF Shapes
    <2>1. buffer \in Seq(Entry') /\ air \in Seq(Entry')
      BY <1>5, <2>0, SeqMore
    <2> DEFINE e == [n |-> Len(sent) + 1, age |-> 0]
    <2> HIDE DEF e
    <2>2. e \in Entry'
      BY <1>5 DEF e
    <2>3. buffer' = Append(buffer, e) /\ air' = Append(air, e)
      BY <1>2 DEF e
    <2> QED BY <2>1, <2>2, <2>3
  <1>12. hashNet' \in Seq(Bunches') /\ lost' \in SUBSET Bunches' /\ seen' \in 0..Len(sent')
    <2>1. hashNet \in Seq(Bunches) /\ lost \in SUBSET Bunches /\ seen \in 0..Len(sent)
      BY DEF Shapes
    <2>2. hashNet \in Seq(Bunches')
      BY <2>1, <1>4, SeqMore
    <2>3. hashNet' \in Seq(Bunches')
      BY <1>2, <1>4, <2>2
    <2> QED BY <1>2, <1>4, <2>1, <2>3
  <1>13. expected' \in Seq(Expected') /\ received' \in Seq(Received')
    <2>1. expected \in Seq(Expected) /\ received \in Seq(Received)
      BY DEF Shapes
    <2>2. expected \in Seq(Expected') /\ received \in Seq(Received')
      BY <2>1, <1>6, SeqMore
    <2> QED BY <1>2, <2>2
  <1>14. /\ setting' \in Settings /\ expected_seq' \in 0..(SeqSize - 1)
         /\ requestNet' \in Seq(Request') /\ delivered' \in [Packet' -> Nat]
         /\ beyond' \in SUBSET (Packet') /\ budget' \in [Damage -> Nat]
    <2>1. /\ setting \in Settings /\ expected_seq \in 0..(SeqSize - 1)
          /\ requestNet \in Seq(Request) /\ delivered \in [Packet -> Nat]
          /\ beyond \in SUBSET Packet /\ budget \in [Damage -> Nat]
      BY DEF Shapes
    <2> QED BY <2>1, <1>2, <1>4, <1>7, Zenon
  <1> QED BY <1>4, <1>7, <1>8, <1>9, <1>10, <1>11, <1>12, <1>13, <1>14 DEF Shapes

LEMMA ShapesRequest ==
    ASSUME Shapes, RequestArrives PROVE Shapes'
  <1> DEFINE r == Head(requestNet)
             j == AskedFor(r.seq, r.indices)
  <1>1. /\ requestNet # <<>> /\ requestNet' = Tail(requestNet)
        /\ UNCHANGED <<setting, tun, arb_seq, slots, sent, expected_seq, delivered, expected,
                       received, air, hashNet, lost, seen, beyond, budget>>
    BY DEF RequestArrives, demodVars, history
  <1>2. \/ buffer' = buffer /\ need_retransmit' = need_retransmit
        \/ buffer' = NotOlder(buffer, BufferKeep) /\ need_retransmit' = need_retransmit
        \/ /\ j # 0 /\ buffer' = NotOlder(RemoveAt(buffer, j), BufferKeep)
           /\ need_retransmit' = need_retransmit \o PacketsOf(buffer[j].n, r.indices)
    BY DEF RequestArrives, ScheduleRetransmit, bufferVars
  <1>3. buffer \in Seq(Entry) /\ need_retransmit \in Seq(Packet) /\ sent \in Seq(Bunch)
    BY DEF Shapes
  <1>4. j \in 0..Len(buffer)
    <2>1. buffer \in Seq([n : 1..Len(sent), age : 0..Top])
      BY <1>3 DEF Entry, Bunches
    <2> QED BY <2>1, AskedForIs
  <1> HIDE DEF j, r
  <1>5. buffer' \in Seq(Entry) /\ need_retransmit' \in Seq(Packet)
    <2>1. CASE buffer' = buffer /\ need_retransmit' = need_retransmit
      BY <1>3, <2>1
    <2>2. CASE buffer' = NotOlder(buffer, BufferKeep) /\ need_retransmit' = need_retransmit
      BY <1>3, <2>2, NotOlderIs
    <2>3. CASE /\ j # 0 /\ buffer' = NotOlder(RemoveAt(buffer, j), BufferKeep)
               /\ need_retransmit' = need_retransmit \o PacketsOf(buffer[j].n, r.indices)
      <3> DEFINE b == RemoveAt(buffer, j)
                 n == buffer[j].n
      <3>1. j \in 1..Len(buffer)
        BY <1>3, <1>4, <2>3
      <3>2. b \in Seq(Entry)
        BY <1>3, <3>1, RemoveAtIs
      <3>3. n \in Bunches
        <4>1. buffer[j] \in Entry
          BY <1>3, <3>1
        <4> QED BY <4>1 DEF Entry
      <3> HIDE DEF b, n
      <3>4. NotOlder(b, BufferKeep) \in Seq(Entry)
        BY <3>2, NotOlderIs
      <3>5. sent[n] \in Bunch /\ sent[n].packets \in Seq(Packet)
        <4>1. sent[n] \in Bunch
          BY <1>3, <3>3 DEF Bunches
        <4> QED BY <4>1 DEF Bunch
      <3>6. PacketsOf(n, r.indices) \in Seq(Packet)
        BY <3>5, PacketsOfIs
      <3>7. need_retransmit \o PacketsOf(n, r.indices) \in Seq(Packet)
        BY <1>3, <3>6, ConcatIs
      <3> QED BY <2>3, <3>4, <3>7 DEF b, n
    <2> QED BY <1>2, <2>1, <2>2, <2>3
  <1>6. requestNet' \in Seq(Request)
    BY <1>1 DEF Shapes
  <1> QED BY <1>1, <1>5, <1>6, SameSets DEF Shapes

\* The lists that arrive.
LEMMA ListsIs ==
    ASSUME Shapes, NEW n \in Bunches, NEW hashes \in Hashes
    PROVE  /\ [n |-> n, seq |-> sent[n].seq, hashes |-> hashes, age |-> 0] \in Received
           /\ hashes = sent[n].packets =>
                 [n |-> n, seq |-> sent[n].seq, hashes |-> hashes, age |-> 0] \in Expected
           /\ sent[n].packets \in Seq(Packet) /\ sent[n].packets \in Hashes
  <1> DEFINE l == [n |-> n, seq |-> sent[n].seq, hashes |-> hashes, age |-> 0]
  <1>1. sent[n] \in Bunch
    BY BunchAt
  <1>2. sent[n].seq \in 0..(SeqSize - 1) /\ sent[n].packets \in Seq(Packet)
    BY <1>1 DEF Bunch
  <1>3. sent[n].packets \in Hashes
    <2>1. Packet \subseteq Packet \cup {Bad}
      OBVIOUS
    <2> QED BY <1>2, <2>1, SeqMore DEF Hashes
  <1>4. l \in List /\ l.n = n /\ l.seq = sent[n].seq /\ l.hashes = hashes
    <2> HIDE DEF Hashes
    <2> QED BY <1>2, TopIs DEF List
  <1> HIDE DEF l
  <1>5. l \in Received /\ (hashes = sent[n].packets => l \in Expected)
    BY <1>4 DEF Received, Expected
  <1> QED BY <1>2, <1>3, <1>5 DEF l

LEMMA ShapesHashes ==
    ASSUME Shapes, HashesArrive PROVE Shapes'
  <1> DEFINE n == Head(hashNet)
             l == [n |-> n, seq |-> sent[n].seq, hashes |-> sent[n].packets, age |-> 0]
             exp == Append(expected, l)
             st == GetStatus(exp, received)
  <1>1. /\ hashNet # <<>> /\ hashNet' = Tail(hashNet)
        /\ UNCHANGED <<setting, tun, arb_seq, slots, sent, buffer, need_retransmit, expected_seq,
                       delivered, air, requestNet, lost, seen, beyond, budget>>
        /\ expected' = st.expected /\ received' = st.received
    BY DEF HashesArrive, GotHashListFromPeer, arbVars, history
  <1>2. n \in Bunches /\ hashNet' \in Seq(Bunches)
    BY <1>1 DEF Shapes
  <1> HIDE DEF n
  <1>3. l \in Expected
    <2> DEFINE h == sent[n].packets
    <2>1. sent[n] \in Bunch
      BY <1>2, BunchAt
    <2>2. h \in Seq(Packet)
      BY <2>1 DEF Bunch
    <2>3. h \in Hashes
      <3>1. Packet \subseteq Packet \cup {Bad}
        OBVIOUS
      <3> QED BY <2>2, <3>1, SeqMore DEF Hashes
    <2> HIDE DEF h
    <2>4. h = sent[n].packets =>
                 [n |-> n, seq |-> sent[n].seq, hashes |-> h, age |-> 0] \in Expected
      BY <1>2, <2>3, ListsIs
    <2> QED BY <2>4 DEF h
  <1> HIDE DEF l
  <1>4. exp \in Seq(Expected) /\ received \in Seq(Received)
    BY <1>3 DEF Shapes
  <1> HIDE DEF exp
  <1>5. PICK F \in SUBSET Expected : st \in Statuses(F, Received)
    BY <1>4, GetStatusIs
  <1> HIDE DEF st
  <1>6. expected' \in Seq(Expected) /\ received' \in Seq(Received)
    <2>1. expected' \in Seq(F) /\ received' \in Seq(Received)
      BY <1>1, <1>5 DEF Statuses
    <2> QED BY <2>1, SeqMore
  <1> QED BY <1>1, <1>2, <1>6, SameSets DEF Shapes

\* The requests for the numbers skipped.
LEMMA GapRequestsIs ==
    ASSUME NEW n \in Nat, NEW seq \in Int, expected_seq \in Int
    PROVE  /\ MissingSeqs(seq) \in Nat
           /\ GapRequests(n, seq) \in Seq(Request) /\ Len(GapRequests(n, seq)) = MissingSeqs(seq)
           /\ \A i \in 1..MissingSeqs(seq) :
                  /\ GapRequests(n, seq)[i].by = n
                  /\ GapRequests(n, seq)[i].of = n - 1 - MissingSeqs(seq) + i
                  /\ GapRequests(n, seq)[i].seq = (expected_seq + i - 1) % SeqSize
                  /\ GapRequests(n, seq)[i].indices = AllMissing
  <1> DEFINE d == seq - expected_seq
             gap == MissingSeqs(seq)
             x(i) == expected_seq + i - 1
             y(i) == x(i) % SeqSize
             rq(i) == [by |-> n, of |-> n - 1 - gap + i, seq |-> y(i), indices |-> AllMissing]
             g == [i \in 1..gap |-> rq(i)]
  <1>1. d \in Int /\ gap = d % SeqSize
    BY DEF MissingSeqs
  <1> HIDE DEF d, gap
  <1>2. gap \in Nat
    BY <1>1, SeqSizeIs, DivMod
  <1>3. GapRequests(n, seq) = g
    BY DEF GapRequests, gap
  <1>4. AllMissing \in SUBSET Nat
    BY DEF AllMissing
  <1>5. ASSUME NEW i \in 1..gap PROVE y(i) \in 0..(SeqSize - 1)
    <2>1. x(i) \in Int
      OBVIOUS
    <2> HIDE DEF x
    <2> QED BY <2>1, SeqSizeIs, DivMod
  <1> HIDE DEF y
  <1>6. ASSUME NEW i \in 1..gap PROVE rq(i) \in Request
    BY <1>2, <1>4, <1>5 DEF Request
  <1>7. g \in Seq(Request) /\ Len(g) = gap
    <2> HIDE DEF rq
    <2> QED BY <1>2, <1>6
  <1>8. \A i \in 1..gap : /\ g[i].by = n /\ g[i].of = n - 1 - gap + i
                          /\ g[i].seq = y(i) /\ g[i].indices = AllMissing
    OBVIOUS
  <1> QED BY <1>2, <1>3, <1>7, <1>8 DEF gap, y

LEMMA ShapesHeader ==
    ASSUME Shapes, NEW n \in Bunches, air # <<>>, n = Head(air).n, NEW requests \in Seq(Request),
           GotHeader(n, requests), delivered' \in [Packet -> Nat], beyond' \in SUBSET Packet,
           expected' \in Seq(Expected), received' \in Seq(Received), budget' \in [Damage -> Nat]
    PROVE  Shapes'
  <1> DEFINE q == sent[n].seq
             g == GapRequests(n, q)
  <1>1. /\ air' = Tail(air) /\ requestNet' = requestNet \o g \o requests
        /\ expected_seq' = (q + 1) % SeqSize /\ seen' = n
        /\ UNCHANGED <<setting, tun, arb_seq, slots, sent, buffer, need_retransmit, hashNet, lost>>
    BY DEF GotHeader, arbVars
  <1>2. q \in 0..(SeqSize - 1) /\ q \in Int /\ q + 1 \in Int
    <2>1. sent[n] \in Bunch
      BY BunchAt
    <2> QED BY <2>1, SeqSizeIs DEF Bunch
  <1>3. n \in Nat /\ n \in 0..Len(sent) /\ expected_seq \in Int
    <2>1. n \in Nat /\ n \in 0..Len(sent)
      BY DEF Bunches
    <2>2. expected_seq \in Int
      BY SeqSizeIs DEF Shapes
    <2> QED BY <2>1, <2>2
  <1> HIDE DEF q
  <1>4. g \in Seq(Request)
    BY <1>2, <1>3, GapRequestsIs
  <1> HIDE DEF g
  <1>5. requestNet' \in Seq(Request)
    <2>1. requestNet \o g \in Seq(Request)
      BY <1>4, ConcatIs DEF Shapes
    <2> DEFINE u == requestNet \o g
    <2> HIDE DEF u
    <2>2. u \o requests \in Seq(Request)
      BY <2>1, ConcatIs DEF u
    <2> QED BY <1>1, <2>2 DEF u
  <1>6. expected_seq' \in 0..(SeqSize - 1)
    <2> DEFINE x == q + 1
    <2>1. x \in Int
      BY <1>2
    <2> HIDE DEF x
    <2>2. x % SeqSize \in 0..(SeqSize - 1)
      BY <2>1, SeqSizeIs, DivMod
    <2> QED BY <1>1, <2>2 DEF x
  <1>7. air' \in Seq(Entry)
    BY <1>1 DEF Shapes
  <1> QED BY <1>1, <1>3, <1>5, <1>6, <1>7, SameSets DEF Shapes

LEMMA SpendIs ==
    ASSUME budget \in [Damage -> Nat], NEW what \in Damage, NEW k \in Nat, Spend(what, k)
    PROVE  /\ budget' \in [Damage -> Nat] /\ budget'[what] = budget[what] - k
           /\ \A d \in Damage : d # what => budget'[d] = budget[d]
  BY DEF Spend

LEMMA HeadOfAir ==
    ASSUME Shapes, air # <<>>
    PROVE  Head(air) \in Entry /\ Head(air).n \in Bunches /\ Head(air).n = air[1].n /\ Len(air) >= 1
  <1>1. air \in Seq(Entry)
    BY DEF Shapes
  <1>2. Head(air) \in Entry /\ Head(air) = air[1] /\ Len(air) >= 1
    BY <1>1
  <1> QED BY <1>2 DEF Entry

LEMMA ShapesEmpty ==
    ASSUME Shapes, DemodGotEmpty PROVE Shapes'
  <1> DEFINE n == Head(air).n
  <1>1. /\ air # <<>> /\ GotHeader(n, <<>>) /\ Spend("empty", 1)
        /\ UNCHANGED <<delivered, expected, received, beyond>>
    BY DEF DemodGotEmpty, Arrived
  <1>2. n \in Bunches
    BY <1>1, HeadOfAir
  <1>3. budget' \in [Damage -> Nat]
    <2>1. "empty" \in Damage /\ budget \in [Damage -> Nat]
      BY DEF Damage, Shapes
    <2> QED BY <1>1, <2>1, SpendIs
  <1>4. <<>> \in Seq(Request) /\ n = Head(air).n
    OBVIOUS
  <1> HIDE DEF n
  <1>5. /\ delivered' \in [Packet -> Nat] /\ expected' \in Seq(Expected)
        /\ received' \in Seq(Received) /\ beyond' \in SUBSET Packet
    BY <1>1 DEF Shapes
  <1> QED BY <1>1, <1>2, <1>3, <1>4, <1>5, ShapesHeader

\* What demodGotPacket finds and asks for.
Found(bad, cut) == Decoded(sent[Head(air).n].packets, bad, cut)
Behind(bad, cut) == Beyond(sent[Head(air).n].packets, bad, cut)
FoundList(bad, cut) ==
    [n |-> Head(air).n, seq |-> sent[Head(air).n].seq, hashes |-> Found(bad, cut), age |-> 0]
FoundStatus(bad, cut) == GetStatus(expected, Append(received, FoundList(bad, cut)))
FoundMissing(bad, cut) ==
    IF FoundStatus(bad, cut).reply.need
    THEN <<[by |-> Head(air).n, of |-> FoundStatus(bad, cut).reply.of,
            seq |-> FoundStatus(bad, cut).reply.seq,
            indices |-> FoundStatus(bad, cut).reply.indices]>>
    ELSE <<>>
Waiting == {expected[i] : i \in 1..Len(expected)}

LEMMA PacketStep ==
    ASSUME Shapes, NEW bad \in SUBSET (1..MaxWords), NEW cut \in 0..MaxWords,
           DemodGotPacket(bad, cut)
    PROVE  /\ air # <<>> /\ Head(air).n \in Bunches /\ Head(air).age >= Flight
           /\ GotHeader(Head(air).n, FoundMissing(bad, cut))
           /\ expected' = FoundStatus(bad, cut).expected
           /\ received' = FoundStatus(bad, cut).received
           /\ cut \in 0..Len(sent[Head(air).n].packets)
           /\ delivered' = [p \in Packet |-> delivered[p]
                   + Cardinality({i \in 1..Len(Found(bad, cut)) : Found(bad, cut)[i] = p})]
           /\ beyond' = beyond \cup Behind(bad, cut) /\ Behind(bad, cut) \in SUBSET Packet
           /\ budget' \in [Damage -> Nat] /\ budget'["request"] = budget["request"]
           /\ sent[Head(air).n].packets \in Seq(Packet) /\ Found(bad, cut) \in Hashes
           /\ FoundList(bad, cut) \in Received
  <1> DEFINE n == Head(air).n
             packets == sent[n].packets
             H == Found(bad, cut)
  <1>1. /\ air # <<>> /\ GotHeader(n, FoundMissing(bad, cut)) /\ Head(air).age >= Flight
        /\ expected' = FoundStatus(bad, cut).expected
        /\ received' = FoundStatus(bad, cut).received
        /\ bad \cup {cut} \subseteq 0..Len(packets)
        /\ delivered' = [p \in Packet |-> delivered[p]
                   + Cardinality({i \in DOMAIN H : H[i] = p})]
        /\ beyond' = beyond \cup Behind(bad, cut)
        /\ budget["bad"] >= Cardinality(bad)
        /\ budget["cut"] >= Cardinality({cut} \ {0})
        /\ budget' = [budget EXCEPT !["bad"] = @ - Cardinality(bad),
                                    !["cut"] = @ - Cardinality({cut} \ {0})]
    BY DEF DemodGotPacket, Arrived, GotHashListOverAir, FoundMissing, FoundStatus, FoundList,
           Found, Behind
  <1>2. n \in Bunches
    BY <1>1, HeadOfAir
  <1>3. packets \in Seq(Packet)
    <2>1. sent[n] \in Bunch
      BY <1>2, BunchAt
    <2> HIDE DEF n
    <2> QED BY <2>1 DEF Bunch
  <1>4. cut \in 0..Len(packets)
    BY <1>1
  <1>5. H \in Hashes
    <2> HIDE DEF packets
    <2>1. Decoded(packets, bad, cut) \in Seq(Packet \cup {Bad})
      <3>1. DecodedFrom(Packet, packets, bad, cut, Decoded(packets, bad, cut))
        BY <1>3, <1>4, DecodedIs, Zenon
      <3> QED BY <3>1, Zenon DEF DecodedFrom
    <2> QED BY <2>1 DEF Found, Hashes, packets
  <1>6. FoundList(bad, cut) \in Received
    <2> DEFINE h == H
    <2>1. h \in Hashes
      BY <1>5
    <2> HIDE DEF h, n
    <2>2. [n |-> n, seq |-> sent[n].seq, hashes |-> h, age |-> 0] \in Received
      BY <1>2, <2>1, ListsIs
    <2> QED BY <2>2 DEF FoundList, h, n
  <1>7. DOMAIN H = 1..Len(H)
    <2> HIDE DEF H
    <2> QED BY <1>5 DEF Hashes
  <1>8. budget' \in [Damage -> Nat] /\ budget'["request"] = budget["request"]
    <2> DEFINE x == Cardinality(bad)
               y == Cardinality({cut} \ {0})
    <2>1. budget \in [Damage -> Nat] /\ "bad" \in Damage /\ "cut" \in Damage /\ "request" \in Damage
          /\ MaxWords \in Nat
      BY SettingIs DEF Shapes, Damage
    <2>2. x \in Nat
      <3>1. IsFiniteSet(1..MaxWords)
        BY <2>1, FS_Interval
      <3>2. IsFiniteSet(bad)
        BY <3>1, FS_Subset
      <3> QED BY <3>2, FS_CardinalityType
    <2>3. y \in Nat
      <3>1. IsFiniteSet({cut})
        BY FS_Singleton
      <3>2. IsFiniteSet({cut} \ {0})
        BY <3>1, FS_Subset
      <3> QED BY <3>2, FS_CardinalityType
    <2> HIDE DEF x, y
    <2>4. /\ budget' = [budget EXCEPT !["bad"] = @ - x, !["cut"] = @ - y]
          /\ budget["bad"] >= x /\ budget["cut"] >= y
      BY <1>1 DEF x, y
    <2> QED BY <2>1, <2>2, <2>3, <2>4
  <1>9. Behind(bad, cut) \in SUBSET Packet
    <2> HIDE DEF packets
    <2>1. Beyond(packets, bad, cut) \in SUBSET Packet
      BY <1>3, BeyondIs
    <2> QED BY <2>1 DEF Behind, packets
  <1> QED BY <1>1, <1>2, <1>3, <1>4, <1>5, <1>6, <1>7, <1>8, <1>9

\* The lists left are some of the lists that were there, and what is asked for
\* comes from comparing the decoded list with one of them that is not too old.
LEMMA FoundIs ==
    ASSUME Shapes, NEW bad, NEW cut, FoundList(bad, cut) \in Received
    PROVE  /\ Waiting \in SUBSET Expected
           /\ FoundStatus(bad, cut).expected \in Seq(Waiting)
           /\ FoundStatus(bad, cut).received \in Seq(Received)
           /\ \/ FoundMissing(bad, cut) = <<>>
              \/ \E b \in Waiting :
                    /\ Compare(FoundList(bad, cut), b) /\ b.age <= HashKeep
                    /\ FoundMissing(bad, cut) =
                          <<[by |-> Head(air).n, of |-> b.n, seq |-> b.seq,
                             indices |-> InvalidIdx(FoundList(bad, cut), b)]>>
  <1> DEFINE a == FoundList(bad, cut)
             rec == Append(received, a)
             st == FoundStatus(bad, cut)
             F == {b \in Waiting : b.age <= HashKeep}
  <1>1. received \in Seq(Received) /\ expected \in Seq(Expected)
    BY DEF Shapes
  <1>2. a.age = 0
    BY DEF FoundList
  <1>3. Waiting \in SUBSET Expected /\ expected \in Seq(Waiting)
    BY <1>1 DEF Waiting
  <1>4. st = GetStatus(expected, rec)
    BY DEF FoundStatus
  <1> HIDE DEF a, st
  <1>5. rec \in Seq(Received) /\ Len(rec) > 0 /\ rec[Len(rec)] = a
    BY <1>1 DEF a
  <1>6. rec[Len(rec)].age <= HashKeep
    BY <1>2, <1>5, HashAssumption
  <1> HIDE DEF rec
  <1>7. /\ st \in Statuses(F, Received)
        /\ \/ st.reply = NoReply
           \/ \E b \in F : Compare(rec[Len(rec)], b) /\ st.reply = Reply(rec[Len(rec)], b)
    BY <1>3, <1>4, <1>5, <1>6, GetStatusIs
  <1>8. st.expected \in Seq(Waiting) /\ st.received \in Seq(Received)
    <2>1. st.expected \in Seq(F) /\ st.received \in Seq(Received)
      BY <1>7 DEF Statuses
    <2> QED BY <2>1, SeqMore
  <1>9. \/ FoundMissing(bad, cut) = <<>>
        \/ \E b \in Waiting :
              /\ Compare(a, b) /\ b.age <= HashKeep
              /\ FoundMissing(bad, cut) =
                    <<[by |-> Head(air).n, of |-> b.n, seq |-> b.seq, indices |-> InvalidIdx(a, b)]>>
    <2>1. CASE st.reply = NoReply
      <3>1. ~st.reply.need
        BY <2>1 DEF NoReply
      <3> QED BY <3>1 DEF FoundMissing, st
    <2>2. CASE st.reply # NoReply
      <3>1. PICK b \in Waiting : /\ Compare(a, b) /\ b.age <= HashKeep
                                 /\ st.reply = Reply(a, b)
        BY <1>5, <1>7, <2>2
      <3>2. st.reply.of = b.n /\ st.reply.seq = b.seq /\ st.reply.indices = InvalidIdx(a, b)
        BY <2>2, <3>1, ReplyIs
      <3>3. \/ FoundMissing(bad, cut) = <<>>
            \/ FoundMissing(bad, cut) = <<[by |-> Head(air).n, of |-> st.reply.of,
                      seq |-> st.reply.seq, indices |-> st.reply.indices]>>
        BY DEF FoundMissing, st
      <3> QED BY <3>1, <3>2, <3>3
    <2> QED BY <2>1, <2>2
  <1> QED BY <1>3, <1>8, <1>9 DEF a, st

LEMMA ShapesPacket ==
    ASSUME Shapes, NEW bad \in SUBSET (1..MaxWords), NEW cut \in 0..MaxWords,
           DemodGotPacket(bad, cut)
    PROVE  Shapes'
  <1> DEFINE n == Head(air).n
             more == FoundMissing(bad, cut)
             H == Found(bad, cut)
  <1>1. /\ air # <<>> /\ n \in Bunches /\ GotHeader(n, more)
        /\ expected' = FoundStatus(bad, cut).expected
        /\ received' = FoundStatus(bad, cut).received
        /\ delivered' = [p \in Packet |->
                delivered[p] + Cardinality({i \in 1..Len(H) : H[i] = p})]
        /\ budget' \in [Damage -> Nat] /\ FoundList(bad, cut) \in Received
        /\ H \in Hashes /\ beyond' = beyond \cup Behind(bad, cut)
        /\ Behind(bad, cut) \in SUBSET Packet
    BY PacketStep
  <1>2. /\ Waiting \in SUBSET Expected
        /\ FoundStatus(bad, cut).expected \in Seq(Waiting)
        /\ FoundStatus(bad, cut).received \in Seq(Received)
        /\ \/ more = <<>>
           \/ \E b \in Waiting :
                 more = <<[by |-> n, of |-> b.n, seq |-> b.seq,
                           indices |-> InvalidIdx(FoundList(bad, cut), b)]>>
    BY <1>1, FoundIs
  <1>3. expected' \in Seq(Expected) /\ received' \in Seq(Received)
    BY <1>1, <1>2, SeqMore
  <1>4. more \in Seq(Request)
    <2> HIDE DEF more, n
    <2>1. CASE more = <<>>
      BY <2>1
    <2>2. ASSUME NEW b \in Waiting,
                 more = <<[by |-> n, of |-> b.n, seq |-> b.seq,
                           indices |-> InvalidIdx(FoundList(bad, cut), b)]>>
          PROVE  more \in Seq(Request)
      <3> DEFINE ix == InvalidIdx(FoundList(bad, cut), b)
                 r == [by |-> n, of |-> b.n, seq |-> b.seq, indices |-> ix]
      <3>1. ix \in SUBSET Nat
        BY InvalidIs
      <3> HIDE DEF ix
      <3>2. b \in List
        BY <1>2 DEF Expected, Received
      <3>3. b.n \in Int /\ b.seq \in 0..(SeqSize - 1) /\ n \in Nat
        BY <1>1, <3>2 DEF List, Bunches
      <3>4. r \in Request
        BY <3>1, <3>3 DEF Request
      <3>5. more = <<r>>
        BY <2>2 DEF ix
      <3> HIDE DEF r
      <3> QED BY <3>4, <3>5
    <2> QED BY <1>2, <2>1, <2>2
  <1>5. delivered' \in [Packet -> Nat]
    <2>1. ASSUME NEW p \in Packet PROVE Cardinality({i \in 1..Len(H) : H[i] = p}) \in Nat
      <3> HIDE DEF H
      <3>1. Len(H) \in Nat
        BY <1>1 DEF Hashes
      <3>2. IsFiniteSet(1..Len(H))
        BY <3>1, FS_Interval
      <3> DEFINE X == {i \in 1..Len(H) : H[i] = p}
      <3>3. X \in SUBSET (1..Len(H))
        OBVIOUS
      <3> HIDE DEF X
      <3>4. IsFiniteSet(X)
        BY <3>2, <3>3, FS_Subset
      <3>5. Cardinality(X) \in Nat
        BY <3>4, FS_CardinalityType
      <3> QED BY <3>5 DEF X
    <2>2. delivered \in [Packet -> Nat]
      BY DEF Shapes
    <2> DEFINE k(p) == Cardinality({i \in 1..Len(H) : H[i] = p})
    <2>3. \A p \in Packet : k(p) \in Nat
      BY <2>1
    <2>4. delivered' = [p \in Packet |-> delivered[p] + k(p)]
      BY <1>1
    <2> HIDE DEF k
    <2> QED BY <2>2, <2>3, <2>4
  <1>6. n = Head(air).n
    OBVIOUS
  <1>7. beyond' \in SUBSET Packet
    BY <1>1 DEF Shapes
  <1> HIDE DEF n, more
  <1> QED BY <1>1, <1>3, <1>4, <1>5, <1>6, <1>7, ShapesHeader

LEMMA ShapesLoses ==
    ASSUME Shapes, AirLoses \/ ZmqLoses PROVE Shapes'
  <1>0. budget \in [Damage -> Nat] /\ {"lost", "hash", "request"} \subseteq Damage
    BY DEF Shapes, Damage
  <1>1. CASE AirLoses
    <2>1. /\ air # <<>> /\ air' = Tail(air) /\ lost' = lost \cup {Head(air).n} /\ Spend("lost", 1)
          /\ UNCHANGED <<setting, tun, arb_seq, slots, sent, buffer, need_retransmit, expected_seq,
                         delivered, expected, received, hashNet, requestNet, seen, beyond>>
      BY <1>1 DEF AirLoses, arbVars, demodVars
    <2>2. budget' \in [Damage -> Nat]
      BY <1>0, <2>1, SpendIs
    <2>3. air' \in Seq(Entry)
      BY <2>1 DEF Shapes
    <2>4. lost' \in SUBSET Bunches
      BY <2>1, HeadOfAir DEF Shapes
    <2> QED BY <2>1, <2>2, <2>3, <2>4, SameSets DEF Shapes
  <1>2. CASE ZmqLoses
    <2>1. /\ \/ hashNet # <<>> /\ hashNet' = Tail(hashNet) /\ Spend("hash", 1) /\ requestNet' = requestNet
             \/ requestNet # <<>> /\ requestNet' = Tail(requestNet) /\ Spend("request", 1) /\ hashNet' = hashNet
          /\ UNCHANGED <<setting, tun, arb_seq, slots, sent, buffer, need_retransmit, expected_seq,
                         delivered, expected, received, air, lost, seen, beyond>>
      BY <1>2 DEF ZmqLoses, arbVars, demodVars, history
    <2>2. budget' \in [Damage -> Nat]
      BY <1>0, <2>1, SpendIs
    <2>5. hashNet \in Seq(Bunches) /\ requestNet \in Seq(Request)
      BY DEF Shapes
    <2>3. hashNet' \in Seq(Bunches)
      BY <2>1, <2>5, TailIs
    <2>4. requestNet' \in Seq(Request)
      BY <2>1, <2>5, TailIs
    <2> QED BY <2>1, <2>2, <2>3, <2>4, SameSets DEF Shapes
  <1> QED BY <1>1, <1>2

LEMMA ShapesSecond ==
    ASSUME Shapes, Second PROVE Shapes'
  <1>1. /\ slots' = 0
        /\ buffer' = Older(buffer, Top) /\ air' = Older(air, Top)
        /\ expected' = Older(expected, Top) /\ received' = Older(received, Top)
        /\ UNCHANGED <<setting, tun, arb_seq, sent, need_retransmit, expected_seq, delivered,
                       hashNet, requestNet, lost, seen, beyond, budget>>
    BY DEF Second, history
  <1>2. /\ buffer \in Seq(Entry) /\ air \in Seq(Entry) /\ expected \in Seq(Expected)
        /\ received \in Seq(Received)
    BY DEF Shapes
  <1>3. buffer' \in Seq(Entry) /\ air' \in Seq(Entry)
    BY <1>1, <1>2, Aged, OlderIs
  <1>4. expected' \in Seq(Expected)
    BY <1>1, <1>2, Aged, OlderIs
  <1>5. received' \in Seq(Received)
    BY <1>1, <1>2, Aged, OlderIs
  <1>6. slots' \in 0..SlotsPerSec
    BY <1>1, RetransmitAssumption
  <1> QED BY <1>1, <1>3, <1>4, <1>5, <1>6, SameSets DEF Shapes

LEMMA Unchanged ==
    ASSUME UNCHANGED vars
    PROVE  UNCHANGED <<setting, tun, arb_seq, slots, sent, buffer, need_retransmit, expected_seq,
                       delivered, expected, received, air, hashNet, requestNet, lost, seen, beyond, budget>>
  BY DEF vars, arbVars, demodVars, netVars, history

LEMMA NextIs ==
    ASSUME Shapes, Next
    PROVE  \/ TunArrives \/ HitTimeslot \/ RequestArrives \/ HashesArrive
           \/ DemodGotEmpty
           \/ \E bad \in SUBSET (1..MaxWords), cut \in 0..MaxWords : DemodGotPacket(bad, cut)
           \/ AirLoses \/ ZmqLoses \/ Second
  <1>1. Damaged \in SUBSET (SUBSET (1..MaxWords))
    <2>1. MaxWords \in Nat
      BY SettingIs DEF Shapes
    <2>2. ASSUME NEW b, NEW f \in [1..b -> 0..MaxWords] PROVE ToSet(f) \ {0} \in SUBSET (1..MaxWords)
      BY <2>1 DEF ToSet
    <2> QED BY <2>2 DEF Damaged
  <1> QED BY <1>1 DEF Next

LEMMA ShapesStep ==
    ASSUME Shapes, [Next]_vars PROVE Shapes'
  <1>1. CASE TunArrives
    BY <1>1, ShapesTun
  <1>2. CASE HitTimeslot
    BY <1>2, ShapesTimeslot
  <1>3. CASE RequestArrives
    BY <1>3, ShapesRequest
  <1>4. CASE HashesArrive
    BY <1>4, ShapesHashes
  <1>5. CASE DemodGotEmpty
    BY <1>5, ShapesEmpty
  <1>6. ASSUME NEW bad \in SUBSET (1..MaxWords), NEW cut \in 0..MaxWords, DemodGotPacket(bad, cut)
        PROVE  Shapes'
    BY <1>6, ShapesPacket
  <1>7. CASE AirLoses \/ ZmqLoses
    BY <1>7, ShapesLoses
  <1>8. CASE Second
    BY <1>8, ShapesSecond
  <1>9. CASE UNCHANGED vars
    BY <1>9, Unchanged, SameSets DEF Shapes
  <1> QED BY <1>1, <1>2, <1>3, <1>4, <1>5, <1>6, <1>7, <1>8, <1>9, NextIs

LEMMA InSeq ==
    ASSUME NEW S, NEW s \in Seq(S) PROVE ToSet(s) \subseteq S
  BY DEF ToSet

LEMMA ShapesAreTypes ==
    ASSUME Shapes PROVE TypeOK
  <1>1. /\ setting \in Settings /\ delivered \in [Packet -> Nat] /\ budget \in [Damage -> Nat]
        /\ beyond \in SUBSET Packet /\ slots \in 0..SlotsPerSec
        /\ arb_seq \in 0..(SeqSize - 1) /\ expected_seq \in 0..(SeqSize - 1)
    BY DEF Shapes
  <1>2. DOMAIN sent = Bunches /\ sent \in Seq(Bunch)
    BY DEF Shapes, Bunches
  <1>3. \A n \in DOMAIN sent : /\ sent[n].seq \in 0..(SeqSize - 1)
                               /\ Len(sent[n].packets) \in 1..MaxWords
                               /\ ToSet(sent[n].packets) \subseteq Packet
    <2> TAKE n \in DOMAIN sent
    <2>1. sent[n] \in Bunch /\ Len(sent[n].packets) \in 1..MaxWords
      BY <1>2 DEF Shapes
    <2>2. sent[n].seq \in 0..(SeqSize - 1) /\ sent[n].packets \in Seq(Packet)
      BY <2>1 DEF Bunch
    <2> QED BY <2>1, <2>2, InSeq
  <1>4. ToSet(tun) \cup ToSet(need_retransmit) \subseteq Packet
    <2>1. tun \in Seq(Packet) /\ need_retransmit \in Seq(Packet)
      BY DEF Shapes
    <2> QED BY <2>1, InSeq
  <1>5. ToSet(buffer) \cup ToSet(air) \subseteq [n : DOMAIN sent, age : 0..Top]
    <2>1. buffer \in Seq(Entry) /\ air \in Seq(Entry)
      BY DEF Shapes
    <2>2. ToSet(buffer) \cup ToSet(air) \subseteq Entry
      BY <2>1, InSeq
    <2> QED BY <1>2, <2>2, Zenon DEF Entry
  <1>6. ToSet(hashNet) \cup lost \cup ({seen} \ {0}) \subseteq DOMAIN sent
    <2>1. hashNet \in Seq(Bunches) /\ lost \in SUBSET Bunches /\ seen \in 0..Len(sent)
      BY DEF Shapes
    <2>2. ToSet(hashNet) \subseteq Bunches
      BY <2>1, InSeq
    <2>3. {seen} \ {0} \subseteq Bunches
      BY <2>1, <1>2 DEF Bunches
    <2> QED BY <1>2, <2>1, <2>2, <2>3
  <1>7. ToSet(requestNet) \subseteq Request
    BY InSeq DEF Shapes
  <1>8. \A l \in ToSet(expected) \cup ToSet(received) :
           /\ l.n \in DOMAIN sent /\ l.seq = sent[l.n].seq /\ l.age \in 0..Top
           /\ ToSet(l.hashes) \subseteq Packet \cup {Bad}
    <2> TAKE l \in ToSet(expected) \cup ToSet(received)
    <2>1. expected \in Seq(Expected) /\ received \in Seq(Received)
      BY DEF Shapes
    <2>2. l \in Received
      <3>1. Expected \subseteq Received
        BY DEF Expected
      <3>2. ToSet(expected) \subseteq Expected /\ ToSet(received) \subseteq Received
        BY <2>1, InSeq
      <3> QED BY <3>1, <3>2
    <2>3. l \in List /\ l.seq = sent[l.n].seq
      BY <2>2 DEF Received
    <2>4. l.n \in Bunches /\ l.age \in 0..Top /\ l.hashes \in Hashes
      <3> HIDE DEF Hashes
      <3> QED BY <2>3 DEF List
    <2>5. ToSet(l.hashes) \subseteq Packet \cup {Bad}
      BY <2>4, InSeq DEF Hashes
    <2> QED BY <1>2, <2>3, <2>4, <2>5
  <1> QED BY <1>1, <1>3, <1>4, <1>5, <1>6, <1>7, <1>8 DEF TypeOK

\* The state keeps its types; a bunch is never empty and never larger than the
\* schedule asked for.
THEOREM TypeCorrect == Spec => []TypeOK
  <1>1. Init => Shapes
    BY ShapesInit
  <1>2. Shapes /\ [Next]_vars => Shapes'
    BY ShapesStep
  <1>3. Shapes => TypeOK
    BY ShapesAreTypes
  <1> QED BY <1>1, <1>2, <1>3, PTL DEF Spec

-----------------------------------------------------------------------------
(* The numbers of the bunches.                                             *)

\* scheduleRetransmit: entries leave the buffer only; the one whose packets
\* are to be sent again is gone.
LEMMA RequestStep ==
    ASSUME Shapes, Increasing(buffer), RequestArrives,
           NEW r, r = Head(requestNet), NEW j, j = AskedFor(r.seq, r.indices)
    PROVE  /\ Increasing(buffer')
           /\ \A n : InBuffer(n)' => InBuffer(n)
           /\ j \in 0..Len(buffer)
           /\ \/ need_retransmit' = need_retransmit /\ (r.indices # {} => j = 0)
              \/ \E n \in Bunches :
                    /\ j # 0 /\ n = buffer[j].n /\ ~InBuffer(n)'
                    /\ need_retransmit' = need_retransmit \o PacketsOf(n, r.indices)
  <1>1. \/ r.indices = {} /\ buffer' = buffer /\ need_retransmit' = need_retransmit
        \/ /\ j = 0 /\ buffer' = NotOlder(buffer, BufferKeep)
           /\ need_retransmit' = need_retransmit
        \/ /\ j # 0 /\ buffer' = NotOlder(RemoveAt(buffer, j), BufferKeep)
           /\ need_retransmit' = need_retransmit \o PacketsOf(buffer[j].n, r.indices)
    BY DEF RequestArrives, ScheduleRetransmit, bufferVars
  <1>2. buffer \in Seq(Entry)
    BY DEF Shapes
  <1>3. j \in 0..Len(buffer)
    <2>1. buffer \in Seq([n : 1..Len(sent), age : 0..Top])
      BY <1>2 DEF Entry, Bunches
    <2> QED BY <2>1, AskedForIs
  <1>4. CASE r.indices = {} /\ buffer' = buffer /\ need_retransmit' = need_retransmit
    BY <1>3, <1>4 DEF InBuffer
  <1>5. CASE /\ j = 0 /\ buffer' = NotOlder(buffer, BufferKeep)
             /\ need_retransmit' = need_retransmit
    <2> DEFINE b == NotOlder(buffer, BufferKeep)
    <2>1. Within(b, buffer, {i \in 1..Len(buffer) : buffer[i].age <= BufferKeep}, Len(buffer))
      BY <1>2, NotOlderIs
    <2> HIDE DEF b
    <2>2. /\ \A k \in 1..Len(b) : \E l \in 1..Len(buffer) : b[k] = buffer[l]
          /\ Increasing(b)
      BY <2>1, WithinIs
    <2>3. buffer' = b
      BY <1>5 DEF b
    <2>4. \A n : InBuffer(n)' => InBuffer(n)
      BY <2>2, <2>3 DEF InBuffer
    <2> QED BY <1>3, <1>5, <2>2, <2>3, <2>4
  <1>6. CASE /\ j # 0 /\ buffer' = NotOlder(RemoveAt(buffer, j), BufferKeep)
             /\ need_retransmit' = need_retransmit \o PacketsOf(buffer[j].n, r.indices)
    <2> DEFINE c == RemoveAt(buffer, j)
               b == NotOlder(c, BufferKeep)
    <2>1. j \in 1..Len(buffer)
      BY <1>2, <1>3, <1>6, SMTT(60)
    <2>2. c \in Seq(Entry) /\ Within(c, buffer, 1..Len(buffer) \ {j}, Len(buffer))
      BY <1>2, <2>1, RemoveAtIs
    <2> HIDE DEF c
    <2>3. /\ \A k \in 1..Len(c) : \E l \in 1..Len(buffer) : l # j /\ c[k] = buffer[l]
          /\ Increasing(c)
      BY <2>2, WithinIs
    <2>4. Within(b, c, {i \in 1..Len(c) : c[i].age <= BufferKeep}, Len(c))
      BY <2>2, NotOlderIs
    <2> HIDE DEF b
    <2>5. /\ \A k \in 1..Len(b) : \E l \in 1..Len(c) : b[k] = c[l]
          /\ Increasing(b)
      BY <2>3, <2>4, WithinIs
    <2>6. buffer' = b
      BY <1>6 DEF b, c
    <2>7. \A k \in 1..Len(b) : \E l \in 1..Len(buffer) : l # j /\ b[k] = buffer[l]
      BY <2>3, <2>5
    <2>8. \A n : InBuffer(n)' => InBuffer(n)
      BY <2>6, <2>7 DEF InBuffer
    <2>9. \A l \in 1..Len(buffer) : l # j => buffer[l].n # buffer[j].n
      <3> SUFFICES ASSUME NEW l \in 1..Len(buffer), l # j PROVE buffer[l].n # buffer[j].n
        OBVIOUS
      <3>1. buffer[l] \in Entry /\ buffer[j] \in Entry
        BY <1>2, <2>1
      <3>2. buffer[l].n \in Int /\ buffer[j].n \in Int
        BY <3>1 DEF Entry, Bunches
      <3>3. l < j \/ j < l
        BY <1>2, <2>1
      <3> QED BY <2>1, <3>2, <3>3 DEF Increasing
    <2>10. buffer[j].n \in Bunches
      <3>1. buffer[j] \in Entry
        BY <1>2, <2>1
      <3> QED BY <3>1 DEF Entry
    <2>11. PICK n \in Bunches : n = buffer[j].n
      BY <2>10
    <2>12. ~InBuffer(n)'
      <3>1. \A l \in 1..Len(buffer) : l # j => buffer[l].n # n
        BY <2>9, <2>11
      <3>2. \A k \in 1..Len(b) : b[k].n # n
        BY <2>7, <3>1
      <3> QED BY <2>6, <3>2 DEF InBuffer
    <2> QED BY <1>3, <1>6, <2>5, <2>6, <2>8, <2>11, <2>12
  <1> QED BY <1>1, <1>4, <1>5, <1>6

\* Steps that neither send nor decode nor lose a bunch.
LEMMA NumbersKept ==
    ASSUME Numbers, sent' = sent, arb_seq' = arb_seq, expected_seq' = expected_seq, seen' = seen,
           lost' = lost, Len(air') = Len(air), \A i \in 1..Len(air) : air'[i].n = air[i].n,
           Increasing(buffer')
    PROVE  Numbers'
  BY DEF Numbers, Off, Bunches

LEMMA OlderNumbers ==
    ASSUME Shapes, Second
    PROVE  /\ Len(air') = Len(air) /\ \A i \in 1..Len(air) : air'[i].n = air[i].n
           /\ Len(buffer') = Len(buffer) /\ \A i \in 1..Len(buffer) : buffer'[i].n = buffer[i].n
  <1>1. air' = Older(air, Top) /\ buffer' = Older(buffer, Top)
    BY DEF Second
  <1>2. air \in Seq(Entry) /\ buffer \in Seq(Entry)
    BY DEF Shapes
  <1>3. \A e \in Entry, x \in 0..Top : [e EXCEPT !.age = x].n = e.n
    BY DEF Entry
  <1>4. /\ \A e \in Entry : e.age \in 0..Top
        /\ \A e \in Entry, x \in 0..Top : [e EXCEPT !.age = x] \in Entry
    BY Aged
  <1>5. /\ Len(Older(air, Top)) = Len(air)
        /\ \A i \in 1..Len(air) : \E x \in 0..Top : Older(air, Top)[i] = [air[i] EXCEPT !.age = x]
    BY <1>2, <1>4, OlderIs
  <1>6. /\ Len(Older(buffer, Top)) = Len(buffer)
        /\ \A i \in 1..Len(buffer) : \E x \in 0..Top :
              Older(buffer, Top)[i] = [buffer[i] EXCEPT !.age = x]
    BY <1>2, <1>4, OlderIs
  <1>7. \A i \in 1..Len(air) : air[i] \in Entry
    BY <1>2
  <1>8. \A i \in 1..Len(buffer) : buffer[i] \in Entry
    BY <1>2
  <1>9. \A i \in 1..Len(air) : air'[i].n = air[i].n
    <2> TAKE i \in 1..Len(air)
    <2>1. PICK x \in 0..Top : air'[i] = [air[i] EXCEPT !.age = x]
      BY <1>1, <1>5
    <2> QED BY <1>3, <1>7, <2>1
  <1>10. \A i \in 1..Len(buffer) : buffer'[i].n = buffer[i].n
    <2> TAKE i \in 1..Len(buffer)
    <2>1. PICK x \in 0..Top : buffer'[i] = [buffer[i] EXCEPT !.age = x]
      BY <1>1, <1>6
    <2> QED BY <1>3, <1>8, <2>1
  <1> QED BY <1>1, <1>5, <1>6, <1>9, <1>10

\* A bunch leaves the air.
LEMMA AirMoves ==
    ASSUME Shapes, Numbers, air # <<>>, air' = Tail(air), sent' = sent, NEW n, n = Head(air).n
    PROVE  /\ n \in Bunches /\ n \in Nat /\ n = Len(sent) - Len(air) + 1 /\ ~Off(n)
           /\ Len(air') = Len(air) - 1 /\ Len(air) \in Nat /\ Len(air) >= 1
           /\ \A i \in 1..Len(air') : air'[i].n = Len(sent) - Len(air') + i
           /\ \A m \in Int : Off(m)' <=> (Off(m) \/ m = n)
  <1>1. air \in Seq(Entry) /\ Len(sent) \in Nat /\ n \in Bunches
    BY HeadOfAir, SMTT(60) DEF Shapes
  <1>2. /\ Len(air) \in Nat /\ Len(air) >= 1 /\ Len(Tail(air)) = Len(air) - 1
        /\ \A i \in 1..(Len(air) - 1) : Tail(air)[i] = air[i + 1]
        /\ Head(air) = air[1]
    BY <1>1, TailIs
  <1>3. \A i \in 1..Len(air) : air[i].n = Len(sent) - Len(air) + i
    BY DEF Numbers
  <1>4. n = Len(sent) - Len(air) + 1
    BY <1>2, <1>3
  <1>5. ASSUME NEW i \in 1..Len(air') PROVE air'[i].n = Len(sent) - Len(air') + i
    <2>1. i \in 1..(Len(air) - 1) /\ i + 1 \in 1..Len(air)
      BY <1>2
    <2>2. air'[i] = air[i + 1]
      BY <1>2, <2>1
    <2>3. air[i + 1].n = Len(sent) - Len(air) + (i + 1)
      <3> DEFINE k == i + 1
      <3>1. k \in 1..Len(air)
        BY <2>1
      <3> HIDE DEF k
      <3>2. air[k].n = Len(sent) - Len(air) + k
        BY <1>3, <3>1
      <3> QED BY <3>2 DEF k
    <2> QED BY <1>1, <1>2, <2>1, <2>2, <2>3
  <1>6. \A m \in Int : Off(m)' <=> (Off(m) \/ m = n)
    BY <1>1, <1>2, <1>4 DEF Off
  <1>7. ~Off(n) /\ n \in Nat
    BY <1>1, <1>2, <1>4 DEF Off, Bunches
  <1> QED BY <1>1, <1>2, <1>4, <1>5, <1>6, <1>7

LEMMA NumbersInit ==
    ASSUME Init PROVE Numbers
  <1>1. sent = <<>> /\ buffer = <<>> /\ air = <<>> /\ lost = {} /\ seen = 0 /\ arb_seq = 0
        /\ expected_seq = 0
    BY DEF Init, BufferInit
  <1>2. Len(sent) = 0 /\ Len(buffer) = 0 /\ Len(air) = 0 /\ Bunches = {} /\ 1..0 = {}
    BY <1>1 DEF Bunches
  <1>3. 0 % SeqSize = 0
    BY SeqSizeIs, ModSmall
  <1> QED BY <1>1, <1>2, <1>3 DEF Numbers, Off, Increasing

\* What hitTimeslot does, flattened.
LEMMA TimeslotIs ==
    ASSUME Shapes, HitTimeslot
    PROVE  /\ arb_seq' = (arb_seq + 1) % SeqSize
           /\ UNCHANGED <<setting, expected_seq, delivered, expected, received, requestNet, lost,
                          seen, beyond, budget>>
           /\ Len(air) \in Nat /\ Len(air') = Len(air) + 1 /\ air'[Len(air) + 1].n = Len(sent) + 1
           /\ \A i \in 1..Len(air) : air'[i] = air[i]
           /\ Len(buffer) \in Nat /\ Len(buffer') = Len(buffer) + 1
           /\ buffer'[Len(buffer) + 1].n = Len(sent) + 1
           /\ \A i \in 1..Len(buffer) : buffer'[i] = buffer[i]
           /\ hashNet' = Append(hashNet, Len(sent) + 1)
           /\ air'[Len(air) + 1].age = 0
  <1> DEFINE e == [n |-> Len(sent) + 1, age |-> 0]
  <1>1. /\ arb_seq' = (arb_seq + 1) % SeqSize
        /\ UNCHANGED <<setting, expected_seq, delivered, expected, received, requestNet, lost,
                       seen, beyond, budget>>
        /\ air' = Append(air, e) /\ buffer' = Append(buffer, e)
        /\ hashNet' = Append(hashNet, Len(sent) + 1)
    BY DEF HitTimeslot, Trigger4, ScheduleJointFromTunData, SentOverAir, demodVars, history
  <1>2. e.n = Len(sent) + 1 /\ e.age = 0
    OBVIOUS
  <1> HIDE DEF e
  <1>3. air \in Seq(Entry) /\ buffer \in Seq(Entry)
    BY DEF Shapes
  <1>4. /\ Len(air) \in Nat /\ Len(air') = Len(air) + 1 /\ air'[Len(air) + 1] = e
        /\ \A i \in 1..Len(air) : air'[i] = air[i]
    BY <1>1, <1>3
  <1>5. /\ Len(buffer) \in Nat /\ Len(buffer') = Len(buffer) + 1
        /\ buffer'[Len(buffer) + 1] = e
        /\ \A i \in 1..Len(buffer) : buffer'[i] = buffer[i]
    BY <1>1, <1>3
  <1> QED BY <1>1, <1>2, <1>4, <1>5

LEMMA NumbersTimeslot ==
    ASSUME Shapes, Numbers, HitTimeslot PROVE Numbers'
  <1>1. PICK P \in Seq(Packet), a \in 0..Len(need_retransmit), c \in 0..Len(tun) :
            Scheduled(P, a, c)
    BY ScheduledIs
  <1>2. /\ arb_seq' = (arb_seq + 1) % SeqSize
        /\ setting' = setting /\ expected_seq' = expected_seq /\ lost' = lost /\ seen' = seen
        /\ Len(air) \in Nat /\ Len(air') = Len(air) + 1 /\ air'[Len(air) + 1].n = Len(sent) + 1
        /\ \A i \in 1..Len(air) : air'[i] = air[i]
        /\ Len(buffer) \in Nat /\ Len(buffer') = Len(buffer) + 1
        /\ buffer'[Len(buffer) + 1].n = Len(sent) + 1
        /\ \A i \in 1..Len(buffer) : buffer'[i] = buffer[i]
    BY TimeslotIs
  <1>3. a \in Nat /\ c \in Nat
    BY DEF Shapes
  <1>4. /\ Len(sent') = Len(sent) + 1 /\ Len(sent) \in Nat
        /\ \A n \in Bunches : sent'[n] = sent[n]
        /\ sent'[Len(sent) + 1] = [seq |-> arb_seq, packets |-> P]
        /\ Bunches' = Bunches \cup {Len(sent) + 1}
    BY <1>1, <1>2, <1>3, SentGrows
  <1>5. arb_seq = Len(sent) % SeqSize
    BY DEF Numbers
  <1>6. \A n \in Bunches' : sent'[n].seq = (n - 1) % SeqSize
    <2>1. sent'[Len(sent) + 1].seq = arb_seq
      BY <1>4
    <2>2. (Len(sent) + 1) - 1 = Len(sent)
      BY <1>4
    <2>3. ASSUME NEW n \in Bunches PROVE sent'[n].seq = (n - 1) % SeqSize
      BY <1>4 DEF Numbers
    <2>4. sent'[Len(sent) + 1].seq = ((Len(sent) + 1) - 1) % SeqSize
      BY <1>5, <2>1, <2>2, Zenon
    <2> QED BY <1>4, <2>3, <2>4
  <1>7. arb_seq' = Len(sent') % SeqSize
    <2> DEFINE l == Len(sent)
    <2>1. l \in Int /\ 1 \in Int
      BY <1>4
    <2> HIDE DEF l
    <2>2. ((l % SeqSize) + 1) % SeqSize = (l + 1) % SeqSize
      BY <2>1, SeqSizeIs, ModPlus
    <2> QED BY <1>2, <1>4, <1>5, <2>2 DEF l
  <1>8. Len(air') <= Len(sent') /\ \A m \in Int : Off(m)' <=> Off(m)
    BY <1>2, <1>4, SMTT(60) DEF Numbers, Off
  <1>9. \A i \in 1..Len(air') : air'[i].n = Len(sent') - Len(air') + i
    <2> TAKE i \in 1..Len(air')
    <2>1. CASE i = Len(air) + 1
      BY <1>2, <1>4, <2>1
    <2>2. CASE i \in 1..Len(air)
      <3>1. air'[i].n = air[i].n /\ air[i].n = Len(sent) - Len(air) + i
        BY <1>2, <2>2 DEF Numbers
      <3> QED BY <1>2, <1>4, <2>2, <3>1
    <2> QED BY <1>2, <2>1, <2>2
  <1>10. ~Off(Len(sent) + 1)
    BY <1>2, <1>4 DEF Off
  <1>11. /\ Off(seen)' /\ seen' \notin lost'
         /\ \A m \in Bunches' : m \in lost' => Off(m)'
         /\ \A m \in Bunches' : Off(m)' /\ seen' < m => m \in lost'
    <2>1. seen \in Int /\ lost \in SUBSET Bunches /\ Len(sent) + 1 \in Int
      BY <1>4 DEF Shapes
    <2>2. Off(seen)'
      <3>1. Off(seen)
        BY DEF Numbers
      <3> QED BY <1>2, <1>4, <3>1 DEF Off
    <2>3. \A m \in Bunches' : m \in Int
      BY DEF Bunches
    <2>4. \A m \in Bunches' : m \in lost' => Off(m)'
      BY <1>2, <1>8, <2>1, <2>3 DEF Numbers
    <2>5. ASSUME NEW m \in Bunches', Off(m)', seen' < m PROVE m \in lost'
      <3>1. m \in Int /\ Off(m)
        BY <1>8, <2>3, <2>5
      <3>2. m \in Bunches
        BY <1>4, <1>10, <3>1
      <3> QED BY <1>2, <2>5, <3>1, <3>2 DEF Numbers
    <2> QED BY <1>2, <2>2, <2>4, <2>5 DEF Numbers
  <1>12. Increasing(buffer')
    <2>1. \A i \in 1..Len(buffer) : buffer[i].n \in 1..Len(sent)
      <3> TAKE i \in 1..Len(buffer)
      <3>1. buffer[i] \in Entry
        BY DEF Shapes
      <3> QED BY <3>1 DEF Entry, Bunches
    <2> SUFFICES ASSUME NEW i \in 1..Len(buffer'), NEW k \in 1..Len(buffer'), i < k
                 PROVE  buffer'[i].n < buffer'[k].n
      BY DEF Increasing
    <2>2. i \in 1..Len(buffer)
      BY <1>2
    <2>3. CASE k = Len(buffer) + 1
      BY <1>2, <1>4, <2>1, <2>2, <2>3, SMTT(60)
    <2>4. CASE k \in 1..Len(buffer)
      BY <1>2, <2>2, <2>4 DEF Numbers, Increasing
    <2>5. k = Len(buffer) + 1 \/ k \in 1..Len(buffer)
      <3>1. Len(buffer') = Len(buffer) + 1 /\ Len(buffer) \in Nat
        BY <1>2
      <3> QED BY <3>1
    <2> QED BY <2>3, <2>4, <2>5
  <1> QED BY <1>2, <1>6, <1>7, <1>8, <1>9, <1>11, <1>12 DEF Numbers

LEMMA NumbersHeader ==
    ASSUME Shapes, Numbers, air # <<>>, NEW n, n = Head(air).n, NEW requests, GotHeader(n, requests)
    PROVE  Numbers'
  <1>1. /\ air' = Tail(air) /\ expected_seq' = (sent[n].seq + 1) % SeqSize /\ seen' = n
        /\ UNCHANGED <<arb_seq, sent, buffer, lost>>
    BY DEF GotHeader, arbVars
  <1>2. /\ n \in Bunches /\ n \in Nat /\ n = Len(sent) - Len(air) + 1 /\ ~Off(n)
        /\ Len(air') = Len(air) - 1 /\ Len(air) \in Nat /\ Len(air) >= 1
        /\ \A i \in 1..Len(air') : air'[i].n = Len(sent) - Len(air') + i
        /\ \A m \in Int : Off(m)' <=> (Off(m) \/ m = n)
    BY <1>1, AirMoves
  <1>9. Len(sent) \in Nat
    BY DEF Shapes
  <1>3. expected_seq' = seen' % SeqSize
    <2> DEFINE x == n - 1
    <2>1. sent[n].seq = x % SeqSize /\ x \in Int /\ 1 \in Int /\ x + 1 = n
      BY <1>2 DEF Numbers
    <2> HIDE DEF x
    <2>2. ((x % SeqSize) + 1) % SeqSize = (x + 1) % SeqSize
      BY <2>1, SeqSizeIs, ModPlus
    <2>3. expected_seq' = (x + 1) % SeqSize
      BY <1>1, <2>1, <2>2
    <2> QED BY <1>1, <2>1, <2>3, Zenon
  <1>4. Bunches' = Bunches /\ Bunches \in SUBSET Int
    BY <1>1 DEF Bunches
  <1>5. Off(seen)' /\ seen' \notin lost' /\ \A m \in Bunches' : m \in lost' => Off(m)'
    <2>1. Off(n)'
      BY <1>2
    <2>2. Off(seen)'
      BY <1>1, <2>1 DEF Off
    <2>3. n \notin lost
      BY <1>2 DEF Numbers
    <2>4. \A m \in Bunches : m \in lost => Off(m)'
      BY <1>2, <1>4 DEF Numbers
    <2> QED BY <1>1, <1>4, <2>2, <2>3, <2>4
  <1>6. \A m \in Bunches' : ~(Off(m)' /\ seen' < m)
    <2> SUFFICES ASSUME NEW m \in Bunches', Off(m)', seen' < m PROVE FALSE
      OBVIOUS
    <2>1. m \in Int /\ (Off(m) \/ m = n) /\ n < m
      BY <1>1, <1>2, <1>4
    <2>3. n = Len(sent) - Len(air) + 1 /\ Len(air) \in Nat /\ m \in Int /\ n < m
      BY <1>2, <2>1
    <2>2. ~Off(m)
      BY <1>9, <2>3 DEF Off
    <2> QED BY <1>2, <2>1, <2>2
  <1>7. Len(air') <= Len(sent') /\ Len(sent) \in Nat
    <2>1. Len(air) <= Len(sent)
      BY DEF Numbers
    <2> QED BY <1>1, <1>2, <1>9, <2>1
  <1>8. /\ \A i \in 1..Len(air') : air'[i].n = Len(sent') - Len(air') + i
        /\ \A k \in Bunches' : sent'[k].seq = (k - 1) % SeqSize
        /\ arb_seq' = Len(sent') % SeqSize
        /\ Increasing(buffer')
    BY <1>1, <1>2, <1>4 DEF Numbers
  <1> QED BY <1>3, <1>5, <1>6, <1>7, <1>8 DEF Numbers

LEMMA NumbersLoses ==
    ASSUME Shapes, Numbers, AirLoses PROVE Numbers'
  <1>0. PICK n : n = Head(air).n
    OBVIOUS
  <1>1. /\ air # <<>> /\ air' = Tail(air) /\ lost' = lost \cup {n}
        /\ UNCHANGED <<arb_seq, sent, buffer, expected_seq, seen>>
    BY <1>0 DEF AirLoses, arbVars, demodVars
  <1>2. /\ n \in Bunches /\ n \in Nat /\ n = Len(sent) - Len(air) + 1 /\ ~Off(n)
        /\ Len(air') = Len(air) - 1 /\ Len(air) \in Nat /\ Len(air) >= 1
        /\ \A i \in 1..Len(air') : air'[i].n = Len(sent) - Len(air') + i
        /\ \A m \in Int : Off(m)' <=> (Off(m) \/ m = n)
    BY <1>0, <1>1, AirMoves
  <1>4. Bunches' = Bunches /\ Bunches \in SUBSET Int
    BY <1>1 DEF Bunches
  <1>5. Off(seen)' /\ seen' \notin lost'
    <2>1. Off(seen) /\ seen \in Int /\ seen \notin lost
      BY DEF Numbers, Shapes
    <2>2. PICK s \in Int : s = seen
      BY <2>1
    <2>3. Off(s) /\ s # n
      BY <1>2, <2>1, <2>2
    <2>4. Off(s)'
      BY <1>2, <2>3
    <2> QED BY <1>1, <2>1, <2>2, <2>3, <2>4 DEF Off
  <1>6. \A m \in Bunches' : m \in lost' => Off(m)'
    BY <1>1, <1>2, <1>4 DEF Numbers
  <1>7. \A m \in Bunches' : Off(m)' /\ seen' < m => m \in lost'
    BY <1>1, <1>2, <1>4 DEF Numbers
  <1>8. Len(air') <= Len(sent') /\ Len(sent) \in Nat
    BY <1>1, <1>2 DEF Numbers, Shapes
  <1>9. /\ \A i \in 1..Len(air') : air'[i].n = Len(sent') - Len(air') + i
        /\ \A k \in Bunches' : sent'[k].seq = (k - 1) % SeqSize
        /\ arb_seq' = Len(sent') % SeqSize /\ expected_seq' = seen' % SeqSize
        /\ Increasing(buffer')
    BY <1>1, <1>2, <1>4 DEF Numbers
  <1> QED BY <1>5, <1>6, <1>7, <1>8, <1>9 DEF Numbers

LEMMA NumbersStep ==
    ASSUME Shapes, Numbers, [Next]_vars PROVE Numbers'
  <1>0. Increasing(buffer)
    BY DEF Numbers
  <1>1. CASE TunArrives
    <2>1. UNCHANGED <<sent, arb_seq, expected_seq, seen, lost, air, buffer>>
      BY <1>1 DEF TunArrives, bufferVars, demodVars, netVars, history
    <2> QED BY <1>0, <2>1, NumbersKept
  <1>2. CASE HitTimeslot
    BY <1>2, NumbersTimeslot
  <1>3. CASE RequestArrives
    <2>1. UNCHANGED <<sent, arb_seq, expected_seq, seen, lost, air>>
      BY <1>3 DEF RequestArrives, demodVars, history
    <2>2. Increasing(buffer')
      BY <1>0, <1>3, RequestStep
    <2> QED BY <2>1, <2>2, NumbersKept
  <1>4. CASE HashesArrive
    <2>1. UNCHANGED <<sent, arb_seq, expected_seq, seen, lost, air, buffer>>
      BY <1>4 DEF HashesArrive, arbVars, history
    <2> QED BY <1>0, <2>1, NumbersKept
  <1>5. CASE DemodGotEmpty
    <2>1. air # <<>> /\ GotHeader(Head(air).n, <<>>)
      BY <1>5 DEF DemodGotEmpty, Arrived
    <2> QED BY <2>1, NumbersHeader
  <1>6. ASSUME NEW bad \in SUBSET (1..MaxWords), NEW cut \in 0..MaxWords, DemodGotPacket(bad, cut)
        PROVE  Numbers'
    <2>1. air # <<>> /\ GotHeader(Head(air).n, FoundMissing(bad, cut))
      BY <1>6, PacketStep
    <2> QED BY <2>1, NumbersHeader
  <1>7. CASE AirLoses
    BY <1>7, NumbersLoses
  <1>8. CASE ZmqLoses
    <2>1. UNCHANGED <<sent, arb_seq, expected_seq, seen, lost, air, buffer>>
      BY <1>8 DEF ZmqLoses, arbVars, demodVars, history
    <2> QED BY <1>0, <2>1, NumbersKept
  <1>9. CASE Second
    <2>1. UNCHANGED <<sent, arb_seq, expected_seq, seen, lost>>
      BY <1>9 DEF Second, history
    <2>2. Increasing(buffer')
      BY <1>0, <1>9, OlderNumbers DEF Increasing
    <2> QED BY <1>9, <2>1, <2>2, OlderNumbers, NumbersKept
  <1>10. CASE UNCHANGED vars
    BY <1>0, <1>10, Unchanged, NumbersKept
  <1> QED BY <1>1, <1>2, <1>3, <1>4, <1>5, <1>6, <1>7, <1>8, <1>9, <1>10, NextIs

-----------------------------------------------------------------------------
(* A packet is in one place where it can be asked for or be sent again.    *)

\* No two bunches that are kept, in the air, asked for or announced have the
\* same number, and not a whole lap of them is lost in a row.  The code relies
\* on this and does not see to it (see the run with small sequence numbers).
Remembered ==
    {buffer[i].n : i \in 1..Len(buffer)} \cup {air[i].n : i \in 1..Len(air)}
    \cup {requestNet[i].of : i \in 1..Len(requestNet)}
    \cup {expected[i].n : i \in 1..Len(expected)}

NoReuse ==
    /\ \A m, n \in Remembered : sent[m].seq = sent[n].seq => m = n
    /\ air # <<>> => Len(sent) - Len(air) - seen < SeqSize

\* What a request finds is what it is about.
LEMMA FoundIsOf ==
    ASSUME Shapes, Requests, NoReuse, NEW i \in 1..Len(requestNet),
           NEW r, r = requestNet[i], NEW j, j = AskedFor(r.seq, r.indices), j # 0
    PROVE  /\ j \in 1..Len(buffer) /\ buffer[j].n = r.of /\ r.of \in Bunches /\ Off(r.of)
           /\ InBuffer(r.of)
  <1>1. buffer \in Seq([n : 1..Len(sent), age : 0..Top])
    BY DEF Shapes, Entry, Bunches
  <1>2. j \in 0..Len(buffer) /\ sent[buffer[j].n].seq = r.seq
    BY <1>1, AskedForIs
  <1>3. j \in 1..Len(buffer)
    BY <1>1, <1>2
  <1>4. r.of \in Bunches /\ Off(r.of) /\ r.seq = sent[r.of].seq
    BY DEF Requests, Sound
  <1>5. buffer[j].n \in Remembered /\ r.of \in Remembered
    BY <1>3 DEF Remembered
  <1>6. buffer[j].n = r.of
    BY <1>2, <1>4, <1>5 DEF NoReuse
  <1> QED BY <1>3, <1>4, <1>6 DEF InBuffer

\* The packets that are to be sent again.
LEMMA AskedPackets ==
    ASSUME NEW n, sent[n].packets \in Seq(Packet), Distinct(sent[n].packets), NEW ix,
           NEW Q, Q = PacketsOf(n, ix)
    PROVE  /\ Q \in Seq(Packet) /\ Distinct(Q)
           /\ \A k \in 1..Len(Q) : \E i \in 1..Len(sent[n].packets) :
                  /\ sent[n].packets[i] = Q[k] /\ (ix = AllMissing \/ i \in ix)
  <1> DEFINE s == sent[n].packets
  <1>1. /\ Q \in Seq(Packet)
        /\ ix = AllMissing => Q = s
        /\ ix # AllMissing => Within(Q, s, ix, Len(s))
    BY PacketsOfIs
  <1>2. s \in Seq(Packet) /\ Distinct(s)
    OBVIOUS
  <1> HIDE DEF s
  <1>3. CASE ix = AllMissing
    BY <1>1, <1>2, <1>3 DEF s
  <1>4. CASE ix # AllMissing
    <2>1. PICK f \in [1..Len(Q) -> 1..Len(s)] :
              /\ \A k \in 1..Len(Q) : f[k] \in ix /\ Q[k] = s[f[k]]
              /\ \A k, l \in 1..Len(Q) : k < l => f[k] < f[l]
      BY <1>1, <1>4 DEF Within
    <2>2. Distinct(Q)
      <3> SUFFICES ASSUME NEW k \in 1..Len(Q), NEW l \in 1..Len(Q), k # l PROVE Q[k] # Q[l]
        BY DEF Distinct
      <3>1. k \in Int /\ l \in Int /\ f[k] \in Int /\ f[l] \in Int
        BY <1>1, <1>2
      <3>2. f[k] # f[l]
        <4>1. k < l \/ l < k
          BY <3>1
        <4> QED BY <2>1, <3>1, <4>1
      <3>3. PICK u \in 1..Len(s), v \in 1..Len(s) : u = f[k] /\ v = f[l]
        OBVIOUS
      <3>4. Q[k] = s[u] /\ Q[l] = s[v]
        BY <2>1, <3>3
      <3>5. s[u] # s[v]
        BY <1>2, <3>2, <3>3 DEF Distinct
      <3> QED BY <3>4, <3>5
    <2> QED BY <1>1, <2>1, <2>2 DEF s
  <1> QED BY <1>3, <1>4

LEMMA ChainKept ==
    ASSUME Chain, sent' = sent, setting' = setting, tun' = tun,
           need_retransmit' = need_retransmit,
           \A n \in Bunches : (Off(n) => Off(n)') /\ (InBuffer(n)' => InBuffer(n))
    PROVE  Chain'
  <1>1. Bunches' = Bunches /\ Packet' = Packet
    BY DEF Bunches, Packet
  <1>2. \A n \in Bunches, p \in Packet : Has(n, p)' <=> Has(n, p)
    BY DEF Has
  <1>3. \A p \in Packet : InNeed(p)' <=> InNeed(p)
    BY DEF InNeed
  <1>4. \A n \in Bunches : Spent(n) => Spent(n)'
    BY DEF Spent
  <1> QED BY <1>1, <1>2, <1>3, <1>4 DEF Chain, Distinct

LEMMA ChainInit ==
    ASSUME Init PROVE Chain
  <1>1. sent = <<>> /\ need_retransmit = <<>> /\ tun = [p \in 1..setting.waiting |-> p]
        /\ setting \in Settings
    BY DEF Init, BufferInit
  <1>2. Bunches = {} /\ Len(need_retransmit) = 0 /\ 1..0 = {} /\ setting.waiting \in Nat
    BY <1>1, SettingIs DEF Bunches
  <1>3. Len(tun) = setting.waiting /\ \A i \in 1..setting.waiting : tun[i] = i
    BY <1>1, <1>2
  <1>4. \A i, k \in 1..Len(tun) : i < k => tun[i] < tun[k]
    BY <1>2, <1>3
  <1> QED BY <1>2, <1>4 DEF Chain, InNeed, Distinct

LEMMA ChainRequest ==
    ASSUME Shapes, Numbers, Chain, Requests, NoReuse, RequestArrives
    PROVE  Chain'
  <1>0. PICK r : r = Head(requestNet)
    OBVIOUS
  <1>01. PICK j : j = AskedFor(r.seq, r.indices)
    OBVIOUS
  <1>1. /\ requestNet # <<>>
        /\ UNCHANGED <<setting, tun, sent, air>>
    BY DEF RequestArrives
  <1>2. Increasing(buffer)
    BY DEF Numbers
  <1>3. /\ \A n : InBuffer(n)' => InBuffer(n)
        /\ \/ need_retransmit' = need_retransmit
           \/ \E n \in Bunches :
                 /\ j # 0 /\ n = buffer[j].n /\ ~InBuffer(n)'
                 /\ need_retransmit' = need_retransmit \o PacketsOf(n, r.indices)
    BY <1>0, <1>01, <1>2, RequestStep
  <1>4. \A n \in Bunches : (Off(n) => Off(n)') /\ (InBuffer(n)' => InBuffer(n))
    BY <1>1, <1>3 DEF Off
  <1>5. CASE need_retransmit' = need_retransmit
    BY <1>1, <1>4, <1>5, ChainKept
  <1>6. ASSUME NEW n \in Bunches, j # 0, n = buffer[j].n, ~InBuffer(n)',
               need_retransmit' = need_retransmit \o PacketsOf(n, r.indices)
        PROVE  Chain'
    <2>1. n = r.of /\ Off(n) /\ InBuffer(n)
      <3>1. requestNet \in Seq(Request)
        BY DEF Shapes
      <3>2. r = requestNet[1] /\ 1 \in 1..Len(requestNet)
        BY <1>0, <1>1, <3>1, TailIs
      <3> QED BY <1>01, <1>6, <3>2, FoundIsOf
    <2>2. PICK Q : Q = PacketsOf(n, r.indices)
      OBVIOUS
    <2>3. sent[n].packets \in Seq(Packet) /\ Distinct(sent[n].packets)
      <3>1. sent[n] \in Bunch
        BY BunchAt
      <3> QED BY <3>1 DEF Bunch, Chain
    <2>4. /\ Q \in Seq(Packet) /\ Distinct(Q)
          /\ \A k \in 1..Len(Q) : \E i \in 1..Len(sent[n].packets) : sent[n].packets[i] = Q[k]
      BY <2>2, <2>3, AskedPackets
    <2>5. need_retransmit \in Seq(Packet) /\ need_retransmit' = need_retransmit \o Q
      BY <1>6, <2>2 DEF Shapes
    <2>6. /\ Len(need_retransmit') = Len(need_retransmit) + Len(Q)
          /\ \A i \in 1..Len(need_retransmit) : need_retransmit'[i] = need_retransmit[i]
          /\ \A i \in 1..Len(Q) : need_retransmit'[Len(need_retransmit) + i] = Q[i]
          /\ Len(need_retransmit) \in Nat /\ Len(Q) \in Nat
      BY <2>4, <2>5, ConcatIs
    <2>7. \A k \in 1..Len(Q) : Q[k] \in Packet /\ Has(n, Q[k])
      BY <2>4 DEF Has
    <2>8. ASSUME NEW x \in 1..Len(need_retransmit')
          PROVE  \/ x \in 1..Len(need_retransmit) /\ need_retransmit'[x] = need_retransmit[x]
                 \/ /\ x - Len(need_retransmit) \in 1..Len(Q)
                    /\ need_retransmit'[x] = Q[x - Len(need_retransmit)]
      <3>1. CASE x \in 1..Len(need_retransmit)
        BY <2>6, <3>1
      <3>2. CASE x \notin 1..Len(need_retransmit)
        <4> DEFINE y == x - Len(need_retransmit)
        <4>1. y \in 1..Len(Q) /\ x = Len(need_retransmit) + y
          BY <2>6, <3>2
        <4> HIDE DEF y
        <4>2. need_retransmit'[x] = Q[y]
          BY <2>6, <4>1
        <4> QED BY <4>1, <4>2 DEF y
      <3> QED BY <3>1, <3>2
    <2>9. \A p \in Packet : InNeed(p)' => InNeed(p) \/ Has(n, p)
      BY <2>7, <2>8 DEF InNeed
    <2>10. \A p \in Packet : ~(InNeed(p) /\ Has(n, p))
      BY <2>1 DEF Chain, Spent
    <2>11. Distinct(need_retransmit')
      <3> SUFFICES ASSUME NEW x \in 1..Len(need_retransmit'), NEW y \in 1..Len(need_retransmit'),
                          x # y, need_retransmit'[x] = need_retransmit'[y]
                   PROVE  FALSE
        BY DEF Distinct
      <3> DEFINE l == Len(need_retransmit)
                 xx == x - l
                 yy == y - l
      <3>1. x \in Int /\ y \in Int /\ l \in Nat
        BY <2>6
      <3>2. CASE x \in 1..l /\ y \in 1..l
        BY <2>8, <3>1, <3>2, <2>6 DEF Chain, Distinct
      <3>3. CASE x \notin 1..l /\ y \notin 1..l
        <4>1. xx \in 1..Len(Q) /\ yy \in 1..Len(Q) /\ Q[xx] = Q[yy]
          BY <2>8, <3>3
        <4>2. xx # yy
          BY <3>1
        <4> HIDE DEF xx, yy
        <4> QED BY <2>4, <4>1, <4>2 DEF Distinct
      <3>4. CASE x \in 1..l /\ y \notin 1..l
        <4>1. yy \in 1..Len(Q) /\ need_retransmit[x] = Q[yy]
          BY <2>8, <3>4, <2>6
        <4> HIDE DEF yy
        <4>2. PICK p \in Packet : p = Q[yy] /\ Has(n, p)
          BY <2>7, <4>1
        <4>3. InNeed(p)
          BY <3>4, <4>1, <4>2 DEF InNeed
        <4> QED BY <2>10, <4>2, <4>3
      <3>5. CASE x \notin 1..l /\ y \in 1..l
        <4>1. xx \in 1..Len(Q) /\ need_retransmit[y] = Q[xx]
          BY <2>8, <3>5, <2>6
        <4> HIDE DEF xx
        <4>2. PICK p \in Packet : p = Q[xx] /\ Has(n, p)
          BY <2>7, <4>1
        <4>3. InNeed(p)
          BY <3>5, <4>1, <4>2 DEF InNeed
        <4> QED BY <2>10, <4>2, <4>3
      <3> QED BY <3>2, <3>3, <3>4, <3>5
    <2>12. Bunches' = Bunches /\ Packet' = Packet
      BY <1>1 DEF Bunches, Packet
    <2>13. \A m \in Bunches, p \in Packet : Has(m, p)' <=> Has(m, p)
      BY <1>1 DEF Has
    <2>14. \A m \in Bunches : Spent(m) => Spent(m)'
      BY <1>4 DEF Spent
    <2>15. ASSUME NEW m \in Bunches, NEW p \in Packet, Has(m, p), InNeed(p)' PROVE Spent(m)'
      <3>1. CASE InNeed(p)
        BY <2>14, <2>15, <3>1 DEF Chain
      <3>2. CASE Has(n, p)
        <4>1. m \in Int /\ n \in Int
          BY DEF Bunches
        <4>2. CASE m = n
          <5>1. Off(n)'
            BY <1>4, <2>1
          <5> QED BY <1>6, <4>2, <5>1 DEF Spent
        <4>3. CASE m < n
          BY <2>14, <2>15, <3>2, <4>3 DEF Chain
        <4>4. CASE n < m
          <5>1. Spent(n)
            BY <2>15, <3>2, <4>4 DEF Chain
          <5> QED BY <2>1, <5>1 DEF Spent
        <4> QED BY <4>1, <4>2, <4>3, <4>4
      <3> QED BY <2>9, <2>15, <3>1, <3>2
    <2>16. \A p \in Packet : InNeed(p)' => \E m \in Bunches : Has(m, p)
      BY <2>9 DEF Chain
    <2>17. /\ \A a, b \in Bunches, p \in Packet : a < b /\ Has(a, p)' /\ Has(b, p)' => Spent(a)'
           /\ \A a \in Bunches, p \in Packet, i \in 1..Len(tun') : Has(a, p)' => p < tun'[i]
           /\ \A i, k \in 1..Len(tun') : i < k => tun'[i] < tun'[k]
           /\ \A a \in Bunches : Distinct(sent'[a].packets)
      BY <1>1, <2>13, <2>14 DEF Chain
    <2> QED BY <2>11, <2>12, <2>13, <2>15, <2>16, <2>17 DEF Chain
  <1> QED BY <1>3, <1>5, <1>6

\* A packet from the tun device is new.
LEMMA FreshIs ==
    ASSUME Shapes, Chain, fresh \in Packet
    PROVE  /\ \A n \in Bunches, p \in Packet : Has(n, p) => p < fresh
           /\ \A i \in 1..Len(tun) : tun[i] < fresh
  <1>1. setting.packets \in Nat /\ Packet = 1..setting.packets
    BY SettingIs DEF Shapes, Packet
  <1>2. tun \in Seq(Packet) /\ sent \in Seq(Bunch)
    BY DEF Shapes
  <1>3. CASE tun # <<>>
    <2> DEFINE l == Len(tun)
    <2>1. l \in Nat /\ l >= 1 /\ l \in 1..Len(tun) /\ tun[l] \in Packet
      BY <1>2, <1>3
    <2>2. fresh = tun[l] + 1
      BY <1>3 DEF fresh, Last
    <2> HIDE DEF l
    <2>3. tun[l] \in Int
      BY <1>1, <2>1
    <2>4. ASSUME NEW n \in Bunches, NEW p \in Packet, Has(n, p) PROVE p < fresh
      <3>1. p < tun[l] /\ p \in Int
        BY <1>1, <2>1, <2>4 DEF Chain
      <3> QED BY <2>2, <2>3, <3>1
    <2>5. ASSUME NEW i \in 1..Len(tun) PROVE tun[i] < fresh
      <3>1. tun[i] \in Int /\ i \in Int /\ (i < l \/ i = l)
        BY <1>1, <1>2, <2>1 DEF l
      <3>2. tun[i] <= tun[l]
        BY <2>1, <2>3, <3>1 DEF Chain
      <3> QED BY <2>2, <2>3, <3>1, <3>2
    <2> QED BY <2>4, <2>5
  <1>4. CASE tun = <<>>
    <2> DEFINE I == {0} \cup UNION {ToSet(sent[n].packets) : n \in DOMAIN sent}
               b == setting.packets
    <2>1. DOMAIN sent = Bunches
      BY <1>2 DEF Bunches
    <2>2. \A n \in Bunches : ToSet(sent[n].packets) \subseteq Packet
      <3> TAKE n \in Bunches
      <3>1. sent[n] \in Bunch
        BY <1>2 DEF Bunches
      <3>2. sent[n].packets \in Seq(Packet)
        BY <3>1 DEF Bunch
      <3> QED BY <3>2, InSeq
    <2>3. fresh = 1 + Max(I)
      BY <1>4 DEF fresh
    <2>4. ASSUME NEW y \in I PROVE y \in Nat /\ y <= b
      BY <1>1, <2>1, <2>2
    <2>5. I # {}
      OBVIOUS
    <2>6. ASSUME NEW n \in Bunches, NEW p \in Packet, Has(n, p) PROVE p \in I
      <3>1. sent[n] \in Bunch
        BY <1>2 DEF Bunches
      <3>2. sent[n].packets \in Seq(Packet)
        BY <3>1 DEF Bunch
      <3>3. p \in ToSet(sent[n].packets)
        BY <2>6, <3>2 DEF Has, ToSet
      <3> QED BY <2>1, <3>3
    <2> HIDE DEF I
    <2>7. I \in SUBSET Nat /\ b \in Nat /\ \A y \in I : y <= b
      BY <1>1, <2>4
    <2>8. Max(I) \in I /\ \A y \in I : Max(I) >= y
      BY <2>5, <2>7, MaxIs
    <2> DEFINE m == Max(I)
    <2>9. m \in Nat /\ \A y \in I : m >= y
      BY <2>7, <2>8
    <2> HIDE DEF m
    <2>10. fresh = 1 + m
      BY <2>3 DEF m
    <2>11. ASSUME NEW n \in Bunches, NEW p \in Packet, Has(n, p) PROVE p < fresh
      <3>1. p \in I /\ p \in Int /\ m >= p
        BY <1>1, <2>6, <2>9, <2>11
      <3> QED BY <2>9, <2>10, <3>1
    <2> QED BY <1>4, <2>11
  <1> QED BY <1>3, <1>4

LEMMA ChainTun ==
    ASSUME Shapes, Chain, TunArrives PROVE Chain'
  <1>1. /\ fresh \in Packet /\ tun' = Append(tun, fresh)
        /\ UNCHANGED <<setting, sent, buffer, need_retransmit, air>>
    BY DEF TunArrives, bufferVars, netVars
  <1>2. /\ \A n \in Bunches, p \in Packet : Has(n, p) => p < fresh
        /\ \A i \in 1..Len(tun) : tun[i] < fresh
    BY <1>1, FreshIs
  <1>3. tun \in Seq(Packet)
    BY DEF Shapes
  <1>4. /\ Len(tun') = Len(tun) + 1 /\ tun'[Len(tun) + 1] = fresh /\ Len(tun) \in Nat
        /\ \A i \in 1..Len(tun) : tun'[i] = tun[i]
    BY <1>1, <1>3
  <1>5. Bunches' = Bunches /\ Packet' = Packet
    BY <1>1 DEF Bunches, Packet
  <1>6. /\ \A n \in Bunches, p \in Packet : Has(n, p)' <=> Has(n, p)
        /\ \A p \in Packet : InNeed(p)' <=> InNeed(p)
        /\ \A n \in Bunches : Spent(n)' <=> Spent(n)
    BY <1>1 DEF Has, InNeed, Spent, Off, InBuffer
  <1>7. \A i \in 1..Len(tun') : i \in 1..Len(tun) \/ i = Len(tun) + 1
    BY <1>4
  <1>8. \A n \in Bunches, p \in Packet, i \in 1..Len(tun') : Has(n, p) => p < tun'[i]
    BY <1>2, <1>4, <1>7 DEF Chain
  <1>9. \A i, k \in 1..Len(tun') : i < k => tun'[i] < tun'[k]
    <2> SUFFICES ASSUME NEW i \in 1..Len(tun'), NEW k \in 1..Len(tun'), i < k
                 PROVE  tun'[i] < tun'[k]
      OBVIOUS
    <2>1. i \in 1..Len(tun)
      BY <1>4
    <2>2. CASE k = Len(tun) + 1
      BY <1>2, <1>4, <2>1, <2>2
    <2>3. CASE k \in 1..Len(tun)
      BY <1>4, <2>1, <2>3 DEF Chain
    <2> QED BY <1>7, <2>2, <2>3
  <1>10. /\ Distinct(need_retransmit') /\ \A n \in Bunches : Distinct(sent'[n].packets)
    BY <1>1 DEF Chain
  <1> QED BY <1>5, <1>6, <1>8, <1>9, <1>10 DEF Chain

\* What is in the bunch that hitTimeslot sends, and what is left.
LEMMA BunchIs ==
    ASSUME Shapes, Numbers, HitTimeslot, NEW N, N = Len(sent) + 1
    PROVE  /\ N \in Nat /\ Bunches' = Bunches \cup {N} /\ Packet' = Packet /\ N \notin Bunches
           /\ \A m \in Bunches, p \in Packet : m < N /\ (Has(m, p)' <=> Has(m, p))
           /\ \A m \in Bunches' : Off(m)' <=> Off(m)
           /\ ~Off(N)
           /\ \A m \in Bunches' : InBuffer(m)' => InBuffer(m) \/ m = N
           /\ \A m \in Bunches : InBuffer(m)' <=> InBuffer(m)
  <1>1. PICK P \in Seq(Packet), a \in 0..Len(need_retransmit), c \in 0..Len(tun) :
            Scheduled(P, a, c)
    BY ScheduledIs
  <1>2. /\ setting' = setting
        /\ Len(air) \in Nat /\ Len(air') = Len(air) + 1
        /\ Len(buffer) \in Nat /\ Len(buffer') = Len(buffer) + 1
        /\ buffer'[Len(buffer) + 1].n = Len(sent) + 1
        /\ \A i \in 1..Len(buffer) : buffer'[i] = buffer[i]
    BY TimeslotIs
  <1>3. a \in Nat /\ c \in Nat
    BY DEF Shapes
  <1>4. /\ Len(sent') = Len(sent) + 1 /\ Len(sent) \in Nat
        /\ \A n \in Bunches : sent'[n] = sent[n]
        /\ Bunches' = Bunches \cup {Len(sent) + 1} /\ Packet' = Packet
    BY <1>1, <1>2, <1>3, SentGrows
  <1>5. N \in Nat /\ N \notin Bunches /\ \A m \in Bunches : m < N
    BY <1>4 DEF Bunches
  <1>6. \A m \in Bunches, p \in Packet : Has(m, p)' <=> Has(m, p)
    BY <1>4 DEF Has
  <1>7. \A m \in Bunches' : Off(m)' <=> Off(m)
    BY <1>2, <1>4 DEF Off, Bunches
  <1>8. ~Off(N)
    BY <1>2, <1>4 DEF Off
  <1>9. \A i \in 1..Len(buffer') : i \in 1..Len(buffer) \/ i = Len(buffer) + 1
    BY <1>2
  <1>10. \A m : InBuffer(m)' => InBuffer(m) \/ m = N
    BY <1>2, <1>9 DEF InBuffer
  <1>11. \A m : InBuffer(m) => InBuffer(m)'
    <2>1. 1..Len(buffer) \subseteq 1..Len(buffer')
      BY <1>2
    <2> QED BY <1>2, <2>1 DEF InBuffer
  <1> QED BY <1>4, <1>5, <1>6, <1>7, <1>8, <1>10, <1>11

LEMMA ChainTimeslot ==
    ASSUME Shapes, Numbers, Chain, HitTimeslot
    PROVE  /\ Chain'
           /\ \A N : N = Len(sent) + 1 =>
                 \A p \in Packet : Has(N, p)' => InNeed(p) \/ (\A m \in Bunches : ~Has(m, p))
           /\ \A p \in Packet : InNeed(p)' => InNeed(p)
  <1>1. PICK P \in Seq(Packet), a \in 0..Len(need_retransmit), c \in 0..Len(tun) :
            Scheduled(P, a, c)
    BY ScheduledIs
  <1>2. PICK N : N = Len(sent) + 1
    OBVIOUS
  <1>3. /\ N \in Nat /\ Bunches' = Bunches \cup {N} /\ Packet' = Packet /\ N \notin Bunches
        /\ \A m \in Bunches, p \in Packet : m < N /\ (Has(m, p)' <=> Has(m, p))
        /\ \A m \in Bunches' : Off(m)' <=> Off(m)
        /\ \A m \in Bunches' : InBuffer(m)' => InBuffer(m) \/ m = N
    BY <1>2, BunchIs
  <1>4. setting' = setting
    BY TimeslotIs
  <1>5. a \in Nat /\ c \in Nat /\ need_retransmit \in Seq(Packet) /\ tun \in Seq(Packet)
    BY DEF Shapes
  <1>6. /\ sent'[N].packets = P
        /\ \A n \in Bunches : sent'[n] = sent[n]
    <2>1. /\ sent'[Len(sent) + 1] = [seq |-> arb_seq, packets |-> P]
          /\ \A n \in Bunches : sent'[n] = sent[n]
      BY <1>1, <1>4, <1>5, SentGrows
    <2>2. sent'[N] = [seq |-> arb_seq, packets |-> P]
      BY <1>2, <2>1
    <2> QED BY <2>1, <2>2
  <1> DEFINE need == need_retransmit
  <1>7. /\ Len(P) = a + c /\ (c > 0 => a = Len(need))
        /\ \A i \in 1..a : P[i] = need[i]
        /\ \A i \in 1..c : P[a + i] = tun[i]
        /\ need' = SubSeq(need, a + 1, Len(need)) /\ tun' = SubSeq(tun, c + 1, Len(tun))
    BY <1>1 DEF Scheduled
  <1>8. /\ Len(need) \in Nat /\ Len(need') = Len(need) - a
        /\ \A i \in 1..Len(need') : need'[i] = need[i + a] /\ i + a \in 1..Len(need)
    BY <1>5, <1>7, RestIs, SMTT(60)
  <1>9. /\ Len(tun) \in Nat /\ Len(tun') = Len(tun) - c
        /\ \A i \in 1..Len(tun') : tun'[i] = tun[i + c] /\ i + c \in 1..Len(tun)
    BY <1>5, <1>7, RestIs, SMTT(60)
  <1>10. ASSUME NEW i \in 1..Len(P)
         PROVE  \/ i \in 1..a /\ i \in 1..Len(need) /\ P[i] = need[i]
                \/ i - a \in 1..c /\ i - a \in 1..Len(tun) /\ P[i] = tun[i - a] /\ ~(i \in 1..a)
    <2>1. CASE i \in 1..a
      <3>1. P[i] = need[i]
        BY <1>7, <2>1
      <3>2. a <= Len(need)
        BY <1>8
      <3> QED BY <1>5, <1>8, <2>1, <3>1, <3>2
    <2>2. CASE i \notin 1..a
      <3> DEFINE k == i - a
      <3>1. k \in 1..c /\ k \in 1..Len(tun) /\ i = a + k
        BY <1>5, <1>7, <1>9, <2>2
      <3> HIDE DEF k
      <3>2. P[i] = tun[k]
        BY <1>7, <3>1
      <3> QED BY <2>2, <3>1, <3>2 DEF k
    <2> QED BY <2>1, <2>2
  <1>11. \A p \in Packet : InNeed(p)' => InNeed(p)
    BY <1>8 DEF InNeed
  <1>12. \A i \in 1..Len(tun), p \in Packet : InNeed(p) => p < tun[i]
    BY DEF Chain
  <1>13. \A i \in 1..Len(need) : need[i] \in Packet /\ InNeed(need[i])
    <2> TAKE i \in 1..Len(need)
    <2>1. need[i] \in Packet
      BY <1>5
    <2>2. \E k \in 1..Len(need_retransmit) : need_retransmit[k] = need[i]
      OBVIOUS
    <2> QED BY <2>1, <2>2 DEF InNeed
  <1>14. \A i \in 1..Len(tun) : tun[i] \in Packet /\ tun[i] \in Int
    <2>1. Packet \subseteq Int
      BY DEF Packet
    <2>2. \A i \in 1..Len(tun) : tun[i] \in Packet
      <3>1. tun \in Seq(Packet)
        BY <1>5
      <3> HIDE DEF need
      <3> QED BY <3>1
    <2> QED BY <2>1, <2>2
  <1>15. \A i \in 1..Len(need), k \in 1..Len(tun) : need[i] # tun[k]
    BY <1>12, <1>13, <1>14
  <1>16. Distinct(P)
    <2> SUFFICES ASSUME NEW i \in 1..Len(P), NEW k \in 1..Len(P), i # k, P[i] = P[k] PROVE FALSE
      BY DEF Distinct
    <2> DEFINE ii == i - a
               kk == k - a
    <2>1. i \in Int /\ k \in Int
      OBVIOUS
    <2>2. CASE i \in 1..a /\ k \in 1..a
      BY <1>10, <2>2 DEF Chain, Distinct
    <2>3. CASE i \in 1..a /\ ~(k \in 1..a)
      BY <1>10, <1>15, <2>3
    <2>4. CASE ~(i \in 1..a) /\ k \in 1..a
      BY <1>10, <1>15, <2>4
    <2>5. CASE ~(i \in 1..a) /\ ~(k \in 1..a)
      <3>1. /\ ii \in 1..Len(tun) /\ kk \in 1..Len(tun) /\ tun[ii] = tun[kk]
            /\ (ii < kk \/ kk < ii)
        BY <1>5, <1>10, <2>1, <2>5
      <3> HIDE DEF ii, kk
      <3> QED BY <1>14, <3>1 DEF Chain
    <2> QED BY <2>2, <2>3, <2>4, <2>5
  <1>17. ASSUME NEW p \in Packet, Has(N, p)'
         PROVE  \/ InNeed(p) /\ ~InNeed(p)'
                \/ /\ \A m \in Bunches : ~Has(m, p)
                   /\ ~InNeed(p)
                   /\ \E i \in 1..c : i \in 1..Len(tun) /\ tun[i] = p
    <2>1. PICK i \in 1..Len(P) : P[i] = p
      BY <1>6, <1>17 DEF Has
    <2>2. CASE i \in 1..a
      <3>1. i \in 1..Len(need) /\ need[i] = p
        BY <1>10, <2>1, <2>2
      <3>2. ~InNeed(p)'
        <4> SUFFICES ASSUME NEW k \in 1..Len(need'), need'[k] = p PROVE FALSE
          BY DEF InNeed
        <4>1. k + a \in 1..Len(need) /\ need[k + a] = p
          BY <1>8
        <4>2. k + a # i
          BY <1>5, <1>8, <2>2
        <4> DEFINE x == k + a
        <4> HIDE DEF x
        <4>3. x \in 1..Len(need) /\ need[x] = p /\ x # i
          BY <4>1, <4>2 DEF x
        <4> QED BY <3>1, <4>3 DEF Chain, Distinct
      <3> QED BY <3>1, <3>2 DEF InNeed
    <2>3. CASE i \notin 1..a
      <3> DEFINE k == i - a
      <3>1. k \in 1..c /\ k \in 1..Len(tun) /\ tun[k] = p
        BY <1>10, <2>1, <2>3
      <3> HIDE DEF k
      <3>2. p \in Int /\ ~(p < p)
        BY <1>14, <3>1
      <3>3. \A m \in Bunches : ~Has(m, p)
        BY <3>1, <3>2 DEF Chain
      <3>4. ~InNeed(p)
        BY <1>12, <3>1, <3>2
      <3> QED BY <3>1, <3>3, <3>4
    <2> QED BY <2>2, <2>3
  <1>18. \A m \in Bunches : Spent(m) => Spent(m)'
    BY <1>3 DEF Spent
  <1>19. ASSUME NEW n \in Bunches', NEW m \in Bunches', NEW p \in Packet, n < m, Has(n, p)', Has(m, p)'
         PROVE  Spent(n)'
    <2>1. n \in Bunches
      <3>1. n = N => ~(m \in Bunches) /\ m # N
        BY <1>3, <1>19
      <3> QED BY <1>3, <3>1
    <2>2. Has(n, p)
      BY <1>3, <1>19, <2>1
    <2>3. CASE m \in Bunches
      <3>1. Has(m, p)
        BY <1>3, <1>19, <2>3
      <3> QED BY <1>18, <1>19, <2>1, <2>2, <2>3, <3>1 DEF Chain
    <2>4. CASE m = N
      <3>1. InNeed(p)
        BY <1>17, <1>19, <2>1, <2>2, <2>4
      <3> QED BY <1>18, <2>1, <2>2, <3>1 DEF Chain
    <2> QED BY <1>3, <2>3, <2>4
  <1>20. ASSUME NEW n \in Bunches', NEW p \in Packet, Has(n, p)', InNeed(p)' PROVE Spent(n)'
    <2>1. InNeed(p)
      BY <1>11, <1>20
    <2>2. n # N
      BY <1>17, <1>20, <2>1
    <2>3. n \in Bunches /\ Has(n, p)
      BY <1>3, <1>20, <2>2
    <2> QED BY <1>18, <2>1, <2>3 DEF Chain
  <1>21. \A n \in Bunches' : Distinct(sent'[n].packets)
    BY <1>3, <1>6, <1>16 DEF Chain
  <1>22. Distinct(need')
    <2> SUFFICES ASSUME NEW i \in 1..Len(need'), NEW k \in 1..Len(need'), i # k, need'[i] = need'[k]
                 PROVE  FALSE
      BY DEF Distinct
    <2> DEFINE x == i + a
               y == k + a
    <2>1. x \in 1..Len(need) /\ y \in 1..Len(need) /\ need[x] = need[y]
      BY <1>8
    <2>2. x # y
      BY <1>5, <1>8
    <2> HIDE DEF x, y
    <2> QED BY <2>1, <2>2 DEF Chain, Distinct
  <1>23. ASSUME NEW p \in Packet, InNeed(p)' PROVE \E n \in Bunches' : Has(n, p)'
    <2>1. PICK n \in Bunches : Has(n, p)
      BY <1>11, <1>23 DEF Chain
    <2> QED BY <1>3, <2>1
  <1>24. ASSUME NEW n \in Bunches', NEW p \in Packet, NEW i \in 1..Len(tun'), Has(n, p)'
         PROVE  p < tun'[i]
    <2> DEFINE x == i + c
    <2>1. x \in 1..Len(tun) /\ tun'[i] = tun[x] /\ \A k \in 1..c : k < x
      BY <1>5, <1>9
    <2> HIDE DEF x
    <2>2. CASE n \in Bunches
      <3>1. Has(n, p)
        BY <1>3, <1>24, <2>2
      <3> QED BY <2>1, <2>2, <3>1 DEF Chain
    <2>3. CASE n = N
      <3>1. CASE InNeed(p)
        BY <1>12, <2>1, <3>1
      <3>2. CASE \E k \in 1..c : k \in 1..Len(tun) /\ tun[k] = p
        BY <2>1, <3>2 DEF Chain
      <3> QED BY <1>17, <1>24, <2>3, <3>1, <3>2
    <2> QED BY <1>3, <2>2, <2>3
  <1>25. \A i, k \in 1..Len(tun') : i < k => tun'[i] < tun'[k]
    <2> SUFFICES ASSUME NEW i \in 1..Len(tun'), NEW k \in 1..Len(tun'), i < k
                 PROVE  tun'[i] < tun'[k]
      OBVIOUS
    <2> DEFINE x == i + c
               y == k + c
    <2>1. x \in 1..Len(tun) /\ tun'[i] = tun[x]
      BY <1>9
    <2>2. y \in 1..Len(tun) /\ tun'[k] = tun[y]
      BY <1>9
    <2>3. x < y
      <3>1. i \in Int /\ k \in Int
        BY <1>5, <1>9
      <3> QED BY <1>5, <3>1
    <2> HIDE DEF x, y
    <2> QED BY <2>1, <2>2, <2>3 DEF Chain
  <1>26. Chain'
    BY <1>3, <1>19, <1>20, <1>21, <1>22, <1>23, <1>24, <1>25 DEF Chain
  <1>27. \A p \in Packet : Has(N, p)' => InNeed(p) \/ (\A m \in Bunches : ~Has(m, p))
    BY <1>17
  <1>28. \A M : M = Len(sent) + 1 =>
                 \A p \in Packet : Has(M, p)' => InNeed(p) \/ (\A m \in Bunches : ~Has(m, p))
    BY <1>2, <1>27
  <1> QED BY <1>11, <1>26, <1>28

\* A bunch leaves the air, entries leave the buffer: nothing else matters.
LEMMA ChainStep ==
    ASSUME Shapes, Numbers, Chain, Requests, NoReuse, [Next]_vars PROVE Chain'
  <1>1. CASE TunArrives
    BY <1>1, ChainTun
  <1>2. CASE HitTimeslot
    BY <1>2, ChainTimeslot
  <1>3. CASE RequestArrives
    BY <1>3, ChainRequest
  <1>4. CASE HashesArrive
    <2>1. UNCHANGED <<sent, setting, tun, need_retransmit, air, buffer>>
      BY <1>4 DEF HashesArrive, arbVars
    <2>2. \A n \in Bunches : (Off(n) => Off(n)') /\ (InBuffer(n)' => InBuffer(n))
      BY <2>1 DEF Off, InBuffer
    <2> QED BY <2>1, <2>2, ChainKept
  <1>5. ASSUME air # <<>>, air' = Tail(air),
               UNCHANGED <<sent, setting, tun, need_retransmit, buffer>>
        PROVE  Chain'
    <2>0. PICK n : n = Head(air).n
      OBVIOUS
    <2>1. \A m \in Int : Off(m)' <=> (Off(m) \/ m = n)
      BY <1>5, <2>0, AirMoves
    <2>2. \A m \in Bunches : (Off(m) => Off(m)') /\ (InBuffer(m)' => InBuffer(m))
      BY <1>5, <2>1 DEF InBuffer, Bunches
    <2> QED BY <1>5, <2>2, ChainKept
  <1>6. CASE DemodGotEmpty
    BY <1>5, <1>6 DEF DemodGotEmpty, Arrived, GotHeader, arbVars
  <1>7. ASSUME NEW bad \in SUBSET (1..MaxWords), NEW cut \in 0..MaxWords, DemodGotPacket(bad, cut)
        PROVE  Chain'
    <2>1. air # <<>> /\ GotHeader(Head(air).n, FoundMissing(bad, cut))
      BY <1>7, PacketStep
    <2> QED BY <1>5, <2>1 DEF GotHeader, arbVars
  <1>8. CASE AirLoses
    BY <1>5, <1>8 DEF AirLoses, arbVars
  <1>9. CASE ZmqLoses
    <2>1. UNCHANGED <<sent, setting, tun, need_retransmit, air, buffer>>
      BY <1>9 DEF ZmqLoses, arbVars
    <2>2. \A n \in Bunches : (Off(n) => Off(n)') /\ (InBuffer(n)' => InBuffer(n))
      BY <2>1 DEF Off, InBuffer
    <2> QED BY <2>1, <2>2, ChainKept
  <1>10. CASE Second
    <2>1. UNCHANGED <<sent, setting, tun, need_retransmit>>
      BY <1>10 DEF Second
    <2>2. \A n \in Bunches : (Off(n) => Off(n)') /\ (InBuffer(n)' => InBuffer(n))
      BY <1>10, <2>1, OlderNumbers DEF Off, InBuffer
    <2> QED BY <2>1, <2>2, ChainKept
  <1>11. CASE UNCHANGED vars
    <2>2. \A n \in Bunches : (Off(n) => Off(n)') /\ (InBuffer(n)' => InBuffer(n))
      BY <1>11, Unchanged DEF Off, InBuffer
    <2> QED BY <1>11, <2>2, Unchanged, ChainKept
  <1> QED BY <1>1, <1>2, <1>3, <1>4, <1>6, <1>7, <1>8, <1>9, <1>10, <1>11, NextIs

-----------------------------------------------------------------------------
(* No packet is delivered twice.                                          *)

\* Every step but one leaves it.
LEMMA WrittenKept ==
    ASSUME UNCHANGED <<setting, delivered, beyond>> PROVE written' = written
  BY DEF written, Packet

LEMMA UndeliveredInit ==
    ASSUME Init PROVE Undelivered
  <1>1. delivered = [p \in Packet |-> 0] /\ need_retransmit = <<>> /\ sent = <<>>
    BY DEF Init, BufferInit
  <1>2. \A p \in Packet : written[p] = 0
    BY <1>1 DEF written
  <1> QED BY <1>2 DEF Undelivered

LEMMA UndeliveredKept ==
    ASSUME Undelivered, sent' = sent, setting' = setting, written' = written,
           need_retransmit' = need_retransmit, lost' = lost,
           \A n \in Bunches : (Off(n) => Off(n)') /\ (InBuffer(n)' => InBuffer(n))
    PROVE  Undelivered'
  <1>1. Bunches' = Bunches /\ Packet' = Packet
    BY DEF Bunches, Packet
  <1>2. \A n \in Bunches, p \in Packet : Has(n, p)' <=> Has(n, p)
    BY DEF Has
  <1>3. \A p \in Packet : InNeed(p)' <=> InNeed(p)
    BY DEF InNeed
  <1> QED BY <1>1, <1>2, <1>3 DEF Undelivered

LEMMA UndeliveredTimeslot ==
    ASSUME Shapes, Numbers, Chain, Undelivered, HitTimeslot PROVE Undelivered'
  <1>1. PICK N : N = Len(sent) + 1
    OBVIOUS
  <1>2. /\ N \in Nat /\ Bunches' = Bunches \cup {N} /\ Packet' = Packet /\ N \notin Bunches
        /\ \A m \in Bunches, p \in Packet : m < N /\ (Has(m, p)' <=> Has(m, p))
        /\ \A m \in Bunches' : Off(m)' <=> Off(m)
        /\ \A m \in Bunches' : InBuffer(m)' => InBuffer(m) \/ m = N
    BY <1>1, BunchIs
  <1>3. /\ \A p \in Packet : Has(N, p)' => InNeed(p) \/ (\A m \in Bunches : ~Has(m, p))
        /\ \A p \in Packet : InNeed(p)' => InNeed(p)
    BY <1>1, ChainTimeslot
  <1>4. written' = written /\ lost' = lost /\ lost \in SUBSET Bunches
    BY TimeslotIs, WrittenKept DEF Shapes
  <1>5. \A p \in Packet : Has(N, p)' => written[p] = 0
    BY <1>3 DEF Undelivered
  <1>6. \A n \in Bunches', p \in Packet : Has(n, p)' /\ ~Off(n)' => written[p] = 0
    BY <1>2, <1>5 DEF Undelivered
  <1>7. \A n \in Bunches', p \in Packet :
           Has(n, p)' /\ n \in lost /\ InBuffer(n)' => written[p] = 0
    BY <1>2, <1>4, <1>5 DEF Undelivered
  <1>8. \A p \in Packet : (\A n \in Bunches' : ~Has(n, p)') => written[p] = 0
    BY <1>2 DEF Undelivered
  <1> QED BY <1>2, <1>3, <1>4, <1>6, <1>7, <1>8 DEF Undelivered

LEMMA UndeliveredRequest ==
    ASSUME Shapes, Numbers, Chain, Undelivered, Requests, NoReuse, RequestArrives
    PROVE  Undelivered'
  <1>0. PICK r : r = Head(requestNet)
    OBVIOUS
  <1>01. PICK j : j = AskedFor(r.seq, r.indices)
    OBVIOUS
  <1>1. requestNet # <<>> /\ UNCHANGED <<setting, sent, air, written, lost>>
    BY WrittenKept DEF RequestArrives, demodVars, history
  <1>2. Increasing(buffer)
    BY DEF Numbers
  <1>3. /\ \A n : InBuffer(n)' => InBuffer(n)
        /\ \/ need_retransmit' = need_retransmit
           \/ \E n \in Bunches :
                 /\ j # 0 /\ n = buffer[j].n /\ ~InBuffer(n)'
                 /\ need_retransmit' = need_retransmit \o PacketsOf(n, r.indices)
    BY <1>0, <1>01, <1>2, RequestStep
  <1>4. \A n \in Bunches : (Off(n) <=> Off(n)') /\ (InBuffer(n)' => InBuffer(n))
    BY <1>1, <1>3 DEF Off
  <1>5. CASE need_retransmit' = need_retransmit
    BY <1>1, <1>4, <1>5, UndeliveredKept
  <1>6. ASSUME NEW n \in Bunches, j # 0, n = buffer[j].n, ~InBuffer(n)',
               need_retransmit' = need_retransmit \o PacketsOf(n, r.indices)
        PROVE  Undelivered'
    <2>0. requestNet \in Seq(Request)
      BY DEF Shapes
    <2>1. r = requestNet[1] /\ 1 \in 1..Len(requestNet)
      BY <1>0, <1>1, <2>0, TailIs
    <2>2. n = r.of /\ Off(n) /\ InBuffer(n)
      BY <1>01, <1>6, <2>1, FoundIsOf
    <2>3. \A k \in 1..Len(sent[n].packets) :
              (r.indices = AllMissing \/ k \in r.indices) => written[sent[n].packets[k]] = 0
      BY <2>1, <2>2 DEF Requests, Sound, Asks
    <2>4. PICK Q : Q = PacketsOf(n, r.indices)
      OBVIOUS
    <2>5. sent[n].packets \in Seq(Packet) /\ Distinct(sent[n].packets)
      <3>1. sent[n] \in Bunch
        BY BunchAt
      <3> QED BY <3>1 DEF Bunch, Chain
    <2>6. /\ Q \in Seq(Packet)
          /\ \A k \in 1..Len(Q) : \E i \in 1..Len(sent[n].packets) :
                 sent[n].packets[i] = Q[k] /\ (r.indices = AllMissing \/ i \in r.indices)
      BY <2>4, <2>5, AskedPackets
    <2>7. \A k \in 1..Len(Q) : written[Q[k]] = 0
      BY <2>3, <2>6
    <2>8. need_retransmit \in Seq(Packet) /\ need_retransmit' = need_retransmit \o Q
      BY <1>6, <2>4 DEF Shapes
    <2>9. ASSUME NEW p \in Packet, InNeed(p)' PROVE written[p] = 0
      <3>1. PICK x \in 1..Len(need_retransmit') : need_retransmit'[x] = p
        BY <2>9 DEF InNeed
      <3>2. \/ \E k \in 1..Len(need_retransmit) : need_retransmit'[x] = need_retransmit[k]
            \/ \E k \in 1..Len(Q) : need_retransmit'[x] = Q[k]
        <4> DEFINE u == need_retransmit
        <4>1. u \in Seq(Packet) /\ Q \in Seq(Packet) /\ need_retransmit' = u \o Q
          BY <2>6, <2>8
        <4> HIDE DEF u
        <4>2. x \in 1..Len(u \o Q)
          BY <3>1, <4>1
        <4> QED BY <4>1, <4>2, ConcatMembers DEF u
      <3> QED BY <2>7, <3>1, <3>2 DEF Undelivered, InNeed
    <2>12. Bunches' = Bunches /\ Packet' = Packet
      BY <1>1 DEF Bunches, Packet
    <2>13. \A m \in Bunches, p \in Packet : Has(m, p)' <=> Has(m, p)
      BY <1>1 DEF Has
    <2> QED BY <1>1, <1>4, <2>9, <2>12, <2>13 DEF Undelivered
  <1> QED BY <1>3, <1>5, <1>6

LEMMA UndeliveredLoses ==
    ASSUME Shapes, Numbers, Undelivered, AirLoses PROVE Undelivered'
  <1>0. PICK n : n = Head(air).n
    OBVIOUS
  <1>1. /\ air # <<>> /\ air' = Tail(air) /\ lost' = lost \cup {n}
        /\ UNCHANGED <<setting, sent, buffer, need_retransmit, written>>
    BY <1>0, WrittenKept DEF AirLoses, arbVars, demodVars
  <1>2. n \in Bunches /\ ~Off(n) /\ \A m \in Int : Off(m)' <=> (Off(m) \/ m = n)
    BY <1>0, <1>1, AirMoves
  <1>3. Bunches' = Bunches /\ Packet' = Packet /\ Bunches \subseteq Int
    BY <1>1 DEF Bunches, Packet
  <1>4. /\ \A m \in Bunches, p \in Packet : Has(m, p)' <=> Has(m, p)
        /\ \A p \in Packet : InNeed(p)' <=> InNeed(p)
        /\ \A m \in Bunches : InBuffer(m)' <=> InBuffer(m)
    BY <1>1 DEF Has, InNeed, InBuffer
  <1> QED BY <1>1, <1>2, <1>3, <1>4 DEF Undelivered

\* What one decoded bunch adds.
Delivers(n, p, bad, cut) ==
    \/ written'[p] = 0 \/ written'[p] = written[p]
    \/ /\ written'[p] = 1 /\ written[p] = 0 /\ Has(n, p)
       /\ \E k \in 1..Len(sent[n].packets) :
              sent[n].packets[k] = p /\ Decoded(sent[n].packets, bad, cut)[k] = p

LEMMA DeliveredIs ==
    ASSUME Shapes, Chain, Undelivered, Numbers, NEW bad \in SUBSET (1..MaxWords),
           NEW cut \in 0..MaxWords, DemodGotPacket(bad, cut), NEW n, n = Head(air).n,
           NEW p \in Packet
    PROVE  Delivers(n, p, bad, cut)
  <1> DEFINE H == Found(bad, cut)
             X == {i \in 1..Len(H) : H[i] = p}
             packets == sent[n].packets
             D == Decoded(packets, bad, cut)
  <1>1. /\ air # <<>> /\ n \in Bunches
        /\ cut \in 0..Len(packets) /\ packets \in Seq(Packet)
        /\ delivered' = [q \in Packet |->
                 delivered[q] + Cardinality({i \in 1..Len(H) : H[i] = q})]
        /\ beyond' = beyond \cup Beyond(packets, bad, cut)
        /\ GotHeader(n, FoundMissing(bad, cut))
    BY PacketStep DEF Behind
  <1>2. H = D
    BY DEF Found
  <1>3. Distinct(packets) /\ setting \in Settings /\ delivered \in [Packet -> Nat]
    BY <1>1 DEF Chain, Shapes
  <1>4. ~Off(n) /\ Packet' = Packet
    <2>1. air' = Tail(air) /\ sent' = sent /\ setting' = setting
      BY <1>1 DEF GotHeader, arbVars
    <2> QED BY <1>1, <2>1, AirMoves DEF Packet
  <1>5. delivered'[p] = delivered[p] + Cardinality(X) /\ delivered[p] \in Nat
    BY <1>1, <1>3
  <1>6. /\ written[p] = (IF p \in beyond THEN 0 ELSE delivered[p])
        /\ written'[p] = (IF p \in beyond' THEN 0 ELSE delivered'[p])
    BY <1>4 DEF written
  <1>7. CASE p \in beyond'
    BY <1>6, <1>7 DEF Delivers
  <1>8. CASE p \notin beyond' /\ X = {}
    <2>1. Cardinality(X) = 0
      BY <1>8, FS_EmptySet
    <2>2. p \notin beyond
      BY <1>1, <1>8
    <2> HIDE DEF X
    <2> QED BY <1>5, <1>6, <1>8, <2>1, <2>2 DEF Delivers
  <1>9. CASE p \notin beyond' /\ X # {}
    <2>1. PICK k \in X : TRUE
      BY <1>9
    <2>2. k \in 1..Len(D) /\ D[k] = p
      BY <1>2, <2>1
    <2>3. p \notin Beyond(packets, bad, cut) /\ p \notin beyond
      BY <1>1, <1>9
    <2>4. \A l \in 1..Len(D) : D[l] = p => l = k
      <3> HIDE DEF packets
      <3>1. \A i, l \in 1..Len(D), q \in Packet : D[i] = q /\ D[l] = q => i = l
        BY <1>1, <1>3, DecodedOnce
      <3> HIDE DEF D
      <3> QED BY <2>2, <3>1
    <2>5. k \in 1..Len(packets) /\ packets[k] = p
      <3> HIDE DEF packets
      <3> QED BY <1>1, <1>3, <2>2, <2>3, InPlace
    <2> HIDE DEF D, H
    <2>6. X = {k}
      BY <1>2, <2>1, <2>4
    <2>7. Cardinality(X) = 1
      BY <2>6, FS_Singleton
    <2>8. Has(n, p)
      BY <2>5 DEF Has
    <2>9. written[p] = 0
      BY <1>1, <1>4, <2>8 DEF Undelivered
    <2>10. written'[p] = 1
      <3> HIDE DEF X
      <3> QED BY <1>5, <1>6, <1>9, <2>3, <2>7, <2>9
    <2> QED BY <2>2, <2>5, <2>8, <2>9, <2>10 DEF Delivers, D
  <1> QED BY <1>7, <1>8, <1>9

LEMMA UndeliveredPacket ==
    ASSUME Shapes, Numbers, Chain, Undelivered, NEW bad \in SUBSET (1..MaxWords),
           NEW cut \in 0..MaxWords, DemodGotPacket(bad, cut)
    PROVE  Undelivered'
  <1>0. PICK n : n = Head(air).n
    OBVIOUS
  <1>1. air # <<>> /\ GotHeader(n, FoundMissing(bad, cut))
    BY <1>0, PacketStep
  <1>2. air' = Tail(air) /\ UNCHANGED <<setting, sent, buffer, need_retransmit, lost>>
    BY <1>1 DEF GotHeader, arbVars
  <1>3. n \in Bunches /\ ~Off(n) /\ \A m \in Int : Off(m)' <=> (Off(m) \/ m = n)
    BY <1>0, <1>1, <1>2, AirMoves
  <1>4. Bunches' = Bunches /\ Packet' = Packet /\ Bunches \subseteq Int
    BY <1>2 DEF Bunches, Packet
  <1>5. /\ \A m \in Bunches, p \in Packet : Has(m, p)' <=> Has(m, p)
        /\ \A p \in Packet : InNeed(p)' <=> InNeed(p)
        /\ \A m \in Bunches : InBuffer(m)' <=> InBuffer(m)
    BY <1>2 DEF Has, InNeed, InBuffer
  <1>6. \A p \in Packet : \/ written'[p] = 0 \/ written'[p] = written[p]
                          \/ written'[p] = 1 /\ written[p] = 0 /\ Has(n, p)
    <2> TAKE p \in Packet
    <2>1. Delivers(n, p, bad, cut)
      BY <1>0, DeliveredIs, Zenon
    <2> QED BY <2>1 DEF Delivers
  <1>7. \A p \in Packet : InNeed(p) => ~Has(n, p)
    BY <1>3 DEF Chain, Spent
  <1>8. \A m \in Bunches, p \in Packet : Has(m, p) /\ ~Off(m) /\ m # n => ~Has(n, p)
    <2> SUFFICES ASSUME NEW m \in Bunches, NEW p \in Packet, Has(m, p), ~Off(m), m # n, Has(n, p)
                 PROVE  FALSE
      OBVIOUS
    <2>1. m < n \/ n < m
      BY <1>3, <1>4
    <2> QED BY <1>3, <2>1 DEF Chain, Spent
  <1>9. \A m \in Bunches, p \in Packet : Has(m, p) /\ m \in lost /\ InBuffer(m) => ~Has(n, p)
    <2> SUFFICES ASSUME NEW m \in Bunches, NEW p \in Packet, Has(m, p), m \in lost, InBuffer(m),
                        Has(n, p)
                 PROVE  FALSE
      OBVIOUS
    <2>1. Off(m) /\ m # n
      BY <1>3 DEF Numbers
    <2>2. m < n \/ n < m
      BY <1>3, <1>4, <2>1
    <2> QED BY <1>3, <2>2 DEF Chain, Spent
  <1>10. \A p \in Packet : written'[p] <= 1
    BY <1>6 DEF Undelivered
  <1>11. \A p \in Packet : InNeed(p)' => written'[p] = 0
    BY <1>5, <1>6, <1>7 DEF Undelivered
  <1>12. \A p \in Packet : (\A m \in Bunches : ~Has(m, p)) => written'[p] = 0
    BY <1>3, <1>6 DEF Undelivered
  <1>13. \A m \in Bunches, p \in Packet : Has(m, p)' /\ ~Off(m)' => written'[p] = 0
    BY <1>3, <1>4, <1>5, <1>6, <1>8 DEF Undelivered
  <1>14. \A m \in Bunches, p \in Packet :
           Has(m, p)' /\ m \in lost' /\ InBuffer(m)' => written'[p] = 0
    BY <1>2, <1>5, <1>6, <1>9 DEF Undelivered
  <1> QED BY <1>4, <1>5, <1>10, <1>11, <1>12, <1>13, <1>14 DEF Undelivered

-----------------------------------------------------------------------------
(* Requests.                                                               *)

\* Lists that match have the same number, or a hash in common at an index.
Meets(a, b) ==
    \/ a.seq = b.seq
    \/ \E i \in 1..Len(a.hashes) : i \in 1..Len(b.hashes) /\ a.hashes[i] = b.hashes[i]

LEMMA MatchIs ==
    ASSUME NEW S, NEW a, NEW b, a.hashes \in Seq(S), b.hashes \in Seq(S), Compare(a, b)
    PROVE  Meets(a, b)
  <1> SUFFICES \/ a.seq = b.seq
               \/ \E i \in 1..Len(a.hashes) : i \in 1..Len(b.hashes) /\ a.hashes[i] = b.hashes[i]
    BY DEF Meets
  <1> DEFINE la == Len(a.hashes)
             lb == Len(b.hashes)
             s == Shorter(a, b)
             X == InvalidIdx(a, b)
             d == IF a.seq = b.seq THEN 0 ELSE 1
             c == Cardinality(X)
  <1>1. la \in Nat /\ lb \in Nat /\ la \in Int /\ lb \in Int
    OBVIOUS
  <1>2. s = IF la <= lb THEN la ELSE lb
    <2>1. s = Min({la, lb})
      BY DEF Shorter
    <2> HIDE DEF la, lb, s
    <2> QED BY <1>1, <2>1, MinOfTwo
  <1>3. X = {i \in 1..s : a.hashes[i] # b.hashes[i]}
    BY DEF InvalidIdx
  <1>4. LesserSize(a, b) = 1 + s /\ Same(a, b) = (1 + s) - c - d
    BY DEF LesserSize, Same
  <1>5. \/ 1 + s < 5 /\ Same(a, b) = 1 + s
        \/ ~(1 + s < 5) /\ 10 * Same(a, b) > 7 * (1 + s)
    BY <1>4 DEF Compare
  <1> HIDE DEF s, la, lb, X
  <1>6. s \in Nat /\ s <= la /\ s <= lb
    BY <1>1, <1>2
  <1>7. IsFiniteSet(1..s) /\ Cardinality(1..s) = s
    <2>1. 1 \in Int /\ s \in Int
      BY <1>6
    <2>2. IsFiniteSet(1..s) /\ Cardinality(1..s) = IF 1 > s THEN 0 ELSE s - 1 + 1
      BY <2>1, FS_Interval
    <2> QED BY <1>6, <2>2
  <1>8. IsFiniteSet(X)
    <2>1. X \in SUBSET (1..s)
      BY <1>3
    <2> QED BY <1>7, <2>1, FS_Subset
  <1>9. c \in Nat
    BY <1>8, FS_CardinalityType
  <1>10. CASE a.seq = b.seq
    BY <1>10
  <1>11. CASE a.seq # b.seq
    <2>1. d = 1
      BY <1>11
    <2> HIDE DEF c, d
    <2>2. ~(1 + s < 5) /\ 10 * (s - c) > 7 * (1 + s)
      BY <1>4, <1>5, <1>6, <1>9, <2>1
    <2>3. X # 1..s
      <3>1. X = 1..s => c = s
        BY <1>7 DEF c
      <3> QED BY <1>6, <2>2, <3>1
    <2>4. PICK i \in 1..s : a.hashes[i] = b.hashes[i]
      BY <1>3, <2>3
    <2>5. i \in 1..la /\ i \in 1..lb
      BY <1>1, <1>6
    <2> QED BY <2>4, <2>5 DEF la, lb
  <1> QED BY <1>10, <1>11

LEMMA SoundKept ==
    ASSUME NEW r, Sound(r), sent' = sent, written' = written, Bunches' = Bunches,
           \A n \in Bunches : (Off(n) => Off(n)') /\ (InBuffer(n)' => InBuffer(n))
    PROVE  Sound(r)'
  BY DEF Sound, Asks

LEMMA RequestsKept ==
    ASSUME Requests, sent' = sent, written' = written,
           \A n \in Bunches : (Off(n) => Off(n)') /\ (InBuffer(n)' => InBuffer(n)),
           \A i \in 1..Len(requestNet') : \E k \in 1..Len(requestNet) :
               requestNet'[i] = requestNet[k]
    PROVE  Requests'
  <1>1. Bunches' = Bunches
    BY DEF Bunches
  <1> SUFFICES ASSUME NEW i \in 1..Len(requestNet') PROVE Sound(requestNet[i])'
    BY DEF Requests
  <1>2. PICK k \in 1..Len(requestNet) : requestNet'[i] = requestNet[k]
    OBVIOUS
  <1>3. PICK r : r = requestNet[k]
    OBVIOUS
  <1>4. Sound(r)
    BY <1>3 DEF Requests
  <1>5. Sound(r)'
    BY <1>1, <1>4, SoundKept
  <1> QED BY <1>2, <1>3, <1>5 DEF Sound, Asks

LEMMA RequestsTimeslot ==
    ASSUME Shapes, Numbers, Requests, HitTimeslot PROVE Requests'
  <1>0. PICK N : N = Len(sent) + 1
    OBVIOUS
  <1>1. /\ Bunches' = Bunches \cup {N} /\ ~Off(N)
        /\ \A m \in Bunches' : Off(m)' <=> Off(m)
        /\ \A m \in Bunches' : InBuffer(m)' => InBuffer(m) \/ m = N
    BY <1>0, BunchIs
  <1>2. PICK P \in Seq(Packet), a \in 0..Len(need_retransmit), c \in 0..Len(tun) :
            Scheduled(P, a, c)
    BY ScheduledIs
  <1>3. written' = written /\ requestNet' = requestNet /\ setting' = setting
        /\ a \in Nat /\ c \in Nat
    <2>1. written' = written /\ requestNet' = requestNet /\ setting' = setting
      BY TimeslotIs, WrittenKept
    <2>2. Len(need_retransmit) \in Nat /\ Len(tun) \in Nat
      BY DEF Shapes
    <2> QED BY <2>1, <2>2
  <1>4. \A n \in Bunches : sent'[n] = sent[n]
    BY <1>2, <1>3, SentGrows
  <1> SUFFICES ASSUME NEW i \in 1..Len(requestNet') PROVE Sound(requestNet[i])'
    BY DEF Requests
  <1>5. PICK r : r = requestNet[i]
    OBVIOUS
  <1>6. Sound(r)
    BY <1>3, <1>5 DEF Requests
  <1>7. PICK n : n = r.of
    OBVIOUS
  <1>8. n \in Bunches /\ n \in Bunches' /\ Off(n)' /\ (InBuffer(n)' => InBuffer(n)) /\ sent'[n] = sent[n]
    BY <1>1, <1>4, <1>6, <1>7 DEF Sound
  <1>9. Sound(r)'
    BY <1>3, <1>6, <1>7, <1>8 DEF Sound, Asks
  <1> QED BY <1>3, <1>5, <1>9 DEF Sound, Asks

\* The requests for the bunches that were passed over.
GapIs(n, g) ==
    /\ g \in Seq(Request) /\ Len(g) = n - 1 - seen /\ seen < n /\ n \in Bunches /\ seen \in Nat
    /\ \A i \in 1..Len(g) :
           /\ g[i].by = n /\ g[i].indices = AllMissing
           /\ g[i].of = seen + i /\ g[i].of \in Bunches /\ g[i].of \in lost
           /\ g[i].of < n /\ g[i].seq = sent[g[i].of].seq

LEMMA GapOf ==
    ASSUME Shapes, Numbers, NoReuse, air # <<>>, NEW n, n = Head(air).n,
           NEW g, g = GapRequests(n, sent[n].seq)
    PROVE  GapIs(n, g)
  <1> DEFINE l == Len(sent) - Len(air)
             q == sent[n].seq
             x == n - 1
             s == seen
  <1>1. air \in Seq(Entry) /\ sent \in Seq(Bunch) /\ n \in Bunches /\ s \in 0..Len(sent)
    BY HeadOfAir DEF Shapes
  <1>2. Len(air) \in Nat /\ Len(air) >= 1 /\ Head(air) = air[1]
    BY <1>1, TailIs
  <1>3. x = l /\ l \in Nat /\ n \in Nat /\ n = l + 1
    <2>1. air[1].n = Len(sent) - Len(air) + 1
      BY <1>2 DEF Numbers
    <2>2. Len(sent) \in Nat /\ Len(air) <= Len(sent)
      BY <1>1 DEF Numbers
    <2> QED BY <1>2, <2>1, <2>2
  <1>4. q = x % SeqSize /\ expected_seq = s % SeqSize
    BY <1>1 DEF Numbers
  <1>5. s <= l /\ l - s < SeqSize
    BY DEF NoReuse, Numbers, Off
  <1> HIDE DEF l, x, s
  <1>6. s \in Nat /\ x \in Nat /\ s <= x /\ x < s + SeqSize
    BY <1>1, <1>3, <1>5, SeqSizeIs
  <1>7. MissingSeqs(q) = x - s
    <2>1. ((x % SeqSize) - (s % SeqSize)) % SeqSize = x - s
      BY <1>6, SeqSizeIs, ModLess
    <2> QED BY <1>4, <2>1 DEF MissingSeqs
  <1>8. q \in Int /\ expected_seq \in Int
    <2>1. x % SeqSize \in Int /\ s % SeqSize \in Int
      BY <1>6, SeqSizeIs, DivMod
    <2> QED BY <1>4, <2>1
  <1> HIDE DEF q
  <1>9. /\ g \in Seq(Request) /\ Len(g) = x - s
        /\ \A i \in 1..(x - s) :
                  /\ g[i].by = n
                  /\ g[i].of = n - 1 - (x - s) + i
                  /\ g[i].seq = (expected_seq + i - 1) % SeqSize
                  /\ g[i].indices = AllMissing
    <2>1. g = GapRequests(n, q)
      BY DEF q
    <2>2. /\ g \in Seq(Request) /\ Len(g) = MissingSeqs(q)
          /\ \A i \in 1..MissingSeqs(q) :
                  /\ g[i].by = n
                  /\ g[i].of = n - 1 - MissingSeqs(q) + i
                  /\ g[i].seq = (expected_seq + i - 1) % SeqSize
                  /\ g[i].indices = AllMissing
      <3> DEFINE G == GapRequests(n, q)
      <3>1. /\ G \in Seq(Request) /\ Len(G) = MissingSeqs(q)
            /\ \A i \in 1..MissingSeqs(q) :
                  /\ G[i].by = n
                  /\ G[i].of = n - 1 - MissingSeqs(q) + i
                  /\ G[i].seq = (expected_seq + i - 1) % SeqSize
                  /\ G[i].indices = AllMissing
        BY <1>3, <1>8, GapRequestsIs
      <3>2. g = G
        BY <2>1
      <3> HIDE DEF G
      <3> QED BY <3>1, <3>2
    <2> QED BY <1>7, <2>2
  <1>10. ASSUME NEW i \in 1..(x - s)
         PROVE  /\ g[i].of = s + i /\ g[i].of \in Bunches /\ g[i].of \in lost
                /\ g[i].of < n /\ g[i].seq = sent[g[i].of].seq
    <2> DEFINE m == s + i
               y == i - 1
    <2>1. g[i].of = m /\ m \in Int /\ m >= 1 /\ m <= l /\ m < n /\ s < m /\ y \in Int
      <3>1. g[i].of = n - 1 - (x - s) + i
        BY <1>9
      <3>2. i \in Int /\ i >= 1 /\ i <= x - s
        BY <1>6
      <3>3. n - 1 - (x - s) + i = m
        BY <1>3, <1>6, <3>2
      <3>4. m \in Int /\ m >= 1 /\ m <= l /\ m < n /\ s < m /\ y \in Int
        BY <1>3, <1>6, <3>2
      <3> QED BY <3>1, <3>3, <3>4
    <2>2. m \in Bunches /\ Off(m)
      BY <1>1, <1>2, <1>3, <2>1 DEF Bunches, Off, l
    <2>3. m \in lost
      BY <2>1, <2>2 DEF Numbers, s
    <2>4. sent[m].seq = (m - 1) % SeqSize
      BY <2>2 DEF Numbers
    <2>5. m - 1 = s + y
      BY <1>6
    <2>6. expected_seq + i - 1 = (s % SeqSize) + y
      BY <1>4, <1>8
    <2> HIDE DEF y, m
    <2>7. ((s % SeqSize) + y) % SeqSize = (s + y) % SeqSize
      <3>1. s \in Int /\ y \in Int
        BY <1>6, <2>1
      <3> QED BY <3>1, SeqSizeIs, ModPlus
    <2>8. g[i].seq = sent[m].seq
      <3>1. g[i].seq = (expected_seq + i - 1) % SeqSize
        BY <1>9
      <3> QED BY <2>4, <2>5, <2>6, <2>7, <3>1, Zenon
    <2>9. m = s + i
      BY DEF m
    <2> QED BY <2>1, <2>2, <2>3, <2>8, <2>9
  <1>11. /\ \A i \in 1..Len(g) :
                  /\ g[i].by = n /\ g[i].indices = AllMissing
                  /\ g[i].of = s + i /\ g[i].of \in Bunches /\ g[i].of \in lost
                  /\ g[i].of < n /\ g[i].seq = sent[g[i].of].seq
    BY <1>9, <1>10
  <1>12. s < n
    BY <1>3, <1>6
  <1>13. Len(g) = n - 1 - s
    BY <1>9 DEF x
  <1>14. s = seen
    BY DEF s
  <1>15. g \in Seq(Request) /\ n \in Bunches /\ s \in Nat
    BY <1>1, <1>6, <1>9
  <1>16. \A i \in 1..Len(g) :
                  /\ g[i].by = n /\ g[i].indices = AllMissing
                  /\ g[i].of = seen + i /\ g[i].of \in Bunches /\ g[i].of \in lost
                  /\ g[i].of < n /\ g[i].seq = sent[g[i].of].seq
    BY <1>11, <1>14, Zenon
  <1>17. g \in Seq(Request) /\ Len(g) = n - 1 - seen /\ seen < n /\ n \in Bunches /\ seen \in Nat
    BY <1>12, <1>13, <1>14, <1>15, Zenon
  <1> QED BY <1>16, <1>17, Zenon DEF GapIs

\* Requests on their way stay sound when a bunch is decoded.
LEMMA SoundPacket ==
    ASSUME Shapes, Numbers, Chain, Undelivered, NEW bad \in SUBSET (1..MaxWords),
           NEW cut \in 0..MaxWords, DemodGotPacket(bad, cut), NEW r, Sound(r)
    PROVE  Sound(r)'
  <1>0. PICK n : n = Head(air).n
    OBVIOUS
  <1>01. PICK m : m = r.of
    OBVIOUS
  <1>1. air # <<>> /\ GotHeader(n, FoundMissing(bad, cut))
    BY <1>0, PacketStep
  <1>2. air' = Tail(air) /\ UNCHANGED <<setting, sent, buffer>>
    BY <1>1 DEF GotHeader, arbVars
  <1>3. /\ n \in Bunches /\ ~Off(n) /\ n = Len(sent) - Len(air) + 1 /\ n \in Nat
        /\ \A k \in Int : Off(k)' <=> (Off(k) \/ k = n)
    BY <1>0, <1>1, <1>2, AirMoves
  <1>4. /\ m \in Bunches /\ Off(m) /\ r.seq = sent[m].seq
        /\ InBuffer(m) => \A k \in 1..Len(sent[m].packets) :
                              Asks(r, m, k) => written[sent[m].packets[k]] = 0
    BY <1>01 DEF Sound
  <1>5. m \in Int /\ m < n /\ Bunches' = Bunches /\ Off(m)'
    <2>1. m \in Int /\ n \in Int /\ Len(sent) - Len(air) \in Int
      BY <1>3, <1>4 DEF Bunches, Shapes
    <2>2. m < n
      BY <1>3, <1>4, <2>1 DEF Off
    <2> QED BY <1>2, <1>3, <1>4, <2>1, <2>2 DEF Bunches
  <1>6. sent[m].packets \in Seq(Packet)
    <2>1. sent[m] \in Bunch
      BY <1>4, BunchAt
    <2> QED BY <2>1 DEF Bunch
  <1>7. ASSUME InBuffer(m), NEW k \in 1..Len(sent[m].packets), Asks(r, m, k)
        PROVE  written'[sent[m].packets[k]] = 0
    <2>1. PICK p \in Packet : p = sent[m].packets[k]
      BY <1>6
    <2>2. written[p] = 0 /\ Has(m, p)
      BY <1>4, <1>7, <2>1 DEF Has
    <2>3. ~Has(n, p)
      BY <1>3, <1>4, <1>5, <1>7, <2>2 DEF Chain, Spent
    <2>4. Delivers(n, p, bad, cut)
      BY <1>0, DeliveredIs, Zenon
    <2> QED BY <2>1, <2>2, <2>3, <2>4 DEF Delivers
  <1>8. InBuffer(m)' => InBuffer(m)
    BY <1>2 DEF InBuffer
  <1> QED BY <1>01, <1>2, <1>4, <1>5, <1>7, <1>8 DEF Sound, Asks

\* Requests for what was passed over are sound.
LEMMA SoundGap ==
    ASSUME Shapes, Numbers, NoReuse, air # <<>>, air' = Tail(air),
           UNCHANGED <<setting, sent, buffer, lost>>, Undelivered',
           NEW n, n = Head(air).n, NEW g, g = GapRequests(n, sent[n].seq), NEW i \in 1..Len(g)
    PROVE  Sound(g[i])'
  <1>1. PICK r : r = g[i]
    OBVIOUS
  <1>2. PICK m : m = r.of
    OBVIOUS
  <1>3. m \in Bunches /\ m \in lost /\ r.seq = sent[m].seq
    <2>1. \A k \in 1..Len(g) : /\ g[k].of \in Bunches /\ g[k].of \in lost
                              /\ g[k].seq = sent[g[k].of].seq
      <3>1. GapIs(n, g)
        BY GapOf, Zenon
      <3> QED BY <3>1 DEF GapIs
    <2> QED BY <1>1, <1>2, <2>1
  <1>4. \A k \in Int : Off(k)' <=> (Off(k) \/ k = n)
    BY AirMoves
  <1>5. Bunches' = Bunches /\ Packet' = Packet /\ m \in Int
    BY <1>3 DEF Bunches, Packet
  <1>6. Off(m)'
    BY <1>3, <1>4, <1>5 DEF Numbers
  <1>7. sent[m].packets \in Seq(Packet)
    <2>1. sent[m] \in Bunch
      BY <1>3, BunchAt
    <2> QED BY <2>1 DEF Bunch
  <1>8. ASSUME InBuffer(m)', NEW k \in 1..Len(sent[m].packets) PROVE written'[sent[m].packets[k]] = 0
    <2>1. PICK p \in Packet : p = sent[m].packets[k]
      BY <1>7
    <2>2. Has(m, p)'
      BY <2>1 DEF Has
    <2> QED BY <1>3, <1>5, <1>8, <2>1, <2>2 DEF Undelivered
  <1>9. Sound(r)'
    BY <1>2, <1>3, <1>5, <1>6, <1>8 DEF Sound, Asks
  <1> QED BY <1>1, <1>9

\* A request for the packets found damaged is sound.  A list that matches is
\* that of the bunch decoded, or of an earlier bunch that had one of its
\* packets before and is gone.
LEMMA MatchOf ==
    ASSUME Shapes, Numbers, Chain, NoReuse, NEW bad \in SUBSET (1..MaxWords),
           NEW cut \in 0..MaxWords, DemodGotPacket(bad, cut), NEW n, n = Head(air).n,
           NEW b \in Waiting, Compare(FoundList(bad, cut), b)
    PROVE  /\ b.n \in Bunches /\ b.seq = sent[b.n].seq /\ b.hashes = sent[b.n].packets
           /\ \/ b.n = n
              \/ b.n < n /\ Spent(b.n) /\ \E p \in Packet : Has(b.n, p) /\ Has(n, p)
  <1> DEFINE a == FoundList(bad, cut)
             packets == sent[n].packets
  <1>1. /\ air # <<>> /\ n \in Bunches /\ GotHeader(n, FoundMissing(bad, cut))
        /\ cut \in 0..Len(packets) /\ packets \in Seq(Packet)
        /\ Found(bad, cut) \in Hashes /\ FoundList(bad, cut) \in Received
    BY PacketStep
  <1>2. ~Off(n)
    <2>1. air' = Tail(air) /\ sent' = sent
      BY <1>1 DEF GotHeader, arbVars
    <2> QED BY <1>1, <2>1, AirMoves
  <1>3. a.seq = sent[n].seq /\ a.hashes = Found(bad, cut)
    BY DEF FoundList
  <1>4. b \in Expected /\ b.n \in Remembered
    <2>1. PICK i \in 1..Len(expected) : b = expected[i]
      BY DEF Waiting
    <2>2. expected \in Seq(Expected)
      BY DEF Shapes
    <2> QED BY <2>1, <2>2 DEF Remembered
  <1>5. b \in List /\ b.seq = sent[b.n].seq /\ b.hashes = sent[b.n].packets
    BY <1>4 DEF Expected, Received
  <1>6. b.n \in Bunches /\ b.hashes \in Hashes
    <2> HIDE DEF Hashes
    <2> QED BY <1>5 DEF List
  <1>7. n \in Remembered
    <2>1. n = air[1].n /\ 1 \in 1..Len(air)
      <3>1. air \in Seq(Entry)
        BY DEF Shapes
      <3> QED BY <1>1, <3>1, TailIs
    <2> QED BY <2>1 DEF Remembered
  <1> HIDE DEF a
  <1>8. \/ a.seq = b.seq
        \/ \E i \in 1..Len(a.hashes) : i \in 1..Len(b.hashes) /\ a.hashes[i] = b.hashes[i]
    <2>1. Compare(a, b) /\ a.hashes \in Seq(Packet \cup {Bad}) /\ b.hashes \in Seq(Packet \cup {Bad})
      BY <1>1, <1>3, <1>6 DEF a, Hashes
    <2> DEFINE S == Packet \cup {Bad}
    <2> HIDE DEF S
    <2>2. Compare(a, b) /\ a.hashes \in Seq(S) /\ b.hashes \in Seq(S)
      BY <2>1 DEF S
    <2>3. Meets(a, b)
      BY <2>2, MatchIs, Zenon
    <2> QED BY <2>3 DEF Meets
  <1>9. CASE a.seq = b.seq
    <2>1. b.n = n
      BY <1>3, <1>4, <1>5, <1>7, <1>9 DEF NoReuse
    <2> QED BY <1>5, <1>6, <2>1
  <1>10. ASSUME NEW i \in 1..Len(a.hashes), i \in 1..Len(b.hashes), a.hashes[i] = b.hashes[i]
         PROVE  \/ b.n = n
                \/ b.n < n /\ Spent(b.n) /\ \E p \in Packet : Has(b.n, p) /\ Has(n, p)
    <2>1. PICK m \in Bunches : m = b.n
      BY <1>6
    <2>2. sent[m].packets \in Seq(Packet)
      <3>1. sent[m] \in Bunch
        BY <2>1, BunchAt
      <3> QED BY <3>1 DEF Bunch
    <2>3. PICK p \in Packet : p = b.hashes[i] /\ Has(m, p)
      BY <1>5, <1>10, <2>1, <2>2 DEF Has
    <2>4. Has(n, p)
      <3> HIDE DEF packets
      <3> DEFINE D == Decoded(packets, bad, cut)
      <3>1. packets \in Seq(Packet) /\ cut \in 0..Len(packets) /\ setting \in Settings
        BY <1>1 DEF Shapes
      <3>2. Distinct(packets)
        BY <1>1 DEF Chain, packets
      <3>3. \A k \in 1..Len(D), q \in Packet :
                  D[k] = q => \E j \in 1..Len(packets) : packets[j] = q /\ j \notin bad
        BY <3>1, <3>2, DecodedOnce
      <3>4. a.hashes = D
        BY <1>3 DEF Found, packets
      <3> HIDE DEF D
      <3>5. \E j \in 1..Len(packets) : packets[j] = p
        BY <1>10, <2>3, <3>3, <3>4
      <3> QED BY <3>5 DEF Has, packets
    <2>5. m \in Int /\ n \in Int
      BY <1>1 DEF Bunches
    <2>6. ~(n < m)
      BY <1>1, <1>2, <2>3, <2>4 DEF Chain, Spent
    <2>7. m < n => Spent(m)
      BY <1>1, <2>3, <2>4 DEF Chain
    <2>8. m = n \/ m < n
      BY <2>5, <2>6
    <2> QED BY <2>1, <2>3, <2>4, <2>7, <2>8
  <1> QED BY <1>5, <1>6, <1>8, <1>9, <1>10

LEMMA SoundFound ==
    ASSUME Shapes, Numbers, Chain, Undelivered, NoReuse,
           NEW bad \in SUBSET (1..MaxWords), NEW cut \in 0..MaxWords, DemodGotPacket(bad, cut),
           NEW b \in Waiting, Compare(FoundList(bad, cut), b),
           NEW r, r.of = b.n, r.seq = b.seq, r.indices = InvalidIdx(FoundList(bad, cut), b)
    PROVE  Sound(r)'
  <1>0. PICK n : n = Head(air).n
    OBVIOUS
  <1>01. PICK m : m = b.n
    OBVIOUS
  <1> DEFINE packets == sent[n].packets
             D == Decoded(packets, bad, cut)
             a == FoundList(bad, cut)
  <1>1. /\ air # <<>> /\ n \in Bunches /\ GotHeader(n, FoundMissing(bad, cut))
        /\ cut \in 0..Len(packets) /\ packets \in Seq(Packet)
    BY <1>0, PacketStep
  <1>2. air' = Tail(air) /\ UNCHANGED <<setting, sent, buffer>>
    BY <1>1 DEF GotHeader, arbVars
  <1>3. ~Off(n) /\ \A k \in Int : Off(k)' <=> (Off(k) \/ k = n)
    BY <1>0, <1>1, <1>2, AirMoves
  <1>4. /\ m \in Bunches /\ b.seq = sent[m].seq /\ b.hashes = sent[m].packets
        /\ (m = n \/ Spent(m))
    BY <1>0, <1>01, MatchOf
  <1>5. Bunches' = Bunches /\ m \in Int /\ Off(m)' /\ (InBuffer(m)' <=> InBuffer(m))
    <2>1. m \in Int /\ Bunches' = Bunches
      BY <1>2, <1>4 DEF Bunches
    <2> QED BY <1>2, <1>3, <1>4, <2>1 DEF Spent, InBuffer
  <1>6. CASE m # n
    BY <1>01, <1>2, <1>4, <1>5, <1>6 DEF Sound, Spent
  <1>7. CASE m = n
    <2>1. r.indices # AllMissing
      BY DEF AllMissing, InvalidIdx
    <2>2. a.hashes = D
      BY <1>0 DEF FoundList, Found
    <2>3. b.hashes = packets
      BY <1>4, <1>7
    <2> HIDE DEF D
    <2>4. ASSUME NEW k \in 1..Len(packets), k \in r.indices PROVE D[k] # packets[k]
      <3>1. a.hashes[k] # b.hashes[k]
        BY <2>4 DEF InvalidIdx
      <3> QED BY <2>2, <2>3, <3>1
    <2> HIDE DEF a
    <2>5. ASSUME NEW k \in 1..Len(packets), k \in r.indices PROVE written'[packets[k]] = 0
      <3>1. PICK p \in Packet : p = packets[k]
        BY <1>1
      <3>2. Has(n, p)
        BY <3>1 DEF Has
      <3>3. written[p] = 0
        BY <1>1, <1>3, <3>2 DEF Undelivered
      <3>4. Delivers(n, p, bad, cut)
        BY <1>0, DeliveredIs, Zenon
      <3>5. Distinct(packets)
        BY <1>1 DEF Chain
      <3>6. ~(\E l \in 1..Len(packets) : packets[l] = p /\ D[l] = p)
        BY <2>4, <2>5, <3>1, <3>5 DEF Distinct
      <3> QED BY <3>1, <3>3, <3>4, <3>6 DEF Delivers, D
    <2> QED BY <1>01, <1>2, <1>4, <1>5, <1>7, <2>1, <2>5 DEF Sound, Asks
  <1> QED BY <1>6, <1>7

LEMMA UndeliveredStep ==
    ASSUME Shapes, Numbers, Chain, Undelivered, Requests, NoReuse, [Next]_vars
    PROVE  Undelivered'
  <1>0. ASSUME UNCHANGED <<sent, setting, written, need_retransmit, lost, air, buffer>>
        PROVE  Undelivered'
    <2>1. \A n \in Bunches : (Off(n) => Off(n)') /\ (InBuffer(n)' => InBuffer(n))
      BY <1>0 DEF Off, InBuffer
    <2> QED BY <1>0, <2>1, UndeliveredKept
  <1>1. CASE TunArrives
    BY <1>0, <1>1, WrittenKept DEF TunArrives, bufferVars, demodVars, netVars, history
  <1>2. CASE HitTimeslot
    BY <1>2, UndeliveredTimeslot
  <1>3. CASE RequestArrives
    BY <1>3, UndeliveredRequest
  <1>4. CASE HashesArrive
    BY <1>0, <1>4, WrittenKept DEF HashesArrive, arbVars, history
  <1>5. CASE DemodGotEmpty
    <2>0. PICK n : n = Head(air).n
      OBVIOUS
    <2>1. /\ air # <<>> /\ air' = Tail(air)
          /\ UNCHANGED <<sent, setting, written, need_retransmit, lost, buffer>>
      BY <1>5, WrittenKept DEF DemodGotEmpty, Arrived, GotHeader, arbVars
    <2>2. \A m \in Int : Off(m)' <=> (Off(m) \/ m = n)
      BY <2>0, <2>1, AirMoves
    <2>3. \A m \in Bunches : (Off(m) => Off(m)') /\ (InBuffer(m)' => InBuffer(m))
      BY <2>1, <2>2 DEF InBuffer, Bunches
    <2> QED BY <2>1, <2>3, UndeliveredKept
  <1>6. ASSUME NEW bad \in SUBSET (1..MaxWords), NEW cut \in 0..MaxWords, DemodGotPacket(bad, cut)
        PROVE  Undelivered'
    BY <1>6, UndeliveredPacket
  <1>7. CASE AirLoses
    BY <1>7, UndeliveredLoses
  <1>8. CASE ZmqLoses
    BY <1>0, <1>8, WrittenKept DEF ZmqLoses, arbVars, demodVars, history
  <1>9. CASE Second
    <2>1. UNCHANGED <<sent, setting, written, need_retransmit, lost>>
      BY <1>9, WrittenKept DEF Second, history
    <2>2. \A n \in Bunches : (Off(n) => Off(n)') /\ (InBuffer(n)' => InBuffer(n))
      BY <1>9, <2>1, OlderNumbers DEF Off, InBuffer
    <2> QED BY <2>1, <2>2, UndeliveredKept
  <1>10. CASE UNCHANGED vars
    BY <1>0, <1>10, Unchanged, WrittenKept
  <1> QED BY <1>1, <1>2, <1>3, <1>4, <1>5, <1>6, <1>7, <1>8, <1>9, <1>10, NextIs

-----------------------------------------------------------------------------
(* Requests ask for what is missing.                                       *)

LEMMA RequestsInit ==
    ASSUME Init PROVE Requests
  <1>1. requestNet = <<>>
    BY DEF Init
  <1>2. Len(requestNet) = 0
    BY <1>1
  <1> QED BY <1>2 DEF Requests

\* The requests after a bunch was decoded: those before, those for the gap,
\* and more.
LEMMA RequestsHeader ==
    ASSUME Shapes, Numbers, NoReuse, air # <<>>, NEW n, n = Head(air).n,
           NEW more \in Seq(Request), GotHeader(n, more), Undelivered',
           \A i \in 1..Len(requestNet) : Sound(requestNet[i]),
           \A r : Sound(r) => Sound(r)',
           \A i \in 1..Len(more) : Sound(more[i])'
    PROVE  Requests'
  <1>1. PICK g : g = GapRequests(n, sent[n].seq)
    OBVIOUS
  <1>2. /\ air' = Tail(air) /\ UNCHANGED <<setting, sent, buffer, lost>>
        /\ requestNet' = requestNet \o g \o more
    BY <1>1 DEF GotHeader, arbVars
  <1>3. g \in Seq(Request) /\ requestNet \in Seq(Request)
    BY <1>1, GapOf DEF Shapes, GapIs
  <1>4. \A i \in 1..Len(g) : Sound(g[i])'
    BY <1>1, <1>2, SoundGap
  <1>5. PICK u : u = requestNet \o g
    OBVIOUS
  <1>6. u \in Seq(Request) /\ requestNet' = u \o more
    BY <1>2, <1>3, <1>5
  <1> SUFFICES ASSUME NEW x \in 1..Len(requestNet') PROVE Sound(requestNet[x])'
    BY DEF Requests
  <1>7. PICK r : r = requestNet'[x]
    OBVIOUS
  <1>8. \/ \E k \in 1..Len(u) : r = u[k]
        \/ \E k \in 1..Len(more) : r = more[k]
    <2>1. x \in 1..Len(u \o more)
      BY <1>6
    <2> QED BY <1>6, <1>7, <2>1, ConcatMembers
  <1>9. ASSUME NEW k \in 1..Len(u), r = u[k] PROVE Sound(r)'
    <2>1. k \in 1..Len(requestNet \o g) /\ r = (requestNet \o g)[k]
      BY <1>5, <1>9
    <2>2. \/ \E l \in 1..Len(requestNet) : r = requestNet[l]
          \/ \E l \in 1..Len(g) : r = g[l]
      BY <1>3, <2>1, ConcatMembers
    <2>3. ASSUME NEW l \in 1..Len(requestNet), r = requestNet[l] PROVE Sound(r)'
      <3>1. Sound(r)
        BY <2>3
      <3> QED BY <3>1
    <2>4. ASSUME NEW l \in 1..Len(g), r = g[l] PROVE Sound(r)'
      BY <1>4, <2>4
    <2> QED BY <2>2, <2>3, <2>4
  <1>10. Sound(r)'
    BY <1>8, <1>9
  <1> QED BY <1>7, <1>10 DEF Sound, Asks

LEMMA RequestsStep ==
    ASSUME Shapes, Numbers, Chain, Undelivered, Requests, NoReuse,
           [Next]_vars, Undelivered'
    PROVE  Requests'
  <1>0. ASSUME UNCHANGED <<sent, written, air, buffer>>,
               \/ requestNet' = requestNet
               \/ requestNet # <<>> /\ requestNet' = Tail(requestNet)
        PROVE  Requests'
    <2>1. \A n \in Bunches : (Off(n) => Off(n)') /\ (InBuffer(n)' => InBuffer(n))
      BY <1>0 DEF Off, InBuffer
    <2>2. requestNet \in Seq(Request)
      BY DEF Shapes
    <2>3. \A i \in 1..Len(requestNet') : \E k \in 1..Len(requestNet) :
               requestNet'[i] = requestNet[k]
      <3>1. CASE requestNet' = requestNet
        BY <3>1
      <3>2. CASE requestNet # <<>> /\ requestNet' = Tail(requestNet)
        <4>1. /\ Len(requestNet) \in Nat /\ Len(requestNet') = Len(requestNet) - 1
              /\ \A i \in 1..(Len(requestNet) - 1) : requestNet'[i] = requestNet[i + 1]
          BY <2>2, <3>2, TailIs
        <4> QED BY <4>1
      <3> QED BY <1>0, <3>1, <3>2
    <2> QED BY <1>0, <2>1, <2>3, RequestsKept
  <1>1. CASE TunArrives
    BY <1>0, <1>1, WrittenKept DEF TunArrives, bufferVars, demodVars, netVars, history
  <1>2. CASE HitTimeslot
    BY <1>2, RequestsTimeslot
  <1>3. CASE RequestArrives
    <2>0. PICK r : r = Head(requestNet)
      OBVIOUS
    <2>01. PICK j : j = AskedFor(r.seq, r.indices)
      OBVIOUS
    <2>1. /\ requestNet # <<>> /\ requestNet' = Tail(requestNet)
          /\ UNCHANGED <<sent, air, written>>
      BY <1>3, WrittenKept DEF RequestArrives, demodVars, history
    <2>2. \A n : InBuffer(n)' => InBuffer(n)
      BY <1>3, <2>0, <2>01, RequestStep DEF Numbers
    <2>3. \A n \in Bunches : (Off(n) => Off(n)') /\ (InBuffer(n)' => InBuffer(n))
      BY <2>1, <2>2 DEF Off
    <2>4. \A i \in 1..Len(requestNet') : \E k \in 1..Len(requestNet) :
               requestNet'[i] = requestNet[k]
      <3>0. requestNet \in Seq(Request)
        BY DEF Shapes
      <3>1. /\ Len(requestNet) \in Nat /\ Len(requestNet') = Len(requestNet) - 1
            /\ \A i \in 1..(Len(requestNet) - 1) : requestNet'[i] = requestNet[i + 1]
        BY <2>1, <3>0, TailIs
      <3> QED BY <3>1
    <2> QED BY <2>1, <2>3, <2>4, RequestsKept
  <1>4. CASE HashesArrive
    BY <1>0, <1>4, WrittenKept DEF HashesArrive, arbVars, history
  <1>5. CASE DemodGotEmpty
    <2>0. PICK n : n = Head(air).n
      OBVIOUS
    <2>1. /\ air # <<>> /\ air' = Tail(air) /\ GotHeader(n, <<>>)
          /\ UNCHANGED <<sent, written, buffer>>
      BY <1>5, <2>0, WrittenKept DEF DemodGotEmpty, Arrived, GotHeader, arbVars
    <2>2. \A m \in Int : Off(m)' <=> (Off(m) \/ m = n)
      BY <2>0, <2>1, AirMoves
    <2>3. Bunches' = Bunches /\ \A m \in Bunches : (Off(m) => Off(m)') /\ (InBuffer(m)' => InBuffer(m))
      BY <2>1, <2>2 DEF InBuffer, Bunches
    <2>4. \A r : Sound(r) => Sound(r)'
      BY <2>1, <2>3, SoundKept
    <2>5. PICK more : more = <<>>
      OBVIOUS
    <2>6. more \in Seq(Request) /\ Len(more) = 0
      BY <2>5
    <2>7. \A i \in 1..Len(more) : Sound(more[i])'
      BY <2>6
    <2>8. \A i \in 1..Len(requestNet) : Sound(requestNet[i])
      BY DEF Requests
    <2>9. GotHeader(n, more)
      BY <2>1, <2>5, Zenon
    <2> QED BY <2>0, <2>1, <2>4, <2>6, <2>7, <2>8, <2>9, RequestsHeader
  <1>6. ASSUME NEW bad \in SUBSET (1..MaxWords), NEW cut \in 0..MaxWords, DemodGotPacket(bad, cut)
        PROVE  Requests'
    <2>0. PICK n : n = Head(air).n
      OBVIOUS
    <2>01. PICK more : more = FoundMissing(bad, cut)
      OBVIOUS
    <2>1. air # <<>> /\ GotHeader(n, more) /\ FoundList(bad, cut) \in Received
          /\ n \in Bunches
      BY <1>6, <2>0, <2>01, PacketStep
    <2>2. \A r : Sound(r) => Sound(r)'
      BY <1>6, SoundPacket
    <2>3. \/ more = <<>>
          \/ \E b \in Waiting :
                /\ Compare(FoundList(bad, cut), b)
                /\ more = <<[by |-> n, of |-> b.n, seq |-> b.seq,
                             indices |-> InvalidIdx(FoundList(bad, cut), b)]>>
      BY <2>0, <2>01, <2>1, FoundIs
    <2>4. CASE more = <<>>
      <3>1. more \in Seq(Request) /\ Len(more) = 0
        BY <2>4
      <3>2. \A i \in 1..Len(more) : Sound(more[i])'
        BY <3>1
      <3>3. \A i \in 1..Len(requestNet) : Sound(requestNet[i])
        BY DEF Requests
      <3> QED BY <2>0, <2>1, <2>2, <3>1, <3>2, <3>3, RequestsHeader
    <2>5. ASSUME NEW b \in Waiting, Compare(FoundList(bad, cut), b),
                 more = <<[by |-> n, of |-> b.n, seq |-> b.seq,
                           indices |-> InvalidIdx(FoundList(bad, cut), b)]>>
          PROVE  Requests'
      <3>1. PICK r : r = [by |-> n, of |-> b.n, seq |-> b.seq,
                          indices |-> InvalidIdx(FoundList(bad, cut), b)]
        OBVIOUS
      <3>2. Sound(r)'
        <4>1. r.of = b.n /\ r.seq = b.seq /\ r.indices = InvalidIdx(FoundList(bad, cut), b)
          BY <3>1
        <4> QED BY <1>6, <2>5, <4>1, SoundFound
      <3>3. r \in Request
        <4>1. b \in Expected
          BY <2>1, FoundIs
        <4>2. b.n \in Bunches /\ b.seq \in 0..(SeqSize - 1) /\ n \in Nat /\ b.n \in Int
          <5> HIDE DEF Hashes
          <5> QED BY <2>1, <4>1 DEF Expected, Received, List, Bunches
        <4>3. InvalidIdx(FoundList(bad, cut), b) \in SUBSET Nat
          BY DEF InvalidIdx
        <4> QED BY <3>1, <4>2, <4>3 DEF Request
      <3>4. more \in Seq(Request) /\ Len(more) = 1 /\ more[1] = r
        BY <2>5, <3>1, <3>3
      <3>5. \A i \in 1..Len(more) : Sound(more[i])'
        <4> SUFFICES ASSUME NEW i \in 1..Len(more) PROVE Sound(more[i])'
          OBVIOUS
        <4>1. i = 1 /\ more[i] = r
          BY <3>4
        <4> QED BY <3>2, <4>1 DEF Sound, Asks
      <3> QED BY <2>0, <2>1, <2>2, <3>4, <3>5, RequestsHeader DEF Requests
    <2> QED BY <2>3, <2>4, <2>5
  <1>7. CASE AirLoses
    <2>0. PICK n : n = Head(air).n
      OBVIOUS
    <2>1. /\ air # <<>> /\ air' = Tail(air)
          /\ UNCHANGED <<sent, written, buffer, requestNet>>
      BY <1>7, WrittenKept DEF AirLoses, arbVars, demodVars
    <2>2. \A m \in Int : Off(m)' <=> (Off(m) \/ m = n)
      BY <2>0, <2>1, AirMoves
    <2>3. \A m \in Bunches : (Off(m) => Off(m)') /\ (InBuffer(m)' => InBuffer(m))
      BY <2>1, <2>2 DEF InBuffer, Bunches
    <2> QED BY <2>1, <2>3, RequestsKept
  <1>8. CASE ZmqLoses
    BY <1>0, <1>8, WrittenKept DEF ZmqLoses, arbVars, demodVars, history
  <1>9. CASE Second
    <2>1. UNCHANGED <<sent, written, requestNet>>
      BY <1>9, WrittenKept DEF Second, history
    <2>2. \A n \in Bunches : (Off(n) => Off(n)') /\ (InBuffer(n)' => InBuffer(n))
      BY <1>9, <2>1, OlderNumbers DEF Off, InBuffer
    <2> QED BY <2>1, <2>2, RequestsKept
  <1>10. CASE UNCHANGED vars
    BY <1>0, <1>10, Unchanged, WrittenKept
  <1> QED BY <1>1, <1>2, <1>3, <1>4, <1>5, <1>6, <1>7, <1>8, <1>9, <1>10, NextIs

-----------------------------------------------------------------------------
(* Every gap is asked for.                                                 *)

LEMMA GapsInit ==
    ASSUME Init PROVE GapsAsked
  <1>1. sent = <<>> /\ budget = setting.budget /\ setting \in Settings
    BY DEF Init, BufferInit
  <1>2. "request" \in Damage /\ setting.budget \in [Damage -> Nat]
    BY <1>1, SettingIs DEF Damage
  <1>3. budget["request"] <= setting.budget["request"]
    BY <1>1, <1>2
  <1>4. Bunches = {}
    BY <1>1 DEF Bunches
  <1> QED BY <1>3, <1>4 DEF GapsAsked

LEMMA GapsKept ==
    ASSUME GapsAsked, lost \in SUBSET Bunches, UNCHANGED <<setting, lost, seen>>,
           budget'["request"] = budget["request"],
           \A m \in Bunches : InBuffer(m)' => InBuffer(m),
           \A i \in 1..Len(requestNet) : \E k \in 1..Len(requestNet') :
               requestNet'[k] = requestNet[i]
    PROVE  GapsAsked'
  <1>1. ASSUME budget["request"] = setting.budget["request"], NEW m \in lost, m < seen, InBuffer(m)'
        PROVE  \E i \in 1..Len(requestNet') : /\ requestNet'[i].of = m
                                              /\ requestNet'[i].indices = AllMissing
    <2>1. m \in Bunches /\ InBuffer(m)
      BY <1>1
    <2>2. PICK i \in 1..Len(requestNet) : /\ requestNet[i].of = m
                                          /\ requestNet[i].indices = AllMissing
      BY <1>1, <2>1 DEF GapsAsked
    <2> QED BY <2>2
  <1>2. budget'["request"] <= setting'.budget["request"]
    <2>1. budget["request"] <= setting.budget["request"]
      BY DEF GapsAsked
    <2>2. setting' = setting /\ budget'["request"] = budget["request"]
      OBVIOUS
    <2> QED BY <2>1, <2>2, Zenon
  <1>3. ASSUME budget'["request"] = setting'.budget["request"], NEW m \in Bunches', m \in lost',
               m < seen', InBuffer(m)'
        PROVE  \E i \in 1..Len(requestNet') : /\ requestNet'[i].of = m
                                              /\ requestNet'[i].indices = AllMissing
    <2>1. budget["request"] = setting.budget["request"] /\ m \in lost /\ m < seen
      BY <1>3
    <2> QED BY <1>1, <1>3, <2>1
  <1> QED BY <1>2, <1>3 DEF GapsAsked

LEMMA GapsHeader ==
    ASSUME Shapes, Numbers, NoReuse, GapsAsked, air # <<>>, NEW n, n = Head(air).n,
           NEW more \in Seq(Request), GotHeader(n, more),
           budget'["request"] = budget["request"]
    PROVE  GapsAsked'
  <1>1. PICK g : g = GapRequests(n, sent[n].seq)
    OBVIOUS
  <1>2. /\ UNCHANGED <<setting, sent, buffer, lost>> /\ seen' = n
        /\ requestNet' = requestNet \o g \o more
    BY <1>1 DEF GotHeader, arbVars
  <1>3. /\ g \in Seq(Request) /\ Len(g) = n - 1 - seen /\ seen < n /\ n \in Bunches
        /\ seen \in Nat
        /\ \A i \in 1..Len(g) : g[i].of = seen + i /\ g[i].indices = AllMissing
    BY <1>1, GapOf DEF GapIs
  <1>4. requestNet \in Seq(Request)
    BY DEF Shapes
  <1>5. PICK u : u = requestNet \o g
    OBVIOUS
  <1>6. /\ u \in Seq(Request) /\ Len(u) = Len(requestNet) + Len(g)
        /\ \A i \in 1..Len(requestNet) : u[i] = requestNet[i]
        /\ \A i \in 1..Len(g) : u[Len(requestNet) + i] = g[i]
    <2> DEFINE c == requestNet \o g
    <2>1. /\ c \in Seq(Request) /\ Len(c) = Len(requestNet) + Len(g)
          /\ \A i \in 1..Len(requestNet) : c[i] = requestNet[i]
          /\ \A i \in 1..Len(g) : c[Len(requestNet) + i] = g[i]
      <3> DEFINE S == Request
      <3>1. g \in Seq(S) /\ requestNet \in Seq(S)
        BY <1>3, <1>4
      <3> HIDE DEF S
      <3>2. /\ c \in Seq(S) /\ Len(c) = Len(requestNet) + Len(g)
            /\ \A i \in 1..Len(requestNet) : c[i] = requestNet[i]
            /\ \A i \in 1..Len(g) : c[Len(requestNet) + i] = g[i]
        BY <3>1, ConcatIs
      <3> QED BY <3>2 DEF S
    <2>2. u = c
      BY <1>5
    <2> HIDE DEF c
    <2> QED BY <2>1, <2>2, Zenon
  <1>7. /\ Len(requestNet') = Len(u) + Len(more) /\ Len(more) \in Nat
        /\ \A i \in 1..Len(u) : requestNet'[i] = u[i]
    BY <1>2, <1>5, <1>6, ConcatIs
  <1>8. \A i \in 1..Len(u) : i \in 1..Len(requestNet')
    BY <1>6, <1>7
  <1>9. Bunches' = Bunches
    BY <1>2 DEF Bunches
  <1> SUFFICES ASSUME budget["request"] = setting.budget["request"], NEW m \in Bunches,
                      m \in lost, m < n, InBuffer(m)'
               PROVE  \E i \in 1..Len(requestNet') : /\ requestNet'[i].of = m
                                                     /\ requestNet'[i].indices = AllMissing
    <2>1. budget'["request"] = budget["request"] /\ setting' = setting /\ lost' = lost
          /\ seen' = n
      BY <1>2
    <2>2. budget["request"] <= setting.budget["request"]
      BY DEF GapsAsked
    <2> QED BY <1>9, <2>1, <2>2, Zenon DEF GapsAsked
  <1>10. InBuffer(m) /\ m \in Int /\ m # seen /\ n \in Int
    BY <1>2, <1>3, SMTT(60) DEF InBuffer, Bunches, Numbers
  <1>11. CASE m < seen
    <2>1. PICK i \in 1..Len(requestNet) : /\ requestNet[i].of = m
                                          /\ requestNet[i].indices = AllMissing
      BY <1>10, <1>11 DEF GapsAsked
    <2>2. Len(requestNet) \in Nat /\ Len(g) \in Nat
      BY <1>3, <1>4
    <2>3. i \in 1..Len(u)
      BY <1>6, <2>2
    <2>4. requestNet'[i] = requestNet[i] /\ i \in 1..Len(requestNet')
      BY <1>6, <1>7, <1>8, <2>3
    <2> QED BY <2>1, <2>4
  <1>12. CASE m > seen
    <2>1. PICK k : k = m - seen
      OBVIOUS
    <2>2. k \in 1..Len(g) /\ k \in Int
      BY <1>3, <1>10, <1>12, <2>1
    <2>3. g[k].of = m /\ g[k].indices = AllMissing
      <3>1. g[k].of = seen + k /\ g[k].indices = AllMissing
        BY <1>3, <2>2
      <3> QED BY <1>3, <1>10, <2>1, <3>1
    <2>4. Len(requestNet) + k \in 1..Len(u)
      <3>1. Len(requestNet) \in Nat /\ Len(g) \in Nat
        BY <1>3, <1>4
      <3> QED BY <1>6, <2>2, <3>1
    <2>5. /\ requestNet'[Len(requestNet) + k] = g[k]
          /\ Len(requestNet) + k \in 1..Len(requestNet')
      BY <1>6, <1>7, <1>8, <2>2, <2>4
    <2> QED BY <2>3, <2>5
  <1> QED BY <1>3, <1>10, <1>11, <1>12

LEMMA GapsRequest ==
    ASSUME Shapes, Numbers, Requests, NoReuse, GapsAsked, RequestArrives PROVE GapsAsked'
  <1>0. PICK r : r = Head(requestNet)
    OBVIOUS
  <1>01. PICK j : j = AskedFor(r.seq, r.indices)
    OBVIOUS
  <1>1. /\ requestNet # <<>> /\ requestNet' = Tail(requestNet)
        /\ UNCHANGED <<setting, sent, lost, seen, budget>>
    BY DEF RequestArrives, history
  <1>2. /\ \A n : InBuffer(n)' => InBuffer(n)
        /\ \/ r.indices # {} => j = 0
           \/ \E n \in Bunches : j # 0 /\ n = buffer[j].n /\ ~InBuffer(n)'
    BY <1>0, <1>01, RequestStep DEF Numbers
  <1>3. requestNet \in Seq(Request)
    BY DEF Shapes
  <1>4. /\ Len(requestNet) \in Nat /\ Len(requestNet') = Len(requestNet) - 1
        /\ \A i \in 1..(Len(requestNet) - 1) : requestNet'[i] = requestNet[i + 1]
        /\ r = requestNet[1] /\ 1 \in 1..Len(requestNet)
    BY <1>0, <1>1, <1>3, TailIs
  <1>5. Bunches' = Bunches
    BY <1>1 DEF Bunches
  <1> SUFFICES ASSUME budget["request"] = setting.budget["request"], NEW m \in Bunches,
                      m \in lost, m < seen, InBuffer(m)'
               PROVE  \E i \in 1..Len(requestNet') : /\ requestNet'[i].of = m
                                                     /\ requestNet'[i].indices = AllMissing
    BY <1>1, <1>5 DEF GapsAsked
  <1>6. InBuffer(m)
    BY <1>2
  <1>7. PICK i \in 1..Len(requestNet) : /\ requestNet[i].of = m
                                        /\ requestNet[i].indices = AllMissing
    BY <1>6 DEF GapsAsked
  <1>8. CASE i = 1
    <2>1. r.of = m /\ r.indices = AllMissing /\ r.indices # {}
      BY <1>4, <1>7, <1>8 DEF AllMissing
    <2>2. r.seq = sent[m].seq
      BY <1>4, <2>1 DEF Requests, Sound
    <2>3. j # 0
      <3>1. PICK k \in 1..Len(buffer) : buffer[k].n = m
        BY <1>6 DEF InBuffer
      <3>2. buffer \in Seq([n : 1..Len(sent), age : 0..Top])
        BY DEF Shapes, Entry, Bunches
      <3>3. j = 0 => \A l \in 1..Len(buffer) : sent[buffer[l].n].seq # r.seq
        BY <1>01, <2>1, <3>2, AskedForIs
      <3> QED BY <2>2, <3>1, <3>3
    <2>4. buffer[j].n = m
      BY <1>01, <1>4, <2>1, <2>3, FoundIsOf
    <2>5. \E n \in Bunches : j # 0 /\ n = buffer[j].n /\ ~InBuffer(n)'
      BY <1>2, <2>1, <2>3
    <2>6. PICK n \in Bunches : n = buffer[j].n /\ ~InBuffer(n)'
      BY <2>5
    <2>7. n = m
      BY <2>4, <2>6
    <2> QED BY <2>6, <2>7
  <1>9. CASE i # 1
    <2>1. PICK k : k = i - 1
      OBVIOUS
    <2>2. k \in 1..(Len(requestNet) - 1) /\ k + 1 = i /\ k \in 1..Len(requestNet')
      BY <1>4, <1>9, <2>1
    <2>3. requestNet'[k] = requestNet[i]
      BY <1>4, <2>2
    <2> QED BY <1>7, <2>2, <2>3
  <1> QED BY <1>8, <1>9

LEMMA GapsStep ==
    ASSUME Shapes, Numbers, Requests, NoReuse, GapsAsked, [Next]_vars PROVE GapsAsked'
  <1>00. lost \in SUBSET Bunches /\ budget \in [Damage -> Nat] /\ seen \in Int
    BY DEF Shapes
  <1>01. "request" \in Damage /\ "empty" \in Damage /\ "lost" \in Damage /\ "hash" \in Damage
    BY DEF Damage
  <1>0. ASSUME UNCHANGED <<setting, lost, seen, requestNet>>,
               budget'["request"] = budget["request"],
               \A m \in Bunches : InBuffer(m)' => InBuffer(m)
        PROVE  GapsAsked'
    BY <1>00, <1>0, GapsKept
  <1>1. CASE TunArrives
    <2>1. UNCHANGED <<setting, lost, seen, requestNet, budget, buffer>>
      BY <1>1 DEF TunArrives, bufferVars, netVars, history
    <2> QED BY <1>0, <2>1 DEF InBuffer
  <1>2. CASE HitTimeslot
    <2>1. UNCHANGED <<setting, lost, seen, requestNet, budget>>
      BY <1>2, TimeslotIs
    <2>2. PICK N : N = Len(sent) + 1
      OBVIOUS
    <2>3. /\ Bunches' = Bunches \cup {N} /\ N \notin Bunches
          /\ \A m \in Bunches' : InBuffer(m)' => InBuffer(m) \/ m = N
      BY <1>2, <2>2, BunchIs
    <2>4. \A m \in Bunches : InBuffer(m)' => InBuffer(m)
      BY <2>3
    <2> QED BY <1>0, <2>1, <2>4
  <1>3. CASE RequestArrives
    BY <1>3, GapsRequest
  <1>4. CASE HashesArrive
    <2>1. UNCHANGED <<setting, lost, seen, requestNet, budget, buffer>>
      BY <1>4 DEF HashesArrive, arbVars, history
    <2> QED BY <1>0, <2>1 DEF InBuffer
  <1>5. CASE DemodGotEmpty
    <2>0. PICK n : n = Head(air).n
      OBVIOUS
    <2>1. PICK more : more = <<>>
      OBVIOUS
    <2>2. air # <<>> /\ GotHeader(n, <<>>) /\ Spend("empty", 1)
      BY <1>5, <2>0 DEF DemodGotEmpty, Arrived
    <2>3. budget'["request"] = budget["request"]
      BY <1>00, <1>01, <2>2, SpendIs
    <2>4. GotHeader(n, more) /\ more \in Seq(Request)
      <3>1. GotHeader(n, more)
        BY <2>1, <2>2, Zenon
      <3> QED BY <2>1, <3>1
    <2> QED BY <2>0, <2>2, <2>3, <2>4, GapsHeader
  <1>6. ASSUME NEW bad \in SUBSET (1..MaxWords), NEW cut \in 0..MaxWords, DemodGotPacket(bad, cut)
        PROVE  GapsAsked'
    <2>0. PICK n : n = Head(air).n
      OBVIOUS
    <2>01. PICK more : more = FoundMissing(bad, cut)
      OBVIOUS
    <2>1. /\ air # <<>> /\ GotHeader(n, more) /\ FoundList(bad, cut) \in Received
          /\ n \in Bunches /\ budget'["request"] = budget["request"]
      BY <1>6, <2>0, <2>01, PacketStep
    <2>2. \/ more = <<>>
          \/ \E b \in Waiting :
                more = <<[by |-> n, of |-> b.n, seq |-> b.seq,
                          indices |-> InvalidIdx(FoundList(bad, cut), b)]>>
      BY <2>0, <2>01, <2>1, FoundIs
    <2>3. ASSUME NEW b \in Waiting,
                 more = <<[by |-> n, of |-> b.n, seq |-> b.seq,
                           indices |-> InvalidIdx(FoundList(bad, cut), b)]>>
          PROVE  more \in Seq(Request)
      <3>1. b \in Expected
        BY <2>1, FoundIs
      <3>2. b.n \in Bunches /\ b.seq \in 0..(SeqSize - 1) /\ n \in Nat /\ b.n \in Int
        <4> HIDE DEF Hashes
        <4> QED BY <2>1, <3>1 DEF Expected, Received, List, Bunches
      <3>3. InvalidIdx(FoundList(bad, cut), b) \in SUBSET Nat
        BY DEF InvalidIdx
      <3>4. [by |-> n, of |-> b.n, seq |-> b.seq,
             indices |-> InvalidIdx(FoundList(bad, cut), b)] \in Request
        BY <3>2, <3>3 DEF Request
      <3> QED BY <2>3, <3>4
    <2>4. more \in Seq(Request)
      <3>1. CASE more = <<>>
        BY <3>1
      <3> QED BY <2>2, <2>3, <3>1
    <2> QED BY <2>0, <2>1, <2>4, GapsHeader
  <1>7. CASE AirLoses
    <2>0. PICK n : n = Head(air).n
      OBVIOUS
    <2>1. /\ air # <<>> /\ air' = Tail(air) /\ lost' = lost \cup {n} /\ Spend("lost", 1)
          /\ UNCHANGED <<setting, sent, buffer, requestNet, seen>>
      BY <1>7, <2>0 DEF AirLoses, arbVars, demodVars
    <2>2. n \in Bunches /\ n = Len(sent) - Len(air) + 1 /\ Len(air) \in Nat
      BY <2>0, <2>1, AirMoves
    <2>3. ~(n < seen)
      <3>1. seen <= Len(sent) - Len(air)
        BY DEF Numbers, Off
      <3>2. Len(sent) \in Nat
        BY DEF Shapes
      <3> QED BY <1>00, <2>2, <3>1, <3>2
    <2>4. budget'["request"] = budget["request"]
      BY <1>00, <1>01, <2>1, SpendIs
    <2>5. Bunches' = Bunches /\ \A m \in Bunches : InBuffer(m)' => InBuffer(m)
      BY <2>1 DEF InBuffer, Bunches
    <2> QED BY <2>1, <2>3, <2>4, <2>5 DEF GapsAsked
  <1>8. CASE ZmqLoses
    <2>1. UNCHANGED <<setting, sent, buffer, lost, seen>>
      BY <1>8 DEF ZmqLoses, arbVars, history
    <2>2. CASE Spend("hash", 1) /\ UNCHANGED requestNet
      <3>1. budget'["request"] = budget["request"]
        BY <1>00, <1>01, <2>2, SpendIs
      <3> QED BY <1>0, <2>1, <2>2, <3>1 DEF InBuffer
    <2>3. CASE Spend("request", 1)
      <3>1. budget'["request"] = budget["request"] - 1
        BY <1>00, <1>01, <2>3, SpendIs
      <3>2. budget["request"] <= setting.budget["request"] /\ budget["request"] \in Int
            /\ setting.budget["request"] \in Int
        <4>1. setting.budget \in [Damage -> Nat]
          BY SettingIs DEF Shapes
        <4> QED BY <1>00, <1>01, <4>1 DEF GapsAsked
      <3>3. budget'["request"] < setting.budget["request"]
        BY <3>1, <3>2
      <3>4. budget'["request"] <= setting'.budget["request"]
            /\ budget'["request"] # setting'.budget["request"]
        BY <2>1, <3>1, <3>2, <3>3
      <3> QED BY <3>4 DEF GapsAsked
    <2> QED BY <1>8, <2>2, <2>3 DEF ZmqLoses
  <1>9. CASE Second
    <2>1. UNCHANGED <<setting, lost, seen, requestNet, budget>>
      BY <1>9 DEF Second, history
    <2>2. \A m \in Bunches : InBuffer(m)' => InBuffer(m)
      BY <1>9, <2>1, OlderNumbers DEF InBuffer
    <2> QED BY <1>0, <2>1, <2>2
  <1>10. CASE UNCHANGED vars
    <2>1. UNCHANGED <<setting, lost, seen, requestNet, budget, buffer>>
      BY <1>10, Unchanged
    <2> QED BY <1>0, <2>1 DEF InBuffer
  <1> QED BY <1>1, <1>2, <1>3, <1>4, <1>5, <1>6, <1>7, <1>8, <1>9, <1>10, NextIs

-----------------------------------------------------------------------------
(* The theorems.                                                           *)

Inv == Shapes /\ Numbers /\ Chain /\ Undelivered /\ Requests /\ GapsAsked

LEMMA InvInit ==
    ASSUME Init PROVE Inv
  BY ShapesInit, NumbersInit, ChainInit, UndeliveredInit, RequestsInit, GapsInit DEF Inv

LEMMA InvStep ==
    ASSUME Inv, NoReuse, [Next]_vars PROVE Inv'
  <1>1. Shapes /\ Numbers /\ Chain /\ Undelivered /\ Requests /\ GapsAsked
    BY DEF Inv
  <1>2. Shapes'
    BY <1>1, ShapesStep
  <1>3. Numbers'
    BY <1>1, NumbersStep
  <1>4. Chain'
    BY <1>1, ChainStep
  <1>5. Undelivered'
    BY <1>1, UndeliveredStep
  <1>6. Requests'
    BY <1>1, <1>5, RequestsStep
  <1>7. GapsAsked'
    BY <1>1, GapsStep
  <1> QED BY <1>2, <1>3, <1>4, <1>5, <1>6, <1>7 DEF Inv

LEMMA InvNeverTwice ==
    ASSUME Inv PROVE NeverTwice
  <1>1. \A p \in Packet : written[p] <= 1
    BY DEF Inv, Undelivered
  <1> QED BY <1>1 DEF written, NeverTwice

LEMMA ToSetIs ==
    ASSUME NEW S, NEW s \in Seq(S), NEW x \in ToSet(s)
    PROVE  \E i \in 1..Len(s) : s[i] = x
  BY DEF ToSet

LEMMA InvFoundTheData ==
    ASSUME Inv, NoReuse PROVE FoundTheData
  <1>1. Shapes /\ Requests /\ requestNet \in Seq(Request)
    BY DEF Inv, Shapes
  <1> SUFFICES ASSUME NEW r \in ToSet(requestNet), AskedFor(r.seq, r.indices) # 0
               PROVE  buffer[AskedFor(r.seq, r.indices)].n = r.of
    BY DEF FoundTheData
  <1>2. PICK i \in 1..Len(requestNet) : requestNet[i] = r
    BY <1>1, ToSetIs
  <1>3. PICK j : j = AskedFor(r.seq, r.indices)
    OBVIOUS
  <1>4. buffer[j].n = r.of
    BY <1>1, <1>2, <1>3, FoundIsOf
  <1> QED BY <1>3, <1>4

LEMMA InvOnlyMissing ==
    ASSUME Inv, NoReuse PROVE OnlyMissingAreAsked
  <1>1. Shapes /\ Requests /\ Chain /\ requestNet \in Seq(Request)
    BY DEF Inv, Shapes
  <1> SUFFICES ASSUME NEW p \in Asked \ beyond PROVE delivered[p] = 0
    BY DEF OnlyMissingAreAsked
  <1>0. PICK r, j :
            /\ r \in ToSet(requestNet)
            /\ j = AskedFor(r.seq, r.indices) /\ j # 0
            /\ p \in ToSet(PacketsOf(buffer[j].n, r.indices))
    <2> DEFINE at(r) == AskedFor(r.seq, r.indices)
               found(r) == IF at(r) = 0 THEN {} ELSE ToSet(PacketsOf(buffer[at(r)].n, r.indices))
    <2>1. Asked = UNION {found(r) : r \in ToSet(requestNet)}
      BY DEF Asked
    <2> HIDE DEF found
    <2>2. PICK r \in ToSet(requestNet) : p \in found(r)
      BY <2>1
    <2>3. at(r) # 0 /\ p \in ToSet(PacketsOf(buffer[at(r)].n, r.indices))
      BY <2>2 DEF found
    <2> QED BY <2>3
  <1>2. PICK i \in 1..Len(requestNet) : requestNet[i] = r
    BY <1>0, <1>1, ToSetIs
  <1>3. PICK n : n = r.of
    OBVIOUS
  <1>4. buffer[j].n = n /\ n \in Bunches /\ InBuffer(n)
    BY <1>0, <1>1, <1>2, <1>3, FoundIsOf
  <1>5. sent[n].packets \in Seq(Packet) /\ Distinct(sent[n].packets)
    <2>1. sent[n] \in Bunch
      BY <1>1, <1>4, BunchAt
    <2> QED BY <1>1, <1>4, <2>1 DEF Bunch, Chain
  <1>6. PICK Q : Q = PacketsOf(n, r.indices)
    OBVIOUS
  <1>7. /\ Q \in Seq(Packet)
        /\ \A k \in 1..Len(Q) : \E l \in 1..Len(sent[n].packets) :
               sent[n].packets[l] = Q[k] /\ (r.indices = AllMissing \/ l \in r.indices)
    BY <1>5, <1>6, AskedPackets
  <1>8. p \in ToSet(Q)
    BY <1>0, <1>4, <1>6
  <1>9. PICK k \in 1..Len(Q) : Q[k] = p
    BY <1>7, <1>8, ToSetIs
  <1>10. PICK l \in 1..Len(sent[n].packets) :
             sent[n].packets[l] = p /\ (r.indices = AllMissing \/ l \in r.indices)
    BY <1>7, <1>9
  <1>11. Sound(r)
    BY <1>1, <1>2 DEF Requests
  <1>12. written[p] = 0
    BY <1>3, <1>4, <1>10, <1>11 DEF Sound, Asks
  <1>13. p \in Packet
    BY <1>5, <1>10
  <1> QED BY <1>12, <1>13 DEF written

LEMMA InvGapIsAsked ==
    ASSUME Inv, NoReuse PROVE GapIsAsked
  <1>1. Shapes /\ Requests /\ Numbers /\ GapsAsked /\ requestNet \in Seq(Request)
    BY DEF Inv, Shapes
  <1> SUFFICES ASSUME budget["request"] = setting.budget["request"],
                      NEW e \in ToSet(buffer), e.n \in lost, e.n < seen
               PROVE  \E r \in ToSet(requestNet) :
                          /\ r.indices = AllMissing
                          /\ AskedFor(r.seq, r.indices) # 0
                          /\ buffer[AskedFor(r.seq, r.indices)] = e
    BY DEF GapIsAsked
  <1>2. PICK m : m = e.n
    OBVIOUS
  <1>3. buffer \in Seq(Entry) /\ lost \in SUBSET Bunches /\ Len(buffer) \in Nat
    BY <1>1 DEF Shapes
  <1>4. PICK x \in 1..Len(buffer) : buffer[x] = e
    BY <1>3, ToSetIs
  <1>5. m \in Bunches /\ InBuffer(m)
    BY <1>2, <1>3, <1>4 DEF InBuffer
  <1>6. PICK i \in 1..Len(requestNet) : requestNet[i].of = m /\ requestNet[i].indices = AllMissing
    BY <1>1, <1>2, <1>5 DEF GapsAsked
  <1>7. PICK r : r = requestNet[i]
    OBVIOUS
  <1>8. r \in ToSet(requestNet) /\ r.indices = AllMissing /\ r.of = m
    BY <1>1, <1>6, <1>7 DEF ToSet
  <1>9. r.seq = sent[m].seq
    BY <1>1, <1>7, <1>8 DEF Requests, Sound
  <1>10. PICK j : j = AskedFor(r.seq, r.indices)
    OBVIOUS
  <1>11. j # 0
    <2>1. buffer \in Seq([n : 1..Len(sent), age : 0..Top])
      BY <1>3 DEF Entry, Bunches
    <2>2. j = 0 => \A l \in 1..Len(buffer) : sent[buffer[l].n].seq # r.seq
      BY <1>8, <1>10, <2>1, AskedForIs
    <2> QED BY <1>2, <1>4, <1>9, <2>2
  <1>12. j \in 1..Len(buffer) /\ buffer[j].n = m
    BY <1>1, <1>7, <1>8, <1>10, <1>11, FoundIsOf
  <1>13. j = x
    <2>1. Increasing(buffer)
      BY <1>1 DEF Numbers
    <2>2. j \in Int /\ x \in Int /\ buffer[j].n = buffer[x].n /\ m \in Int
      BY <1>2, <1>3, <1>4, <1>5, <1>12 DEF Bunches
    <2>3. ~(j < x) /\ ~(x < j)
      BY <1>2, <1>3, <1>4, <1>12, <2>1, <2>2 DEF Increasing
    <2> QED BY <2>2, <2>3
  <1> QED BY <1>4, <1>8, <1>10, <1>11, <1>13

\* No packet is written to the receiver's tun device twice (demodGotPacket,
\* scheduleRetransmit), but for those found behind a jump of handleRecovery, as
\* long as the numbers of what is remembered differ.
THEOREM DeliveredOnce == Spec /\ []NoReuse => []NeverTwice
  <1>1. Init => Inv
    BY InvInit
  <1>2. Inv /\ NoReuse /\ [Next]_vars => Inv'
    BY InvStep
  <1>3. Inv => NeverTwice
    BY InvNeverTwice
  <1> QED BY <1>1, <1>2, <1>3, PTL DEF Spec

\* What a request finds in the retransmit buffer was not delivered, but for
\* packets found behind a jump of handleRecovery.
THEOREM MissingOnlyAsked == Spec /\ []NoReuse => []OnlyMissingAreAsked
  <1>1. Init => Inv
    BY InvInit
  <1>2. Inv /\ NoReuse /\ [Next]_vars => Inv'
    BY InvStep
  <1>3. Inv /\ NoReuse => OnlyMissingAreAsked
    BY InvOnlyMissing
  <1> QED BY <1>1, <1>2, <1>3, PTL DEF Spec

\* scheduleRetransmit finds the bunch the request is about.
THEOREM DataFound == Spec /\ []NoReuse => []FoundTheData
  <1>1. Init => Inv
    BY InvInit
  <1>2. Inv /\ NoReuse /\ [Next]_vars => Inv'
    BY InvStep
  <1>3. Inv /\ NoReuse => FoundTheData
    BY InvFoundTheData
  <1> QED BY <1>1, <1>2, <1>3, PTL DEF Spec

\* A lost bunch that was passed over and is still in the retransmit buffer is
\* asked for, unless zmq lost a request.
THEOREM GapAsked == Spec /\ []NoReuse => []GapIsAsked
  <1>1. Init => Inv
    BY InvInit
  <1>2. Inv /\ NoReuse /\ [Next]_vars => Inv'
    BY InvStep
  <1>3. Inv /\ NoReuse => GapIsAsked
    BY InvGapIsAsked
  <1> QED BY <1>1, <1>2, <1>3, PTL DEF Spec

-----------------------------------------------------------------------------
(* The first lap of the sequence numbers relies on nothing.                *)

FirstLap == Len(sent) <= SeqSize

LEMMA FirstLapNumbers ==
    ASSUME Inv, FirstLap PROVE NoReuse
  <1>1. Shapes /\ Requests /\ Numbers /\ Len(sent) \in Nat /\ seen \in Nat
    BY DEF Inv, Shapes
  <1>2. Remembered \subseteq Bunches
    <2>1. \A i \in 1..Len(buffer) : buffer[i].n \in Bunches
      <3>1. buffer \in Seq(Entry)
        BY <1>1 DEF Shapes
      <3>2. \A i \in 1..Len(buffer) : buffer[i] \in Entry
        BY <3>1
      <3> QED BY <3>2 DEF Entry
    <2>2. \A i \in 1..Len(air) : air[i].n \in Bunches
      <3>1. air \in Seq(Entry)
        BY <1>1 DEF Shapes
      <3>2. \A i \in 1..Len(air) : air[i] \in Entry
        BY <3>1
      <3> QED BY <3>2 DEF Entry
    <2>3. \A i \in 1..Len(requestNet) : requestNet[i].of \in Bunches
      BY <1>1 DEF Requests, Sound
    <2>4. \A i \in 1..Len(expected) : expected[i].n \in Bunches
      <3> SUFFICES ASSUME NEW i \in 1..Len(expected) PROVE expected[i].n \in Bunches
        OBVIOUS
      <3>1. expected \in Seq(Expected)
        BY <1>1 DEF Shapes
      <3>2. expected[i] \in Expected
        BY <3>1
      <3>3. expected[i] \in List
        BY <3>2 DEF Expected, Received
      <3> HIDE DEF Hashes
      <3> QED BY <3>3 DEF List
    <2> QED BY <2>1, <2>2, <2>3, <2>4 DEF Remembered
  <1>3. \A m \in Bunches : sent[m].seq = m - 1
    <2> SUFFICES ASSUME NEW m \in Bunches PROVE sent[m].seq = m - 1
      OBVIOUS
    <2>1. m - 1 \in Nat /\ m - 1 < SeqSize
      BY <1>1, SeqSizeIs DEF Bunches, FirstLap
    <2>2. sent[m].seq = (m - 1) % SeqSize
      BY <1>1 DEF Numbers
    <2>3. PICK k : k = m - 1
      OBVIOUS
    <2>4. k % SeqSize = k
      BY <2>1, <2>3, SeqSizeIs, ModSmall
    <2> QED BY <2>2, <2>3, <2>4
  <1>4. \A m, n \in Remembered : sent[m].seq = sent[n].seq => m = n
    <2> SUFFICES ASSUME NEW m \in Remembered, NEW n \in Remembered, sent[m].seq = sent[n].seq
                 PROVE  m = n
      OBVIOUS
    <2>1. m \in Bunches /\ n \in Bunches /\ m - 1 = n - 1
      BY <1>2, <1>3
    <2> QED BY <2>1 DEF Bunches
  <1>5. air # <<>> => Len(sent) - Len(air) - seen < SeqSize
    <2>1. air # <<>> => Len(air) \in Nat /\ Len(air) >= 1
      <3>1. air \in Seq(Entry)
        BY <1>1 DEF Shapes
      <3> QED BY <3>1, TailIs
    <2> QED BY <1>1, <2>1, SeqSizeIs DEF FirstLap
  <1> QED BY <1>4, <1>5 DEF NoReuse, FirstLap

\* The schedule stays what it was, and bunches are only added.
LEMMA Onwards ==
    ASSUME Shapes, [Next]_vars PROVE setting' = setting /\ Len(sent) <= Len(sent')
  <1>0. Len(sent) \in Nat
    BY DEF Shapes
  <1>1. CASE HitTimeslot
    <2>1. PICK P \in Seq(Packet), a \in 0..Len(need_retransmit), c \in 0..Len(tun) :
              Scheduled(P, a, c)
      BY <1>1, ScheduledIs
    <2>2. a \in Nat /\ c \in Nat /\ setting' = setting
      <3>1. setting' = setting
        BY <1>1, TimeslotIs
      <3>2. Len(need_retransmit) \in Nat /\ Len(tun) \in Nat
        BY DEF Shapes
      <3> QED BY <3>1, <3>2
    <2>3. Len(sent') = Len(sent) + 1
      BY <2>1, <2>2, SentGrows
    <2> QED BY <1>0, <2>2, <2>3
  <1>2. CASE UNCHANGED <<setting, sent>>
    BY <1>0, <1>2
  <1>3. CASE TunArrives
    BY <1>2, <1>3 DEF TunArrives, bufferVars
  <1>4. CASE RequestArrives
    BY <1>2, <1>4 DEF RequestArrives
  <1>5. CASE HashesArrive
    BY <1>2, <1>5 DEF HashesArrive, arbVars
  <1>6. CASE DemodGotEmpty
    BY <1>2, <1>6 DEF DemodGotEmpty, GotHeader, arbVars
  <1>7. ASSUME NEW bad \in SUBSET (1..MaxWords), NEW cut \in 0..MaxWords,
               DemodGotPacket(bad, cut)
        PROVE  setting' = setting /\ Len(sent) <= Len(sent')
    <2>1. GotHeader(Head(air).n, FoundMissing(bad, cut))
      BY <1>7, PacketStep
    <2> QED BY <1>2, <2>1 DEF GotHeader, arbVars
  <1>8. CASE AirLoses
    BY <1>2, <1>8 DEF AirLoses, arbVars
  <1>9. CASE ZmqLoses
    BY <1>2, <1>9 DEF ZmqLoses, arbVars
  <1>10. CASE Second
    BY <1>2, <1>10 DEF Second
  <1>11. CASE UNCHANGED vars
    BY <1>2, <1>11, Unchanged
  <1> QED BY <1>1, <1>3, <1>4, <1>5, <1>6, <1>7, <1>8, <1>9, <1>10, <1>11, NextIs

LEMMA FirstLapBefore ==
    ASSUME Shapes, [Next]_vars, FirstLap' PROVE FirstLap
  <1>1. setting' = setting /\ Len(sent) <= Len(sent')
    BY Onwards
  <1>2. Len(sent) \in Nat /\ Len(sent') \in Nat
    <2>1. Shapes'
      BY ShapesStep
    <2>2. sent \in Seq(Bunch) /\ sent' \in Seq(Bunch')
      BY <2>1 DEF Shapes
    <2> QED BY <2>2
  <1> QED BY <1>1, <1>2, SeqSizeIs DEF FirstLap

\* Until the sequence numbers come round, nothing is delivered twice, what a
\* request finds is what it is about and was not delivered (both but for packets
\* found behind a jump), and every gap is asked for: no assumption about the
\* behaviour is left.
THEOREM SoundInTheFirstLap ==
    Spec => [](FirstLap => /\ NeverTwice /\ OnlyMissingAreAsked
                           /\ FoundTheData /\ GapIsAsked)
  <1> DEFINE J == Shapes /\ (FirstLap => Inv)
  <1>1. Init => J
    BY ShapesInit, InvInit
  <1>2. J /\ [Next]_vars => J'
    <2> SUFFICES ASSUME J, [Next]_vars PROVE J'
      OBVIOUS
    <2>1. Shapes'
      BY ShapesStep
    <2>2. ASSUME FirstLap' PROVE Inv'
      <3>1. FirstLap
        BY <2>2, FirstLapBefore
      <3>2. Inv
        BY <3>1
      <3> QED BY <3>1, <3>2, FirstLapNumbers, InvStep
    <2> QED BY <2>1, <2>2
  <1>3. J => (FirstLap => NeverTwice /\ OnlyMissingAreAsked /\ FoundTheData /\ GapIsAsked)
    <2> SUFFICES ASSUME Inv, FirstLap
                 PROVE  NeverTwice /\ OnlyMissingAreAsked /\ FoundTheData /\ GapIsAsked
      OBVIOUS
    <2>1. NoReuse
      BY FirstLapNumbers
    <2> QED BY <2>1, InvNeverTwice, InvOnlyMissing, InvFoundTheData, InvGapIsAsked
  <1> HIDE DEF J
  <1> QED BY <1>1, <1>2, <1>3, PTL DEF Spec

-----------------------------------------------------------------------------
(* The number in a request is that of the bunch its packets were damaged in. *)
(* A list of another bunch matches only if it shares a packet, so the packet *)
(* was sent again meanwhile.  That takes the time of two flights, longer     *)
(* than a list is kept.                                                      *)

Lower(x, y) == IF x <= y THEN x ELSE y

\* Messages take less than a second, and two flights longer than a list is
\* kept; or bunches are too small for the loose comparison.
Punctual == MaxWords <= 3 \/ (setting.prompt /\ 2 * Flight > HashKeep)

\* The hashes of bunch n were announced x seconds ago or more.
Told(n, x) ==
    /\ \A i \in 1..Len(expected) : expected[i].n = n => x <= expected[i].age
    /\ \A i \in 1..Len(hashNet) : hashNet[i] = n => x <= 0

\* They were when a later bunch was sent; a flight has passed when a request
\* for the bunch is on its way, when its packets wait to be sent again, and
\* when they are in a later bunch.
AirAges ==
    \A k \in 1..Len(air), n \in Bunches : n <= air[k].n => Told(n, air[k].age)
RequestAges == \A i \in 1..Len(requestNet) : Told(requestNet[i].of, Flight)
NeedAges == \A n \in Bunches, p \in Packet : Has(n, p) /\ InNeed(p) => Told(n, Flight)
AgainAges ==
    \A n, m \in Bunches, p \in Packet : n < m /\ Has(n, p) /\ Has(m, p) =>
        /\ Told(n, Flight)
        /\ \A k \in 1..Len(air) :
               air[k].n = m => Told(n, Lower(Top, Flight + air[k].age))

Ages == AirAges /\ RequestAges /\ NeedAges /\ AgainAges
PromptAges == setting.prompt => Ages

LEMMA ExpectedIs ==
    ASSUME Shapes, NEW i \in 1..Len(expected)
    PROVE  expected[i].n \in Bunches /\ expected[i].age \in 0..Top
  <1>1. expected \in Seq(Expected)
    BY DEF Shapes
  <1>2. expected[i] \in List
    BY <1>1 DEF Expected, Received
  <1> HIDE DEF Hashes
  <1> QED BY <1>2 DEF List

LEMMA AirIs ==
    ASSUME Shapes, NEW k \in 1..Len(air)
    PROVE  air[k].n \in Bunches /\ air[k].n \in Nat /\ air[k].age \in 0..Top
  <1>1. air \in Seq(Entry)
    BY DEF Shapes
  <1>2. air[k] \in Entry
    BY <1>1
  <1> QED BY <1>2 DEF Entry, Bunches

LEMMA ToldLess ==
    ASSUME Shapes, NEW n, NEW x \in Nat, NEW y \in Nat, y <= x, Told(n, x)
    PROVE  Told(n, y)
  <1>1. \A i \in 1..Len(expected) : expected[i].age \in Int
    BY ExpectedIs, TopIs
  <1> QED BY <1>1 DEF Told

LEMMA ToldNow ==
    ASSUME Shapes, NEW n PROVE Told(n, 0)
  <1>1. \A i \in 1..Len(expected) : expected[i].age >= 0
    BY ExpectedIs, TopIs
  <1> QED BY <1>1 DEF Told

\* Lists that are compared or lost, and nothing announced.
LEMMA ToldFewer ==
    ASSUME NEW n, NEW x, Told(n, x),
           \A i \in 1..Len(expected') : \E k \in 1..Len(expected) : expected'[i] = expected[k],
           \A i \in 1..Len(hashNet') : \E k \in 1..Len(hashNet) : hashNet'[i] = hashNet[k]
    PROVE  Told(n, x)'
  BY SMTT(60) DEF Told

LEMMA ToldSame ==
    ASSUME NEW n, NEW x, Told(n, x), expected' = expected,
           \/ hashNet' = hashNet
           \/ hashNet # <<>> /\ hashNet' = Tail(hashNet)
           \/ \E N : hashNet' = Append(hashNet, N) /\ n # N,
           hashNet \in Seq(Bunches)
    PROVE  Told(n, x)'
  <1>1. CASE hashNet' = hashNet
    BY <1>1 DEF Told
  <1>2. CASE hashNet # <<>> /\ hashNet' = Tail(hashNet)
    <2>1. /\ Len(hashNet) \in Nat /\ Len(hashNet') = Len(hashNet) - 1
          /\ \A i \in 1..(Len(hashNet) - 1) : hashNet'[i] = hashNet[i + 1]
      BY <1>2, TailIs
    <2>2. \A i \in 1..Len(hashNet') : i + 1 \in 1..Len(hashNet) /\ hashNet'[i] = hashNet[i + 1]
      BY <2>1
    <2> QED BY <2>2 DEF Told
  <1>3. ASSUME NEW N, hashNet' = Append(hashNet, N), n # N PROVE Told(n, x)'
    <2>1. \A i \in 1..Len(hashNet') : \/ i \in 1..Len(hashNet) /\ hashNet'[i] = hashNet[i]
                                      \/ hashNet'[i] = N
      BY <1>3
    <2> QED BY <1>3, <2>1 DEF Told
  <1> QED BY <1>1, <1>2, <1>3

\* A list that arrives has been on its way for less than a second.
LEMMA ToldHashes ==
    ASSUME Shapes, HashesArrive, NEW n, NEW x, Told(n, x) PROVE Told(n, x)'
  <1> DEFINE h == Head(hashNet)
             l == [n |-> h, seq |-> sent[h].seq, hashes |-> sent[h].packets, age |-> 0]
             W == Waiting \cup {l}
             exp == Append(expected, l)
             st == GetStatus(exp, received)
  <1>1. /\ hashNet # <<>> /\ hashNet' = Tail(hashNet)
        /\ expected' = st.expected
    BY DEF HashesArrive, GotHashListFromPeer
  <1>2. hashNet \in Seq(Bunches) /\ expected \in Seq(Expected) /\ received \in Seq(Received)
    BY DEF Shapes
  <1>3. /\ Len(hashNet) \in Nat /\ Len(hashNet) >= 1 /\ Len(hashNet') = Len(hashNet) - 1
        /\ \A i \in 1..(Len(hashNet) - 1) : hashNet'[i] = hashNet[i + 1]
        /\ h = hashNet[1]
    BY <1>1, <1>2, TailIs
  <1>4. l.n = h /\ l.age = 0
    OBVIOUS
  <1> HIDE DEF l, h
  <1> HIDE DEF W
  <1>5. exp \in Seq(W)
    <2>1. Waiting \subseteq W /\ l \in W
      BY DEF W
    <2>2. expected \in Seq(Waiting)
      BY <1>2 DEF Waiting
    <2>3. expected \in Seq(W)
      BY <2>1, <2>2, SeqMore
    <2> QED BY <2>1, <2>3
  <1> HIDE DEF exp
  <1>6. PICK F \in SUBSET W : st \in Statuses(F, Received)
    BY <1>2, <1>5, GetStatusIs
  <1> HIDE DEF st
  <1>7. expected' \in Seq(F)
    BY <1>1, <1>6 DEF Statuses
  <1>8. ASSUME NEW i \in 1..Len(expected'), expected'[i].n = n PROVE x <= expected'[i].age
    <2>1. expected'[i] \in W
      BY <1>6, <1>7
    <2>2. CASE expected'[i] \in Waiting
      BY <1>8, <2>2 DEF Waiting, Told
    <2>3. CASE expected'[i] = l
      BY <1>3, <1>4, <1>8, <2>3 DEF Told
    <2> QED BY <2>1, <2>2, <2>3 DEF W
  <1>9. \A i \in 1..Len(hashNet') : i + 1 \in 1..Len(hashNet) /\ hashNet'[i] = hashNet[i + 1]
    BY <1>3
  <1> QED BY <1>8, <1>9 DEF Told

\* A second later.
LEMMA OlderBy ==
    ASSUME NEW S, NEW s \in Seq(S), \A e \in S : e.age \in 0..Top,
           \A e \in S, x \in 0..Top :
               [e EXCEPT !.age = x].age = x /\ [e EXCEPT !.age = x].n = e.n
    PROVE  /\ Len(Older(s, Top)) = Len(s)
           /\ \A i \in 1..Len(s) : /\ Older(s, Top)[i].age = Lower(s[i].age + 1, Top)
                                   /\ Older(s, Top)[i].n = s[i].n
  <1>1. Top \in Nat /\ Len(s) \in Nat /\ DOMAIN s = 1..Len(s) /\ \A i \in 1..Len(s) : s[i] \in S
    BY TopIs
  <1> DEFINE m(i) == Min({s[i].age + 1, Top})
             o == [i \in 1..Len(s) |-> [s[i] EXCEPT !.age = m(i)]]
  <1>2. Older(s, Top) = o
    BY <1>1 DEF Older
  <1>3. Len(o) = Len(s)
    BY <1>1
  <1>4. \A i \in 1..Len(s) : m(i) \in 0..Top /\ m(i) = Lower(s[i].age + 1, Top)
    <2> TAKE i \in 1..Len(s)
    <2> DEFINE x == s[i].age + 1
    <2>1. x \in Nat /\ x \in Int /\ Top \in Int
      BY <1>1
    <2> HIDE DEF x
    <2>2. Min({x, Top}) = IF x <= Top THEN x ELSE Top
      BY <2>1, MinOfTwo
    <2>3. Min({x, Top}) \in 0..Top /\ Min({x, Top}) = Lower(x, Top)
      BY <1>1, <2>1, <2>2 DEF Lower
    <2> QED BY <2>3 DEF x
  <1> HIDE DEF m
  <1>5. \A i \in 1..Len(s) : o[i] = [s[i] EXCEPT !.age = m(i)]
    OBVIOUS
  <1> HIDE DEF o
  <1>6. ASSUME NEW i \in 1..Len(s) PROVE o[i].age = m(i) /\ o[i].n = s[i].n
    <2>1. PICK x \in 0..Top : x = m(i)
      BY <1>4
    <2>2. o[i] = [s[i] EXCEPT !.age = x] /\ s[i] \in S
      BY <1>1, <1>5, <2>1
    <2> QED BY <2>1, <2>2
  <1> QED BY <1>2, <1>3, <1>4, <1>6

LEMMA AirOlder ==
    ASSUME Shapes, Second
    PROVE  /\ Len(air') = Len(air)
           /\ \A i \in 1..Len(air) : /\ air'[i].age = Lower(air[i].age + 1, Top)
                                     /\ air'[i].n = air[i].n
  <1>1. air' = Older(air, Top) /\ air \in Seq(Entry)
    BY DEF Second, Shapes
  <1>2. /\ \A e \in Entry : e.age \in 0..Top
        /\ \A e \in Entry, x \in 0..Top :
               [e EXCEPT !.age = x].age = x /\ [e EXCEPT !.age = x].n = e.n
    BY DEF Entry
  <1> QED BY <1>1, <1>2, OlderBy

LEMMA ExpectedOlder ==
    ASSUME Shapes, Second
    PROVE  /\ Len(expected') = Len(expected)
           /\ \A i \in 1..Len(expected) : /\ expected'[i].age = Lower(expected[i].age + 1, Top)
                                          /\ expected'[i].n = expected[i].n
  <1>1. expected' = Older(expected, Top) /\ expected \in Seq(Expected)
    BY DEF Second, Shapes
  <1>2. /\ \A e \in List : e.age \in 0..Top
        /\ \A e \in List, x \in 0..Top :
               [e EXCEPT !.age = x].age = x /\ [e EXCEPT !.age = x].n = e.n
    <2> HIDE DEF Hashes
    <2> QED BY DEF List
  <1>3. /\ \A e \in Expected : e.age \in 0..Top
        /\ \A e \in Expected, x \in 0..Top :
               [e EXCEPT !.age = x].age = x /\ [e EXCEPT !.age = x].n = e.n
    BY <1>2 DEF Expected, Received
  <1> QED BY <1>1, <1>3, OlderBy

LEMMA ToldSecond ==
    ASSUME Shapes, Second, setting.prompt, NEW n, NEW x \in Nat, NEW y \in Nat,
           y <= Lower(x + 1, Top), Told(n, x)
    PROVE  Told(n, y)'
  <1>1. /\ Len(expected') = Len(expected)
        /\ \A i \in 1..Len(expected) : /\ expected'[i].age = Lower(expected[i].age + 1, Top)
                                       /\ expected'[i].n = expected[i].n
    BY ExpectedOlder
  <1>2. hashNet' = <<>> /\ Len(hashNet') = 0
    BY DEF Second
  <1>3. ASSUME NEW i \in 1..Len(expected), expected[i].n = n
        PROVE  y <= Lower(expected[i].age + 1, Top)
    <2>1. PICK a : a = expected[i].age
      OBVIOUS
    <2>2. a \in Int /\ Top \in Int /\ x <= a
      BY <1>3, <2>1, ExpectedIs, TopIs DEF Told
    <2> QED BY <2>1, <2>2 DEF Lower
  <1> QED BY <1>1, <1>2, <1>3 DEF Told

-----------------------------------------------------------------------------
(* The ages, step by step.                                                 *)

LEMMA AgesInit ==
    ASSUME Init PROVE Ages
  <1>1. sent = <<>> /\ air = <<>> /\ requestNet = <<>>
    BY DEF Init, BufferInit
  <1>2. Bunches = {} /\ Len(air) = 0 /\ Len(requestNet) = 0 /\ 1..0 = {}
    BY <1>1 DEF Bunches
  <1> QED BY <1>2 DEF Ages, AirAges, RequestAges, NeedAges, AgainAges

\* A step that neither sends a bunch nor lets time pass.
LEMMA AgesKept ==
    ASSUME Ages, UNCHANGED <<setting, sent>>, need_retransmit' = need_retransmit \/ NeedAges',
           \A n \in Bunches : \A x : Told(n, x) => Told(n, x)',
           \A k \in 1..Len(air') : \E l \in 1..Len(air) : air'[k] = air[l],
           \A i \in 1..Len(requestNet') :
               \/ \E k \in 1..Len(requestNet) : requestNet'[i] = requestNet[k]
               \/ Told(requestNet'[i].of, Flight),
           \A i \in 1..Len(requestNet) : requestNet[i].of \in Bunches,
           \A i \in 1..Len(requestNet') : requestNet'[i].of \in Bunches
    PROVE  Ages'
  <1>1. Bunches' = Bunches /\ Packet' = Packet
    BY DEF Bunches, Packet
  <1>2. \A n, p : Has(n, p)' <=> Has(n, p)
    BY DEF Has
  <1>3. AirAges'
    <2> SUFFICES ASSUME NEW k \in 1..Len(air'), NEW n \in Bunches, n <= air'[k].n
                 PROVE  Told(n, air[k].age)'
      BY <1>1 DEF AirAges
    <2>1. PICK l \in 1..Len(air) : air'[k] = air[l]
      OBVIOUS
    <2>2. Told(n, air[l].age)
      BY <2>1 DEF Ages, AirAges
    <2>3. PICK x : x = air[l].age
      OBVIOUS
    <2>4. Told(n, x)'
      BY <2>2, <2>3
    <2> QED BY <2>1, <2>3, <2>4 DEF Told
  <1>4. RequestAges'
    <2> SUFFICES ASSUME NEW i \in 1..Len(requestNet') PROVE Told(requestNet[i].of, Flight)'
      BY DEF RequestAges
    <2>1. PICK n : n = requestNet'[i].of
      OBVIOUS
    <2>2. n \in Bunches /\ Told(n, Flight)
      BY <2>1 DEF Ages, RequestAges
    <2>3. Told(n, Flight)'
      BY <2>2
    <2> QED BY <2>1, <2>3 DEF Told
  <1>5. NeedAges'
    <2>1. CASE need_retransmit' = need_retransmit
      <3>1. \A p : InNeed(p)' <=> InNeed(p)
        BY <2>1 DEF InNeed
      <3> QED BY <1>1, <1>2, <3>1 DEF Ages, NeedAges
    <2> QED BY <2>1
  <1>6. AgainAges'
    <2> SUFFICES ASSUME NEW n \in Bunches, NEW m \in Bunches, NEW p \in Packet, n < m,
                        Has(n, p), Has(m, p)
                 PROVE  /\ Told(n, Flight)'
                        /\ \A k \in 1..Len(air') :
                               air'[k].n = m => Told(n, Lower(Top, Flight + air[k].age))'
      BY <1>1, <1>2 DEF AgainAges
    <2>1. Told(n, Flight)
      BY DEF Ages, AgainAges
    <2>2. ASSUME NEW k \in 1..Len(air'), air'[k].n = m
          PROVE  Told(n, Lower(Top, Flight + air[k].age))'
      <3>1. PICK l \in 1..Len(air) : air'[k] = air[l]
        OBVIOUS
      <3>2. Told(n, Lower(Top, Flight + air[l].age))
        BY <2>2, <3>1 DEF Ages, AgainAges
      <3>3. PICK x : x = Lower(Top, Flight + air[l].age)
        OBVIOUS
      <3>4. Told(n, x)'
        BY <3>2, <3>3
      <3>5. Lower(Top, Flight + air'[k].age) = x
        BY <3>1, <3>3
      <3> QED BY <3>4, <3>5 DEF Told
    <2> QED BY <2>1, <2>2
  <1> QED BY <1>3, <1>4, <1>5, <1>6 DEF Ages

LEMMA AgesSecond ==
    ASSUME Shapes, Ages, Second, setting.prompt PROVE Ages'
  <1>1. /\ UNCHANGED <<setting, sent, need_retransmit, requestNet>>
        /\ Len(air') = Len(air)
        /\ \A k \in 1..Len(air) : /\ air'[k].age = Lower(air[k].age + 1, Top)
                                  /\ air'[k].n = air[k].n
    BY AirOlder DEF Second
  <1>2. Bunches' = Bunches /\ Packet' = Packet
    BY <1>1 DEF Bunches, Packet
  <1>3. \A n, p : (Has(n, p)' <=> Has(n, p)) /\ (InNeed(p)' <=> InNeed(p))
    BY <1>1 DEF Has, InNeed
  <1>4. Flight \in Nat /\ Top \in Nat /\ Flight < Top
    BY TopIs, RetransmitAssumption
  <1>5. ASSUME NEW n, Told(n, Flight) PROVE Told(n, Flight)'
    <2>1. Flight <= Lower(Flight + 1, Top)
      BY <1>4 DEF Lower
    <2> QED BY <1>4, <1>5, <2>1, ToldSecond
  <1>6. AirAges'
    <2> SUFFICES ASSUME NEW k \in 1..Len(air'), NEW n \in Bunches', n <= air'[k].n
                 PROVE  Told(n, air[k].age)'
      BY DEF AirAges
    <2>1. PICK x, y : x = air[k].age /\ y = air'[k].age
      OBVIOUS
    <2>2. k \in 1..Len(air) /\ n \in Bunches /\ n <= air[k].n /\ y = Lower(x + 1, Top)
      BY <1>1, <1>2, <2>1
    <2>3. Told(n, x) /\ x \in 0..Top
      BY <2>1, <2>2, AirIs DEF Ages, AirAges
    <2>4. x \in Nat /\ y \in Nat /\ y <= Lower(x + 1, Top)
      BY <1>4, <2>2, <2>3 DEF Lower
    <2>5. Told(n, y)'
      BY <2>3, <2>4, ToldSecond
    <2> QED BY <2>1, <2>5 DEF Told
  <1>7. RequestAges'
    <2> SUFFICES ASSUME NEW i \in 1..Len(requestNet) PROVE Told(requestNet[i].of, Flight)'
      BY <1>1 DEF RequestAges
    <2>1. PICK n : n = requestNet[i].of
      OBVIOUS
    <2>2. Told(n, Flight)'
      BY <1>5, <2>1 DEF Ages, RequestAges
    <2> QED BY <1>1, <2>1, <2>2 DEF Told
  <1>8. NeedAges'
    BY <1>2, <1>3, <1>5 DEF Ages, NeedAges
  <1>9. AgainAges'
    <2> SUFFICES ASSUME NEW n \in Bunches, NEW m \in Bunches, NEW p \in Packet, n < m,
                        Has(n, p), Has(m, p)
                 PROVE  /\ Told(n, Flight)'
                        /\ \A k \in 1..Len(air') :
                               air'[k].n = m => Told(n, Lower(Top, Flight + air[k].age))'
      BY <1>2, <1>3 DEF AgainAges
    <2>1. Told(n, Flight)'
      BY <1>5 DEF Ages, AgainAges
    <2>2. ASSUME NEW k \in 1..Len(air), air'[k].n = m
          PROVE  Told(n, Lower(Top, Flight + air[k].age))'
      <3>1. PICK a : a = air[k].age
        OBVIOUS
      <3>2. PICK x : x = Lower(Top, Flight + a)
        OBVIOUS
      <3>3. Told(n, x) /\ a \in 0..Top
        BY <1>1, <2>2, <3>1, <3>2, AirIs DEF Ages, AgainAges
      <3>4. PICK y : y = Lower(Top, Flight + Lower(a + 1, Top))
        OBVIOUS
      <3>5. x \in Nat /\ y \in Nat /\ y <= Lower(x + 1, Top)
        BY <1>4, <3>2, <3>3, <3>4 DEF Lower
      <3>6. Told(n, y)'
        BY <3>3, <3>5, ToldSecond
      <3>7. y = Lower(Top, Flight + air'[k].age)
        BY <1>1, <3>1, <3>4
      <3> QED BY <3>6, <3>7
    <2> QED BY <1>1, <2>1, <2>2
  <1> QED BY <1>6, <1>7, <1>8, <1>9 DEF Ages

\* A packet that is sent again has waited for it.
LEMMA AgesTimeslot ==
    ASSUME Shapes, Numbers, Chain, Requests, Ages, HitTimeslot PROVE Ages'
  <1>1. PICK N : N = Len(sent) + 1
    OBVIOUS
  <1>2. /\ N \in Nat /\ Bunches' = Bunches \cup {N} /\ Packet' = Packet /\ N \notin Bunches
        /\ \A m \in Bunches, p \in Packet : m < N /\ (Has(m, p)' <=> Has(m, p))
        /\ \A m \in Bunches' : Off(m)' <=> Off(m)
        /\ ~Off(N)
    BY <1>1, BunchIs
  <1>3. /\ UNCHANGED <<setting, expected, requestNet>>
        /\ Len(air) \in Nat /\ Len(air') = Len(air) + 1
        /\ air'[Len(air) + 1].n = N /\ air'[Len(air) + 1].age = 0
        /\ \A k \in 1..Len(air) : air'[k] = air[k]
        /\ hashNet' = Append(hashNet, N)
    BY <1>1, TimeslotIs
  <1>4. /\ Chain'
        /\ \A p \in Packet : Has(N, p)' => InNeed(p) \/ (\A m \in Bunches : ~Has(m, p))
        /\ \A p \in Packet : InNeed(p)' => InNeed(p)
    BY <1>1, ChainTimeslot
  <1>5. ASSUME NEW n \in Bunches, NEW x, Told(n, x) PROVE Told(n, x)'
    <2>1. n # N /\ hashNet \in Seq(Bunches)
      BY <1>2 DEF Shapes
    <2> QED BY <1>3, <1>5, <2>1, ToldSame
  <1>6. \A n : Told(n, 0)'
    <2>1. \A i \in 1..Len(expected) : 0 <= expected[i].age
      BY ExpectedIs, TopIs
    <2> QED BY <1>3, <2>1 DEF Told
  <1>7. Flight \in Nat /\ Top \in Nat /\ Flight < Top
    BY TopIs, RetransmitAssumption
  <1>8. \A k \in 1..Len(air') : k \in 1..Len(air) \/ k = Len(air) + 1
    BY <1>3
  <1>9. \A k \in 1..Len(air) : air[k].n \in Bunches
    BY AirIs
  <1>10. AirAges'
    <2> SUFFICES ASSUME NEW k \in 1..Len(air'), NEW n \in Bunches', n <= air'[k].n
                 PROVE  Told(n, air[k].age)'
      BY DEF AirAges
    <2>0. PICK x : x = air'[k].age
      OBVIOUS
    <2>1. CASE k \in 1..Len(air)
      <3>1. n \in Bunches
        <4>1. air[k].n \in Bunches /\ air'[k] = air[k]
          BY <1>3, <1>9, <2>1
        <4>2. n # N
          BY <1>2, <4>1 DEF Bunches
        <4> QED BY <1>2, <4>2
      <3>2. Told(n, x)
        BY <1>3, <2>0, <2>1, <3>1 DEF Ages, AirAges
      <3>3. Told(n, x)'
        BY <1>5, <3>1, <3>2
      <3> QED BY <2>0, <3>3 DEF Told
    <2>2. CASE k = Len(air) + 1
      <3>1. x = 0
        BY <1>3, <2>0, <2>2
      <3>2. Told(n, x)'
        BY <1>6, <3>1
      <3> QED BY <2>0, <3>2 DEF Told
    <2> QED BY <1>8, <2>1, <2>2
  <1>11. RequestAges'
    <2> SUFFICES ASSUME NEW i \in 1..Len(requestNet) PROVE Told(requestNet[i].of, Flight)'
      BY <1>3 DEF RequestAges
    <2>1. PICK n : n = requestNet[i].of
      OBVIOUS
    <2>2. n \in Bunches /\ Told(n, Flight)
      BY <2>1 DEF Requests, Sound, Ages, RequestAges
    <2>3. Told(n, Flight)'
      BY <1>5, <2>2
    <2> QED BY <1>3, <2>1, <2>3 DEF Told
  <1>12. NeedAges'
    <2> SUFFICES ASSUME NEW n \in Bunches', NEW p \in Packet, Has(n, p)', InNeed(p)'
                 PROVE  Told(n, Flight)'
      BY <1>2 DEF NeedAges
    <2>1. CASE n = N
      <3>1. Spent(n)'
        BY <1>2, <1>4 DEF Chain
      <3>2. ~Off(n)'
        BY <1>2, <2>1
      <3> QED BY <3>1, <3>2 DEF Spent
    <2>2. CASE n \in Bunches
      <3>1. Told(n, Flight)
        BY <1>2, <1>4, <2>2 DEF Ages, NeedAges
      <3> QED BY <1>5, <2>2, <3>1
    <2> QED BY <1>2, <2>1, <2>2
  <1>13. AgainAges'
    <2> SUFFICES ASSUME NEW n \in Bunches', NEW m \in Bunches', NEW p \in Packet, n < m,
                        Has(n, p)', Has(m, p)'
                 PROVE  /\ Told(n, Flight)'
                        /\ \A k \in 1..Len(air') :
                               air'[k].n = m => Told(n, Lower(Top, Flight + air[k].age))'
      BY <1>2 DEF AgainAges
    <2>1. n \in Bunches /\ Has(n, p)
      <3>1. n # N
        BY <1>2 DEF Bunches
      <3> QED BY <1>2, <3>1
    <2>2. Told(n, Flight)
      <3>1. CASE m \in Bunches
        BY <1>2, <2>1, <3>1 DEF Ages, AgainAges
      <3>2. CASE m = N
        BY <1>4, <2>1, <3>2 DEF Ages, NeedAges
      <3> QED BY <1>2, <3>1, <3>2
    <2>3. ASSUME NEW k \in 1..Len(air'), air'[k].n = m
          PROVE  Told(n, Lower(Top, Flight + air[k].age))'
      <3>1. PICK x : x = Lower(Top, Flight + air'[k].age)
        OBVIOUS
      <3>2. CASE k \in 1..Len(air)
        <4>1. m \in Bunches /\ air[k].n = m /\ air'[k] = air[k]
          BY <1>3, <1>9, <2>3, <3>2
        <4>2. Told(n, Lower(Top, Flight + air[k].age))
          BY <1>2, <2>1, <3>2, <4>1 DEF Ages, AgainAges
        <4>3. Told(n, x)
          BY <3>1, <4>1, <4>2
        <4>4. Told(n, x)'
          BY <1>5, <2>1, <4>3
        <4> QED BY <3>1, <4>4 DEF Told
      <3>3. CASE k = Len(air) + 1
        <4>1. x = Flight
          BY <1>3, <1>7, <3>1, <3>3 DEF Lower
        <4>2. Told(n, x)'
          BY <1>5, <2>1, <2>2, <4>1
        <4> QED BY <3>1, <4>2 DEF Told
      <3> QED BY <1>8, <3>2, <3>3
    <2>4. Told(n, Flight)'
      BY <1>5, <2>1, <2>2
    <2> QED BY <2>3, <2>4
  <1> QED BY <1>10, <1>11, <1>12, <1>13 DEF Ages

\* A packet that is to be sent again was asked for a flight after its hashes
\* were announced.
LEMMA AgesRequest ==
    ASSUME Shapes, Numbers, Chain, Requests, Requests', NoReuse, Ages, RequestArrives
    PROVE  Ages'
  <1>1. PICK r : r = Head(requestNet)
    OBVIOUS
  <1>2. PICK j : j = AskedFor(r.seq, r.indices)
    OBVIOUS
  <1>3. /\ requestNet # <<>> /\ requestNet' = Tail(requestNet)
        /\ UNCHANGED <<setting, sent, expected, air, hashNet>>
    BY DEF RequestArrives, demodVars
  <1>4. requestNet \in Seq(Request) /\ hashNet \in Seq(Bunches)
    BY DEF Shapes
  <1>5. /\ Len(requestNet) \in Nat /\ Len(requestNet) >= 1 /\ r = requestNet[1]
        /\ Len(requestNet') = Len(requestNet) - 1
        /\ \A i \in 1..(Len(requestNet) - 1) : requestNet'[i] = requestNet[i + 1]
    BY <1>1, <1>3, <1>4, TailIs
  <1>6. Bunches' = Bunches /\ Packet' = Packet /\ \A n, p : Has(n, p)' <=> Has(n, p)
    BY <1>3 DEF Bunches, Packet, Has
  <1>7. \A n \in Bunches : \A x : Told(n, x) => Told(n, x)'
    BY <1>3 DEF Told
  <1>8. need_retransmit' = need_retransmit \/ NeedAges'
    <2> SUFFICES ASSUME need_retransmit' # need_retransmit PROVE NeedAges'
      OBVIOUS
    <2>1. PICK n0 \in Bunches : /\ j # 0 /\ n0 = buffer[j].n
                                /\ need_retransmit' = need_retransmit \o PacketsOf(n0, r.indices)
      BY <1>1, <1>2, RequestStep DEF Numbers
    <2>2. n0 = r.of /\ InBuffer(n0) /\ Told(n0, Flight)
      <3>1. 1 \in 1..Len(requestNet)
        BY <1>5
      <3>2. buffer[j].n = r.of /\ InBuffer(r.of)
        BY <1>2, <1>5, <2>1, <3>1, FoundIsOf
      <3> QED BY <1>5, <2>1, <3>1, <3>2 DEF Ages, RequestAges
    <2>3. PICK Q : Q = PacketsOf(n0, r.indices)
      OBVIOUS
    <2>4. Q \in Seq(Packet) /\ \A k \in 1..Len(Q) : Has(n0, Q[k])
      <3>1. sent[n0] \in Bunch
        BY BunchAt
      <3>2. sent[n0].packets \in Seq(Packet) /\ Distinct(sent[n0].packets)
        BY <3>1 DEF Bunch, Chain
      <3> QED BY <2>3, <3>2, AskedPackets DEF Has
    <2> SUFFICES ASSUME NEW n \in Bunches, NEW p \in Packet, Has(n, p), InNeed(p)'
                 PROVE  Told(n, Flight)
      BY <1>6, <1>7 DEF NeedAges
    <2>5. PICK i \in 1..Len(need_retransmit') : need_retransmit'[i] = p
      BY DEF InNeed
    <2>6. \/ \E k \in 1..Len(need_retransmit) : p = need_retransmit[k]
          \/ \E k \in 1..Len(Q) : p = Q[k]
      <3>1. need_retransmit \in Seq(Packet)
        BY DEF Shapes
      <3>2. i \in 1..Len(need_retransmit \o Q) /\ p = (need_retransmit \o Q)[i]
        BY <2>1, <2>3, <2>5
      <3> QED BY <2>4, <3>1, <3>2, ConcatMembers
    <2>7. CASE \E k \in 1..Len(need_retransmit) : p = need_retransmit[k]
      BY <2>7 DEF Ages, NeedAges, InNeed
    <2>8. CASE \E k \in 1..Len(Q) : p = Q[k]
      <3>1. Has(n0, p) /\ ~Spent(n0)
        BY <2>2, <2>4, <2>8 DEF Spent
      <3>2. n \in Int /\ n0 \in Int
        BY DEF Bunches
      <3>3. ~(n0 < n)
        BY <3>1 DEF Chain
      <3>4. n < n0 => Told(n, Flight)
        BY <3>1 DEF Ages, AgainAges
      <3>5. n = n0 \/ n < n0
        BY <3>2, <3>3
      <3> QED BY <2>2, <3>4, <3>5
    <2> QED BY <2>6, <2>7, <2>8
  <1>9. \A i \in 1..Len(requestNet') : \E k \in 1..Len(requestNet) : requestNet'[i] = requestNet[k]
    <2>1. \A i \in 1..Len(requestNet') :
              i + 1 \in 1..Len(requestNet) /\ requestNet'[i] = requestNet[i + 1]
      BY <1>5
    <2> QED BY <2>1
  <1>10. \A i \in 1..Len(requestNet) : requestNet[i].of \in Bunches
    BY DEF Requests, Sound
  <1>11. \A i \in 1..Len(requestNet') : requestNet'[i].of \in Bunches
    BY <1>9, <1>10
  <1>12. \A k \in 1..Len(air') : \E l \in 1..Len(air) : air'[k] = air[l]
    BY <1>3
  <1> QED BY <1>3, <1>7, <1>8, <1>9, <1>10, <1>11, <1>12, AgesKept

\* What is asked for was announced when the bunch just decoded was sent, or
\* before.
LEMMA AgesHeader ==
    ASSUME Shapes, Numbers, NoReuse, Requests, Ages, air # <<>>, Head(air).age >= Flight,
           NEW n, n = Head(air).n, NEW more \in Seq(Request), GotHeader(n, more),
           \A i \in 1..Len(more) : more[i].of \in Bunches /\ more[i].of <= n,
           \A m \in Bunches : \A x : Told(m, x) => Told(m, x)'
    PROVE  Ages'
  <1>1. PICK g : g = GapRequests(n, sent[n].seq)
    OBVIOUS
  <1>2. /\ air' = Tail(air) /\ UNCHANGED <<setting, sent, need_retransmit>>
        /\ requestNet' = requestNet \o g \o more
    BY <1>1 DEF GotHeader, arbVars
  <1>3. g \in Seq(Request) /\ requestNet \in Seq(Request)
    BY <1>1, GapOf DEF Shapes, GapIs
  <1>4. \A i \in 1..Len(g) : g[i].of \in Bunches /\ g[i].of <= n
    <2> SUFFICES ASSUME NEW i \in 1..Len(g) PROVE g[i].of \in Bunches /\ g[i].of <= n
      OBVIOUS
    <2>1. g[i].of \in Bunches /\ g[i].of < n /\ n \in Bunches
      BY <1>1, GapOf DEF GapIs
    <2> QED BY <2>1 DEF Bunches
  <1>5. air \in Seq(Entry)
    BY DEF Shapes
  <1>6. /\ Len(air) \in Nat /\ Len(air) >= 1 /\ Head(air) = air[1] /\ Len(air') = Len(air) - 1
        /\ \A k \in 1..(Len(air) - 1) : air'[k] = air[k + 1]
    BY <1>2, <1>5, TailIs
  <1>7. ASSUME NEW m \in Bunches, m <= n PROVE Told(m, Flight)
    <2>1. 1 \in 1..Len(air) /\ air[1].n = n
      BY <1>6
    <2>2. PICK x : x = air[1].age
      OBVIOUS
    <2>3. Told(m, x) /\ x \in 0..Top /\ x >= Flight
      BY <1>6, <1>7, <2>1, <2>2, AirIs DEF Ages, AirAges
    <2>4. x \in Nat /\ Flight \in Nat /\ Flight <= x
      BY <2>3, TopIs, RetransmitAssumption
    <2> QED BY <2>3, <2>4, ToldLess
  <1>8. ASSUME NEW i \in 1..Len(requestNet')
        PROVE  /\ requestNet'[i].of \in Bunches
               /\ \/ \E k \in 1..Len(requestNet) : requestNet'[i] = requestNet[k]
                  \/ Told(requestNet'[i].of, Flight)
    <2>1. PICK u : u = requestNet \o g
      OBVIOUS
    <2>2. u \in Seq(Request) /\ requestNet' = u \o more
      BY <1>2, <1>3, <2>1
    <2>3. PICK r : r = requestNet'[i]
      OBVIOUS
    <2>4. \/ \E k \in 1..Len(u) : r = u[k]
          \/ \E k \in 1..Len(more) : r = more[k]
      <3>1. i \in 1..Len(u \o more)
        BY <2>2
      <3> QED BY <2>2, <2>3, <3>1, ConcatMembers
    <2>5. CASE \E k \in 1..Len(more) : r = more[k]
      BY <1>7, <2>3, <2>5
    <2>6. ASSUME NEW k \in 1..Len(u), r = u[k]
          PROVE  \/ \E l \in 1..Len(requestNet) : r = requestNet[l]
                 \/ \E l \in 1..Len(g) : r = g[l]
      <3>1. k \in 1..Len(requestNet \o g) /\ r = (requestNet \o g)[k]
        BY <2>1, <2>6
      <3> QED BY <1>3, <3>1, ConcatMembers
    <2>7. CASE \E l \in 1..Len(g) : r = g[l]
      BY <1>4, <1>7, <2>3, <2>7
    <2>8. CASE \E l \in 1..Len(requestNet) : r = requestNet[l]
      BY <2>3, <2>8 DEF Requests, Sound
    <2> QED BY <2>4, <2>5, <2>6, <2>7, <2>8
  <1>9. \A k \in 1..Len(air') : \E l \in 1..Len(air) : air'[k] = air[l]
    <2>1. \A k \in 1..Len(air') : k + 1 \in 1..Len(air) /\ air'[k] = air[k + 1]
      BY <1>6
    <2> QED BY <2>1
  <1>10. \A i \in 1..Len(requestNet) : requestNet[i].of \in Bunches
    BY DEF Requests, Sound
  <1> QED BY <1>2, <1>8, <1>9, <1>10, AgesKept

LEMMA FewerOf ==
    ASSUME NEW S, NEW s \in Seq(S), NEW t, t = s \/ (s # <<>> /\ t = Tail(s))
    PROVE  \A i \in 1..Len(t) : \E k \in 1..Len(s) : t[i] = s[k]
  <1>1. CASE t = s
    BY <1>1
  <1>2. CASE s # <<>> /\ t = Tail(s)
    <2>1. /\ Len(s) \in Nat /\ Len(t) = Len(s) - 1
          /\ \A i \in 1..(Len(s) - 1) : t[i] = s[i + 1]
      BY <1>2, TailIs
    <2>2. \A i \in 1..Len(t) : i + 1 \in 1..Len(s) /\ t[i] = s[i + 1]
      BY <2>1
    <2> QED BY <2>2
  <1> QED BY <1>1, <1>2

LEMMA AgesStep ==
    ASSUME Shapes, Numbers, Chain, Requests, Requests', NoReuse, Ages, setting.prompt,
           [Next]_vars
    PROVE  Ages'
  <1>0. ASSUME UNCHANGED <<setting, sent, need_retransmit>>,
               \A n \in Bunches : \A x : Told(n, x) => Told(n, x)',
               air' = air \/ (air # <<>> /\ air' = Tail(air)),
               requestNet' = requestNet \/ (requestNet # <<>> /\ requestNet' = Tail(requestNet))
        PROVE  Ages'
    <2>1. air \in Seq(Entry) /\ requestNet \in Seq(Request)
      BY DEF Shapes
    <2>2. \A k \in 1..Len(air') : \E l \in 1..Len(air) : air'[k] = air[l]
      BY <1>0, <2>1, FewerOf, SMTT(60)
    <2>3. \A i \in 1..Len(requestNet') : \E k \in 1..Len(requestNet) :
              requestNet'[i] = requestNet[k]
      BY <1>0, <2>1, FewerOf, SMTT(60)
    <2>4. \A i \in 1..Len(requestNet) : requestNet[i].of \in Bunches
      BY DEF Requests, Sound
    <2>5. \A i \in 1..Len(requestNet') : requestNet'[i].of \in Bunches
      BY <2>3, <2>4
    <2> QED BY <1>0, <2>2, <2>3, <2>4, <2>5, AgesKept
  <1>01. ASSUME expected' = expected,
                hashNet' = hashNet \/ (hashNet # <<>> /\ hashNet' = Tail(hashNet))
         PROVE  \A n \in Bunches : \A x : Told(n, x) => Told(n, x)'
    <2>1. hashNet \in Seq(Bunches)
      BY DEF Shapes
    <2> QED BY <1>01, <2>1, ToldSame
  <1>1. CASE TunArrives
    BY <1>0, <1>01, <1>1 DEF TunArrives, bufferVars, demodVars, netVars
  <1>2. CASE HitTimeslot
    BY <1>2, AgesTimeslot
  <1>3. CASE RequestArrives
    BY <1>3, AgesRequest
  <1>4. CASE HashesArrive
    <2>1. \A n \in Bunches : \A x : Told(n, x) => Told(n, x)'
      BY <1>4, ToldHashes
    <2> QED BY <1>0, <1>4, <2>1 DEF HashesArrive, arbVars
  <1>5. CASE DemodGotEmpty
    <2>1. /\ air # <<>> /\ Head(air).age >= Flight /\ GotHeader(Head(air).n, <<>>)
          /\ expected' = expected /\ hashNet' = hashNet
      BY <1>5 DEF DemodGotEmpty, Arrived, GotHeader
    <2>2. \A n \in Bunches : \A x : Told(n, x) => Told(n, x)'
      BY <1>01, <2>1
    <2>3. PICK n, more : n = Head(air).n /\ more = <<>>
      OBVIOUS
    <2>4. more \in Seq(Request) /\ \A i \in 1..Len(more) : more[i].of \in Bunches /\ more[i].of <= n
      BY <2>3
    <2>5. GotHeader(n, more)
      BY <2>1, <2>3, Zenon
    <2> QED BY <2>1, <2>2, <2>3, <2>4, <2>5, AgesHeader
  <1>6. ASSUME NEW bad \in SUBSET (1..MaxWords), NEW cut \in 0..MaxWords, DemodGotPacket(bad, cut)
        PROVE  Ages'
    <2>1. PICK n, more : n = Head(air).n /\ more = FoundMissing(bad, cut)
      OBVIOUS
    <2>2. /\ air # <<>> /\ GotHeader(n, more) /\ FoundList(bad, cut) \in Received
          /\ n \in Bunches /\ Head(air).age >= Flight
          /\ expected' = FoundStatus(bad, cut).expected
      BY <1>6, <2>1, PacketStep
    <2>3. /\ FoundStatus(bad, cut).expected \in Seq(Waiting)
          /\ Waiting \in SUBSET Expected
          /\ \/ more = <<>>
             \/ \E b \in Waiting :
                   /\ Compare(FoundList(bad, cut), b)
                   /\ more = <<[by |-> n, of |-> b.n, seq |-> b.seq,
                                indices |-> InvalidIdx(FoundList(bad, cut), b)]>>
      BY <2>1, <2>2, FoundIs
    <2>4. \A m \in Bunches : \A x : Told(m, x) => Told(m, x)'
      <3>1. \A i \in 1..Len(expected') : \E k \in 1..Len(expected) : expected'[i] = expected[k]
        <4>1. expected' \in Seq(Waiting)
          BY <2>2, <2>3
        <4> QED BY <4>1 DEF Waiting
      <3>2. hashNet' = hashNet
        BY <2>2 DEF GotHeader
      <3> QED BY <3>1, <3>2, ToldFewer
    <2>5. more \in Seq(Request) /\ \A i \in 1..Len(more) : more[i].of \in Bunches /\ more[i].of <= n
      <3>1. CASE more = <<>>
        BY <3>1
      <3>2. ASSUME NEW b \in Waiting, Compare(FoundList(bad, cut), b),
                   more = <<[by |-> n, of |-> b.n, seq |-> b.seq,
                             indices |-> InvalidIdx(FoundList(bad, cut), b)]>>
            PROVE  more \in Seq(Request) /\ \A i \in 1..Len(more) : more[i].of \in Bunches /\ more[i].of <= n
        <4>1. PICK r : r = [by |-> n, of |-> b.n, seq |-> b.seq,
                            indices |-> InvalidIdx(FoundList(bad, cut), b)]
          OBVIOUS
        <4>2. b.n \in Bunches /\ b.n <= n
          <5>1. b.n \in Bunches /\ (b.n = n \/ b.n < n)
            BY <1>6, <2>1, <3>2, MatchOf
          <5> QED BY <2>2, <5>1 DEF Bunches
        <4>3. r \in Request
          <5>1. b \in Expected
            BY <2>3
          <5>2. b.seq \in 0..(SeqSize - 1) /\ n \in Nat /\ b.n \in Int
            <6> HIDE DEF Hashes
            <6> QED BY <2>2, <5>1 DEF Expected, Received, List, Bunches
          <5>3. InvalidIdx(FoundList(bad, cut), b) \in SUBSET Nat
            BY DEF InvalidIdx
          <5> QED BY <4>1, <5>2, <5>3 DEF Request
        <4>4. more \in Seq(Request) /\ Len(more) = 1 /\ more[1] = r /\ r.of = b.n
          BY <3>2, <4>1, <4>3
        <4>5. \A i \in 1..Len(more) : i = 1
          BY <4>4
        <4> QED BY <4>2, <4>4, <4>5
      <3> QED BY <2>3, <3>1, <3>2
    <2> QED BY <2>1, <2>2, <2>4, <2>5, AgesHeader
  <1>7. CASE AirLoses
    BY <1>0, <1>01, <1>7 DEF AirLoses, arbVars, demodVars
  <1>8. CASE ZmqLoses
    BY <1>0, <1>01, <1>8 DEF ZmqLoses, arbVars, demodVars
  <1>9. CASE Second
    BY <1>9, AgesSecond
  <1>10. CASE UNCHANGED vars
    BY <1>0, <1>01, <1>10 DEF vars, arbVars, demodVars, netVars
  <1> QED BY <1>1, <1>2, <1>3, <1>4, <1>5, <1>6, <1>7, <1>8, <1>9, <1>10, NextIs

-----------------------------------------------------------------------------
(* Which bunch the number is of.                                           *)

Named(r) == r.indices # AllMissing => r.by \in Bunches /\ r.seq = sent[r.by].seq
Names == \A i \in 1..Len(requestNet) : Named(requestNet[i])

\* The strict comparison needs the same number.
LEMMA StrictMatch ==
    ASSUME NEW S, NEW a, NEW b, a.hashes \in Seq(S), b.hashes \in Seq(S), Compare(a, b),
           Len(b.hashes) <= 3
    PROVE  a.seq = b.seq
  <1> DEFINE la == Len(a.hashes)
             lb == Len(b.hashes)
             s == Shorter(a, b)
             X == InvalidIdx(a, b)
             d == IF a.seq = b.seq THEN 0 ELSE 1
             c == Cardinality(X)
  <1>1. la \in Nat /\ lb \in Nat /\ la \in Int /\ lb \in Int /\ lb <= 3
    OBVIOUS
  <1>2. s = IF la <= lb THEN la ELSE lb
    <2>1. s = Min({la, lb})
      BY DEF Shorter
    <2> HIDE DEF la, lb, s
    <2> QED BY <1>1, <2>1, MinOfTwo
  <1>3. X \in SUBSET (1..s)
    BY DEF InvalidIdx
  <1>4. LesserSize(a, b) = 1 + s /\ Same(a, b) = (1 + s) - c - d
    BY DEF LesserSize, Same
  <1> HIDE DEF s, la, lb, X
  <1>5. s \in Nat /\ 1 + s < 5
    BY <1>1, <1>2
  <1>6. Same(a, b) = 1 + s
    BY <1>4, <1>5 DEF Compare
  <1>7. c \in Nat
    <2>1. 1 \in Int /\ s \in Int
      BY <1>5
    <2>2. IsFiniteSet(1..s)
      BY <2>1, FS_Interval
    <2>3. IsFiniteSet(X)
      BY <1>3, <2>2, FS_Subset
    <2> QED BY <2>3, FS_CardinalityType
  <1> HIDE DEF c
  <1>8. d = 0
    BY <1>4, <1>5, <1>6, <1>7
  <1> QED BY <1>8

\* A list that matches is that of the bunch, or too old to be kept.
LEMMA MatchNames ==
    ASSUME Shapes, Numbers, Chain, NoReuse, PromptAges, Punctual,
           NEW bad \in SUBSET (1..MaxWords), NEW cut \in 0..MaxWords, DemodGotPacket(bad, cut),
           NEW n, n = Head(air).n,
           NEW b \in Waiting, Compare(FoundList(bad, cut), b), b.age <= HashKeep
    PROVE  b.seq = sent[n].seq
  <1>1. /\ air # <<>> /\ n \in Bunches /\ Head(air).age >= Flight
        /\ Found(bad, cut) \in Hashes
    BY PacketStep
  <1>2. /\ b.n \in Bunches /\ b.seq = sent[b.n].seq /\ b.hashes = sent[b.n].packets
        /\ \/ b.n = n
           \/ b.n < n /\ \E p \in Packet : Has(b.n, p) /\ Has(n, p)
    BY MatchOf
  <1>3. CASE b.n = n
    BY <1>2, <1>3
  <1>4. CASE MaxWords <= 3
    <2>1. PICK a : a = FoundList(bad, cut)
      OBVIOUS
    <2>2. a.seq = sent[n].seq /\ a.hashes = Found(bad, cut)
      BY <2>1 DEF FoundList
    <2>3. PICK S : S = Packet \cup {Bad}
      OBVIOUS
    <2>4. a.hashes \in Seq(S)
      BY <1>1, <2>2, <2>3 DEF Hashes
    <2>5. b.hashes \in Seq(S) /\ Len(b.hashes) <= 3
      <3>1. PICK m \in Bunches : m = b.n
        BY <1>2
      <3>2. Len(sent[m].packets) \in 1..MaxWords /\ MaxWords \in Nat
        BY SettingIs DEF Shapes
      <3>3. sent[m] \in Bunch
        BY BunchAt
      <3>4. sent[m].packets \in Seq(Packet)
        BY <3>3 DEF Bunch
      <3>5. Packet \subseteq S
        BY <2>3
      <3>6. sent[m].packets \in Seq(S)
        BY <3>4, <3>5, SeqMore
      <3> QED BY <1>2, <1>4, <3>1, <3>2, <3>6
    <2>6. a.seq = b.seq
      BY <2>1, <2>4, <2>5, StrictMatch
    <2> QED BY <2>2, <2>6
  <1>5. CASE /\ setting.prompt /\ 2 * Flight > HashKeep
             /\ b.n < n /\ \E p \in Packet : Has(b.n, p) /\ Has(n, p)
    <2>1. Ages
      BY <1>5 DEF PromptAges
    <2>2. air \in Seq(Entry)
      BY DEF Shapes
    <2>3. 1 \in 1..Len(air) /\ Head(air) = air[1]
      BY <1>1, <2>2, TailIs
    <2>4. PICK a, x : a = air[1].age /\ x = Lower(Top, Flight + a)
      OBVIOUS
    <2>5. Told(b.n, x)
      BY <1>1, <1>2, <1>5, <2>1, <2>3, <2>4 DEF Ages, AgainAges
    <2>6. PICK i \in 1..Len(expected) : b = expected[i]
      BY DEF Waiting
    <2>7. x <= b.age /\ b.age \in 0..Top
      BY <2>5, <2>6, ExpectedIs DEF Told
    <2>8. a \in Nat /\ a >= Flight
      BY <1>1, <2>3, <2>4, AirIs, TopIs
    <2>9. Flight \in Nat /\ HashKeep \in Nat /\ Top \in Nat /\ Top > HashKeep
      BY TopIs, RetransmitAssumption, HashAssumption
    <2>10. 2 * Flight > HashKeep /\ x = Lower(Top, Flight + a)
      BY <1>5, <2>4
    <2>11. x \in Int /\ x > HashKeep
      BY <2>8, <2>9, <2>10 DEF Lower
    <2>12. FALSE
      BY <2>7, <2>9, <2>11
    <2> QED BY <2>12
  <1> QED BY <1>2, <1>3, <1>4, <1>5 DEF Punctual

LEMMA NamesInit ==
    ASSUME Init PROVE Names
  <1>1. requestNet = <<>>
    BY DEF Init
  <1>2. Len(requestNet) = 0 /\ 1..0 = {}
    BY <1>1
  <1> QED BY <1>2 DEF Names

LEMMA NamesStep ==
    ASSUME Shapes, Numbers, Chain, NoReuse, PromptAges, Punctual, Names, [Next]_vars
    PROVE  Names'
  <1>1. ASSUME sent' = sent,
               requestNet' = requestNet \/ (requestNet # <<>> /\ requestNet' = Tail(requestNet))
        PROVE  Names'
    <2>1. requestNet \in Seq(Request)
      BY DEF Shapes
    <2>2. \A i \in 1..Len(requestNet') : \E k \in 1..Len(requestNet) :
              requestNet'[i] = requestNet[k]
      BY <1>1, <2>1, FewerOf
    <2> QED BY <1>1, <2>2 DEF Names, Named, Bunches
  <1>2. CASE HitTimeslot
    <2>1. PICK P \in Seq(Packet), a \in 0..Len(need_retransmit), c \in 0..Len(tun) :
              Scheduled(P, a, c)
      BY <1>2, ScheduledIs
    <2>2. a \in Nat /\ c \in Nat /\ setting' = setting /\ requestNet' = requestNet
      <3>1. setting' = setting /\ requestNet' = requestNet
        BY <1>2, TimeslotIs
      <3>2. Len(need_retransmit) \in Nat /\ Len(tun) \in Nat
        BY DEF Shapes
      <3> QED BY <3>1, <3>2
    <2>3. /\ \A m \in Bunches : sent'[m] = sent[m]
          /\ Bunches' = Bunches \cup {Len(sent) + 1}
      BY <2>1, <2>2, SentGrows
    <2> QED BY <2>2, <2>3 DEF Names, Named
  <1>3. ASSUME NEW n, NEW more \in Seq(Request), air # <<>>, n = Head(air).n,
               GotHeader(n, more), \A i \in 1..Len(more) : Named(more[i])
        PROVE  Names'
    <2>1. PICK g : g = GapRequests(n, sent[n].seq)
      OBVIOUS
    <2>2. sent' = sent /\ requestNet' = requestNet \o g \o more
      BY <1>3, <2>1 DEF GotHeader, arbVars
    <2>3. g \in Seq(Request) /\ requestNet \in Seq(Request)
      BY <1>3, <2>1, GapOf DEF Shapes, GapIs
    <2>4. \A i \in 1..Len(g) : Named(g[i])
      BY <1>3, <2>1, GapOf DEF Named, GapIs
    <2>5. PICK u : u = requestNet \o g
      OBVIOUS
    <2>6. u \in Seq(Request) /\ requestNet' = u \o more
      BY <2>2, <2>3, <2>5
    <2>7. ASSUME NEW i \in 1..Len(requestNet') PROVE Named(requestNet'[i])
      <3>1. PICK r : r = requestNet'[i]
        OBVIOUS
      <3>2. \/ \E k \in 1..Len(u) : r = u[k]
            \/ \E k \in 1..Len(more) : r = more[k]
        <4>1. i \in 1..Len(u \o more)
          BY <2>6
        <4> QED BY <1>3, <2>6, <3>1, <4>1, ConcatMembers
      <3>3. ASSUME NEW k \in 1..Len(u), r = u[k]
            PROVE  \/ \E l \in 1..Len(requestNet) : r = requestNet[l]
                   \/ \E l \in 1..Len(g) : r = g[l]
        <4>1. k \in 1..Len(requestNet \o g) /\ r = (requestNet \o g)[k]
          BY <2>5, <3>3
        <4> QED BY <2>3, <4>1, ConcatMembers
      <3>4. Named(r)
        BY <1>3, <2>4, <3>2, <3>3 DEF Names
      <3> QED BY <3>1, <3>4
    <2> QED BY <2>2, <2>7 DEF Names, Named, Bunches
  <1>4. CASE DemodGotEmpty
    <2>1. PICK n, more : n = Head(air).n /\ more = <<>>
      OBVIOUS
    <2>2. air # <<>> /\ GotHeader(Head(air).n, <<>>)
      BY <1>4 DEF DemodGotEmpty, Arrived
    <2>3. GotHeader(n, more)
      BY <2>1, <2>2, Zenon
    <2>4. more \in Seq(Request) /\ \A i \in 1..Len(more) : Named(more[i])
      BY <2>1
    <2> QED BY <1>3, <2>1, <2>2, <2>3, <2>4
  <1>5. ASSUME NEW bad \in SUBSET (1..MaxWords), NEW cut \in 0..MaxWords, DemodGotPacket(bad, cut)
        PROVE  Names'
    <2>1. PICK n, more : n = Head(air).n /\ more = FoundMissing(bad, cut)
      OBVIOUS
    <2>2. /\ air # <<>> /\ GotHeader(n, more) /\ FoundList(bad, cut) \in Received
          /\ n \in Bunches
      BY <1>5, <2>1, PacketStep
    <2>3. /\ Waiting \in SUBSET Expected
          /\ \/ more = <<>>
             \/ \E b \in Waiting :
                   /\ Compare(FoundList(bad, cut), b) /\ b.age <= HashKeep
                   /\ more = <<[by |-> n, of |-> b.n, seq |-> b.seq,
                                indices |-> InvalidIdx(FoundList(bad, cut), b)]>>
      BY <2>1, <2>2, FoundIs
    <2>4. more \in Seq(Request) /\ \A i \in 1..Len(more) : Named(more[i])
      <3>1. CASE more = <<>>
        BY <3>1
      <3>2. ASSUME NEW b \in Waiting, Compare(FoundList(bad, cut), b), b.age <= HashKeep,
                   more = <<[by |-> n, of |-> b.n, seq |-> b.seq,
                             indices |-> InvalidIdx(FoundList(bad, cut), b)]>>
            PROVE  more \in Seq(Request) /\ \A i \in 1..Len(more) : Named(more[i])
        <4>1. PICK r : r = [by |-> n, of |-> b.n, seq |-> b.seq,
                            indices |-> InvalidIdx(FoundList(bad, cut), b)]
          OBVIOUS
        <4>2. b.seq = sent[n].seq
          BY <1>5, <2>1, <3>2, MatchNames
        <4>3. r \in Request
          <5>1. b \in Expected
            BY <2>3
          <5>2. b.seq \in 0..(SeqSize - 1) /\ n \in Nat /\ b.n \in Int
            <6> HIDE DEF Hashes
            <6> QED BY <2>2, <5>1 DEF Expected, Received, List, Bunches
          <5>3. InvalidIdx(FoundList(bad, cut), b) \in SUBSET Nat
            BY DEF InvalidIdx
          <5> QED BY <4>1, <5>2, <5>3 DEF Request
        <4>4. more \in Seq(Request) /\ Len(more) = 1 /\ more[1] = r
          BY <3>2, <4>1, <4>3
        <4>5. Named(r)
          BY <2>2, <4>1, <4>2 DEF Named
        <4>6. \A i \in 1..Len(more) : i = 1
          BY <4>4
        <4> QED BY <4>4, <4>5, <4>6
      <3> QED BY <2>3, <3>1, <3>2
    <2> QED BY <1>3, <2>1, <2>2, <2>4
  <1>6. CASE TunArrives
    BY <1>1, <1>6 DEF TunArrives, bufferVars, netVars
  <1>7. CASE RequestArrives
    BY <1>1, <1>7 DEF RequestArrives
  <1>8. CASE HashesArrive
    BY <1>1, <1>8 DEF HashesArrive, arbVars
  <1>9. CASE AirLoses
    BY <1>1, <1>9 DEF AirLoses, arbVars
  <1>10. CASE ZmqLoses
    BY <1>1, <1>10 DEF ZmqLoses, arbVars
  <1>11. CASE Second
    BY <1>1, <1>11 DEF Second
  <1>12. CASE UNCHANGED vars
    BY <1>1, <1>12 DEF vars, arbVars, netVars
  <1> QED BY <1>2, <1>4, <1>5, <1>6, <1>7, <1>8, <1>9, <1>10, <1>11, <1>12, NextIs

InvAges == Inv /\ PromptAges /\ Names

LEMMA InvAgesInit ==
    ASSUME Init PROVE InvAges
  BY InvInit, AgesInit, NamesInit DEF InvAges, PromptAges

LEMMA InvAgesStep ==
    ASSUME InvAges, NoReuse, Punctual, [Next]_vars PROVE InvAges'
  <1>1. /\ Shapes /\ Numbers /\ Chain /\ Requests /\ Inv /\ NoReuse
        /\ PromptAges /\ Names
    BY DEF InvAges, Inv
  <1>2. Inv'
    BY <1>1, InvStep
  <1>3. PromptAges'
    <2>1. setting' = setting
      BY <1>1, Onwards
    <2>2. Requests'
      BY <1>2 DEF Inv
    <2>3. ASSUME setting.prompt PROVE Ages'
      <3>1. Ages
        BY <1>1, <2>3 DEF PromptAges
      <3> QED BY <1>1, <2>2, <2>3, <3>1, AgesStep
    <2> QED BY <2>1, <2>3 DEF PromptAges
  <1>4. Names'
    BY <1>1, NamesStep
  <1> QED BY <1>2, <1>3, <1>4 DEF InvAges

LEMMA InvSeqIs ==
    ASSUME InvAges PROVE SeqIsOfThePacket
  <1>1. requestNet \in Seq(Request) /\ Names
    BY DEF InvAges, Inv, Shapes
  <1> SUFFICES ASSUME NEW r \in ToSet(requestNet), r.indices # AllMissing
               PROVE  r.seq = sent[r.by].seq
    BY DEF SeqIsOfThePacket
  <1>2. PICK i \in 1..Len(requestNet) : r = requestNet[i]
    BY <1>1, ToSetIs
  <1> QED BY <1>1, <1>2 DEF Names, Named

\* The number in a request for single packets is that of the bunch they were
\* damaged in (VerifyHash::getStatus, demodGotPacket), if messages and threads
\* are fast and two flights take longer than a list is kept, as they do in the
\* code, or if bunches have at most three packets.
THEOREM NumberOfThePacket == Spec /\ [](NoReuse /\ Punctual) => []SeqIsOfThePacket
  <1>1. Init => InvAges
    BY InvAgesInit
  <1>2. InvAges /\ (NoReuse /\ Punctual) /\ [Next]_vars => InvAges'
    BY InvAgesStep
  <1>3. InvAges => SeqIsOfThePacket
    BY InvSeqIs
  <1> QED BY <1>1, <1>2, <1>3, PTL DEF Spec

\* Until the sequence numbers come round it needs no more than that.
THEOREM NumberInTheFirstLap == Spec => [](FirstLap /\ Punctual => SeqIsOfThePacket)
  <1> DEFINE J == Shapes /\ (FirstLap /\ Punctual => InvAges)
  <1>1. Init => J
    BY ShapesInit, InvAgesInit
  <1>2. J /\ [Next]_vars => J'
    <2> SUFFICES ASSUME J, [Next]_vars PROVE J'
      OBVIOUS
    <2>1. Shapes'
      BY ShapesStep
    <2>2. ASSUME FirstLap', Punctual' PROVE InvAges'
      <3>1. FirstLap
        BY <2>2, FirstLapBefore
      <3>2. Punctual
        <4>1. setting' = setting
          BY Onwards
        <4> QED BY <2>2, <4>1 DEF Punctual, MaxWords
      <3>3. InvAges /\ Inv
        BY <3>1, <3>2 DEF InvAges
      <3> QED BY <3>1, <3>2, <3>3, FirstLapNumbers, InvAgesStep
    <2> QED BY <2>1, <2>2
  <1>3. J => (FirstLap /\ Punctual => SeqIsOfThePacket)
    BY InvSeqIs
  <1> HIDE DEF J
  <1> QED BY <1>1, <1>2, <1>3, PTL DEF Spec

=============================================================================
