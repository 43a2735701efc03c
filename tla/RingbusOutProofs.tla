-------------------------- MODULE RingbusOutProofs --------------------------
(***************************************************************************)
(* For any threads, programs and gap: no word is left in the queue without *)
(* a timer, HiggsRing's lock has one holder, and the gap between words is  *)
(* kept.                                                                   *)
(***************************************************************************)
EXTENDS RingbusOut, FiniteSetTheorems, SequenceTheorems, Induction, TLAPS

\* What may be in a queue.
AnyWord == UNION {{Word(t, n) : n \in 1..Words(t)} : t \in Thread}

Shapes ==
    /\ pc \in [Thread -> Nat] /\ \A t \in Thread : pc[t] <= Words(t)
    /\ pending_ring_data \in Seq(AnyWord) /\ armed \in Nat
    /\ adding \subseteq Queued
    /\ sending \in [Thread -> Seq(AnyWord)]
    /\ locked \subseteq Thread
    /\ sleeps \in [Thread -> 0..MINIMUM_GAP] /\ since \in 0..MINIMUM_GAP

\* The lock: one holder, in HiggsRing::send, who sleeps at least until the gap
\* is over.
LockInv ==
    /\ \A t, u \in locked : t = u
    /\ \A t \in locked : sending[t] # Idle /\ sleeps[t] + since >= MINIMUM_GAP

IInv == Shapes /\ NothingStranded /\ LockInv

-----------------------------------------------------------------------------
LEMMA LargerOfTwo ==
    ASSUME NEW a \in Int, NEW b \in Int PROVE Max({a, b}) = IF a >= b THEN a ELSE b
  <1> DEFINE P(x) == x \in {a, b} /\ \A y \in {a, b} : x >= y
  <1>1. P(IF a >= b THEN a ELSE b)
    OBVIOUS
  <1>2. \A x, y : P(x) /\ P(y) => x = y
    OBVIOUS
  <1>3. P(CHOOSE x : P(x))
    BY <1>1
  <1> QED BY <1>1, <1>2, <1>3 DEF Max

LEMMA SmallerOfTwo ==
    ASSUME NEW a \in Int, NEW b \in Int PROVE Min({a, b}) = IF a <= b THEN a ELSE b
  <1> DEFINE P(x) == x \in {a, b} /\ \A y \in {a, b} : x <= y
  <1>1. P(IF a <= b THEN a ELSE b)
    OBVIOUS
  <1>2. \A x, y : P(x) /\ P(y) => x = y
    OBVIOUS
  <1>3. P(CHOOSE x : P(x))
    BY <1>1
  <1> QED BY <1>1, <1>2, <1>3 DEF Min

LEMMA ProgramLengths == \A t \in Thread : Words(t) \in Nat
  BY RingbusAssumption DEF Words

LEMMA AddingIsFinite == ASSUME Shapes PROVE IsFiniteSet(adding)
  BY RingbusAssumption, FS_Subset DEF Shapes

\* The word a caller sends next.
LEMMA NextWord ==
    ASSUME Shapes, NEW t \in Thread, Next2Send(t)
    PROVE  /\ Word(t, pc[t] + 1) \in AnyWord
           /\ [pc EXCEPT ![t] = @ + 1] \in [Thread -> Nat]
           /\ \A u \in Thread : [pc EXCEPT ![t] = @ + 1][u] <= Words(u)
  <1>1. pc[t] + 1 \in 1..Words(t)
    BY ProgramLengths DEF Shapes, Next2Send
  <1> QED BY <1>1, ProgramLengths DEF AnyWord, Shapes

\* handle_rb_later takes exactly the word in front.
LEMMA FrontWord ==
    ASSUME NEW s \in Seq(AnyWord), Len(s) > 0
    PROVE  /\ SubSeq(s, 1, 1) \in Seq(AnyWord) /\ SubSeq(s, 1, 1) # <<>>
           /\ RemoveAt(s, 1) \in Seq(AnyWord) /\ Len(RemoveAt(s, 1)) = Len(s) - 1
  <1>1. Len(s) \in Nat
    OBVIOUS
  <1>2. SubSeq(s, 1, 1) \in Seq(AnyWord) /\ Len(SubSeq(s, 1, 1)) = 1
    BY <1>1
  <1>3. SubSeq(s, 1, 0) \in Seq(AnyWord) /\ Len(SubSeq(s, 1, 0)) = 0
    BY <1>1
  <1>4. SubSeq(s, 2, Len(s)) \in Seq(AnyWord) /\ Len(SubSeq(s, 2, Len(s))) = Len(s) - 1
    <2> DEFINE rest == SubSeq(s, 2, Len(s))
    <2>1. \A i \in 2..Len(s) : s[i] \in AnyWord
      BY <1>1
    <2>2. rest \in Seq(AnyWord) /\ Len(rest) = IF 2 <= Len(s) THEN Len(s) - 2 + 1 ELSE 0
      BY <1>1, <2>1, SubSeqProperties
    <2> HIDE DEF rest
    <2>3. Len(rest) = Len(s) - 1
      <3> DEFINE n == Len(s)
      <3>1. n \in Nat /\ n > 0 /\ Len(rest) = IF 2 <= n THEN n - 2 + 1 ELSE 0
        BY <1>1, <2>2
      <3> HIDE DEF n
      <3>2. Len(rest) = n - 1
        BY <3>1
      <3> QED BY <3>2 DEF n
    <2> QED BY <2>2, <2>3 DEF rest
  <1> QED BY <1>1, <1>2, <1>3, <1>4 DEF RemoveAt

-----------------------------------------------------------------------------
LEMMA InvInit == Init => IInv
  <1> SUFFICES ASSUME Init PROVE IInv
    OBVIOUS
  <1>1. Shapes
    BY RingbusAssumption, ProgramLengths DEF Init, Shapes, Idle
  <1>2. NothingStranded
    BY FS_EmptySet DEF Init, NothingStranded
  <1>3. LockInv
    BY DEF Init, LockInv
  <1> QED BY <1>1, <1>2, <1>3 DEF IInv

\* A thread that holds the lock is not free to begin another word.
LEMMA FreeHasNoLock == ASSUME LockInv, NEW t, Free(t) PROVE t \notin locked
  BY DEF LockInv, Free

LEMMA InvStep == IInv /\ [Next]_vars => IInv'
  <1> SUFFICES ASSUME IInv, [Next]_vars PROVE IInv'
    OBVIOUS
  <1>0. Shapes /\ NothingStranded /\ LockInv /\ IsFiniteSet(adding) /\ Cardinality(adding) \in Nat
    BY AddingIsFinite, FS_CardinalityType DEF IInv
  <1>1. ASSUME NEW t \in Thread, Push(t) PROVE IInv'
    <2>1. /\ Word(t, pc[t] + 1) \in AnyWord /\ pc' \in [Thread -> Nat]
          /\ \A u \in Thread : pc'[u] <= Words(u)
      BY <1>0, <1>1, NextWord DEF Push
    <2>2. /\ pending_ring_data' \in Seq(AnyWord)
          /\ Len(pending_ring_data') = Len(pending_ring_data) + 1
      BY <1>0, <1>1, <2>1 DEF Push, Shapes
    <2>3. Cardinality(adding') = Cardinality(adding) + 1
      BY <1>0, <1>1, FS_AddElement DEF Push, Next2Send, Free
    <2>4. Shapes'
      BY <1>0, <1>1, <2>1, <2>2 DEF Push, Shapes, ring
    <2>5. NothingStranded'
      BY <1>0, <1>1, <2>2, <2>3 DEF Push, NothingStranded, Shapes
    <2>6. LockInv'
      BY <1>0, <1>1 DEF Push, LockInv, ring
    <2> QED BY <2>4, <2>5, <2>6 DEF IInv
  <1>2. ASSUME NEW t \in Thread, Arm(t) PROVE IInv'
    <2>1. Cardinality(adding') = Cardinality(adding) - 1
      BY <1>0, <1>2, FS_RemoveElement DEF Arm
    <2>2. Shapes'
      BY <1>0, <1>2 DEF Arm, Shapes, ring
    <2>3. NothingStranded'
      BY <1>0, <1>2, <2>1 DEF Arm, NothingStranded, Shapes
    <2>4. LockInv'
      BY <1>0, <1>2 DEF Arm, LockInv, ring
    <2> QED BY <2>2, <2>3, <2>4 DEF IInv
  <1>3. ASSUME NEW t \in Thread, Direct(t) PROVE IInv'
    <2>1. /\ Word(t, pc[t] + 1) \in AnyWord /\ pc' \in [Thread -> Nat]
          /\ \A u \in Thread : pc'[u] <= Words(u)
      BY <1>0, <1>3, NextWord DEF Direct
    <2>2. sending' \in [Thread -> Seq(AnyWord)]
      BY <1>0, <1>3, <2>1 DEF Direct, Shapes
    <2>3. Shapes'
      BY <1>0, <1>3, <2>1, <2>2 DEF Direct, Shapes, queue, ring
    <2>4. NothingStranded'
      BY <1>0, <1>3 DEF Direct, NothingStranded, queue
    <2>5. LockInv'
      <3>1. t \notin locked
        BY <1>0, <1>3, FreeHasNoLock DEF Direct, Next2Send
      <3> QED BY <1>0, <1>3, <3>1 DEF Direct, LockInv, Shapes, ring
    <2> QED BY <2>3, <2>4, <2>5 DEF IInv
  <1>4. CASE Fire
    <2> DEFINE payload == SubSeq(pending_ring_data, 1, 1)
    <2>1. /\ armed > 0 /\ armed' = armed - 1 /\ Free(DspThread) /\ DspThread \in Thread
          /\ pending_ring_data' = RemoveAt(pending_ring_data, 1)
          /\ sending' = sending \/ sending' = [sending EXCEPT ![DspThread] = payload]
          /\ UNCHANGED <<pc, adding, locked, sleeps, since>>
      BY <1>4, RingbusAssumption DEF Fire, TheOldest, DspServes, ring
    <2>2. Len(pending_ring_data) > 0
      BY <1>0, <2>1 DEF NothingStranded, Shapes
    <2>3. /\ payload \in Seq(AnyWord)
          /\ pending_ring_data' \in Seq(AnyWord)
          /\ Len(pending_ring_data') = Len(pending_ring_data) - 1
      BY <1>0, <2>1, <2>2, FrontWord DEF Shapes
    <2> HIDE DEF payload
    <2>4. Shapes'
      <3>1. armed' \in Nat
        BY <1>0, <2>1 DEF Shapes
      <3>2. sending' \in [Thread -> Seq(AnyWord)]
        BY <1>0, <2>1, <2>3 DEF Shapes
      <3> QED BY <1>0, <2>1, <2>3, <3>1, <3>2 DEF Shapes
    <2>5. NothingStranded'
      BY <1>0, <2>1, <2>3 DEF NothingStranded, Shapes
    <2>6. LockInv'
      <3>1. DspThread \notin locked
        BY <1>0, <2>1, FreeHasNoLock
      <3> QED BY <1>0, <2>1, <3>1 DEF LockInv, Shapes
    <2> QED BY <2>4, <2>5, <2>6 DEF IInv
  <1>5. CASE NetArrives
    BY <1>0, <1>5 DEF NetArrives, IInv, Shapes, NothingStranded, LockInv, queue, ring
  <1>6. ASSUME NEW t \in Thread, RbLock(t) PROVE IInv'
    <2>1. /\ sending[t] # Idle /\ locked = {} /\ locked' = {t}
          /\ sleeps' = [sleeps EXCEPT ![t] = MINIMUM_GAP - since]
          /\ UNCHANGED <<pc, adding, pending_ring_data, armed, sending, since>>
      BY <1>6 DEF RbLock, queue
    <2>2. MINIMUM_GAP - since \in 0..MINIMUM_GAP /\ MINIMUM_GAP - since + since = MINIMUM_GAP
      BY <1>0, RingbusAssumption DEF Shapes
    <2>3. sleeps' \in [Thread -> 0..MINIMUM_GAP] /\ sleeps'[t] = MINIMUM_GAP - since
      BY <1>0, <2>1, <2>2 DEF Shapes
    <2>4. Shapes'
      BY <1>0, <2>1, <2>3 DEF Shapes
    <2>5. LockInv'
      BY <1>0, <2>1, <2>2, <2>3, RingbusAssumption DEF LockInv
    <2> QED BY <1>0, <2>1, <2>4, <2>5 DEF IInv, NothingStranded
  <1>7. ASSUME NEW t \in Thread, RbSend(t) PROVE IInv'
    <2>1. /\ t \in locked /\ locked' = locked \ {t} /\ since' = 0
          /\ sending' = [sending EXCEPT ![t] = <<>>]
          /\ UNCHANGED <<pc, adding, pending_ring_data, armed, sleeps>>
      BY <1>7 DEF RbSend, queue, Idle
    <2>2. locked' = {}
      BY <1>0, <2>1 DEF LockInv
    <2>3. Shapes'
      BY <1>0, <2>1, RingbusAssumption DEF Shapes
    <2> QED BY <1>0, <2>1, <2>2, <2>3 DEF IInv, NothingStranded, LockInv
  <1>8. CASE Tick
    <2>1. /\ since' = IF since + 1 <= MINIMUM_GAP THEN since + 1 ELSE MINIMUM_GAP
          /\ UNCHANGED <<pc, adding, pending_ring_data, armed, sending, locked>>
      <3>1. since + 1 \in Int /\ MINIMUM_GAP \in Int
        BY <1>0, RingbusAssumption DEF Shapes
      <3>2. Min({since + 1, MINIMUM_GAP}) =
                IF since + 1 <= MINIMUM_GAP THEN since + 1 ELSE MINIMUM_GAP
        BY <3>1, SmallerOfTwo
      <3> QED BY <1>8, <3>2 DEF Tick, queue
    <2>2. ASSUME NEW t \in Thread
          PROVE  /\ sleeps'[t] = IF sleeps[t] - 1 >= 0 THEN sleeps[t] - 1 ELSE 0
                 /\ sleeps'[t] \in 0..MINIMUM_GAP
      <3>1. sleeps'[t] = Max({sleeps[t] - 1, 0})
        BY <1>8 DEF Tick
      <3>2. sleeps[t] \in 0..MINIMUM_GAP
        BY <1>0 DEF Shapes
      <3>3. sleeps[t] - 1 \in Int
        BY <3>2
      <3>4. Max({sleeps[t] - 1, 0}) = IF sleeps[t] - 1 >= 0 THEN sleeps[t] - 1 ELSE 0
        BY <3>3, LargerOfTwo
      <3> QED BY <3>1, <3>2, <3>4, RingbusAssumption
    <2>3. sleeps' = [t \in Thread |-> sleeps'[t]]
      BY <1>8 DEF Tick
    <2>4. sleeps' \in [Thread -> 0..MINIMUM_GAP]
      BY <2>2, <2>3
    <2>5. Shapes'
      BY <1>0, <2>1, <2>4, RingbusAssumption DEF Shapes
    <2>6. ASSUME NEW t \in locked PROVE sleeps'[t] + since' >= MINIMUM_GAP
      <3>1. t \in Thread /\ sleeps[t] \in 0..MINIMUM_GAP /\ since \in 0..MINIMUM_GAP
        BY <1>0 DEF Shapes
      <3>2. sleeps[t] + since >= MINIMUM_GAP
        BY <1>0 DEF LockInv
      <3> QED BY <2>1, <2>2, <3>1, <3>2, RingbusAssumption
    <2>7. LockInv'
      BY <1>0, <2>1, <2>6 DEF LockInv
    <2> QED BY <1>0, <2>1, <2>5, <2>7 DEF IInv, NothingStranded
  <1>9. CASE UNCHANGED vars
    BY <1>0, <1>9 DEF vars, queue, ring, IInv, Shapes, NothingStranded, LockInv
  <1> QED BY <1>1, <1>2, <1>3, <1>4, <1>5, <1>6, <1>7, <1>8, <1>9 DEF Next, Step, Later

LEMMA InvHolds == Spec => []IInv
  BY InvInit, InvStep, PTL DEF Spec

-----------------------------------------------------------------------------
\* The types of the queue and of the ring, and one holder of HiggsRing's mutex.
THEOREM TypeCorrect == Spec => []TypeOK
  <1>1. IInv => TypeOK
    <2> SUFFICES ASSUME IInv PROVE TypeOK
      OBVIOUS
    <2>1. Cardinality(locked) <= 1
      <3>1. CASE locked = {}
        BY <3>1, FS_EmptySet
      <3>2. ASSUME NEW t \in locked PROVE Cardinality(locked) <= 1
        <4>1. locked = {t}
          BY DEF IInv, LockInv
        <4> QED BY <4>1, FS_Singleton
      <3> QED BY <3>1, <3>2
    <2> QED BY <2>1, ProgramLengths DEF IInv, Shapes, LockInv, TypeOK
  <1> QED BY <1>1, InvHolds, PTL

\* zmqRingbusPeerLater and handle_rb_later: a timer for every word that waits.
THEOREM NoneStranded == Spec => []NothingStranded
  <1>1. IInv => NothingStranded
    BY DEF IInv
  <1> QED BY <1>1, InvHolds, PTL

\* HiggsRing::send: words of any two threads are minimum_gap apart.
THEOREM Gap == Spec => GapKept
  <1>1. IInv /\ [Next]_vars =>
            [\A t \in Thread : (t \in locked /\ t \notin locked') => since = MINIMUM_GAP]_vars
    <2> SUFFICES ASSUME IInv, Next, NEW t \in Thread, t \in locked, t \notin locked'
                 PROVE  since = MINIMUM_GAP
      OBVIOUS
    <2>1. RbSend(t)
      BY DEF Next, Step, Later, Push, Arm, Direct, Fire, NetArrives, RbLock, RbSend, Tick, ring
    <2>2. sleeps[t] = 0 /\ sleeps[t] + since >= MINIMUM_GAP /\ since \in 0..MINIMUM_GAP
      BY <2>1 DEF RbSend, IInv, LockInv, Shapes
    <2> QED BY <2>2, RingbusAssumption
  <1> QED BY <1>1, InvHolds, PTL DEF Spec, GapKept

-----------------------------------------------------------------------------
(***************************************************************************)
(* For any threads and programs: an FPGA never puts together halves of two *)
(* operations as long as no two threads use the same operation on it, and  *)
(* an FPGA that one thread controls does that thread's operations in       *)
(* order, once each.                                                       *)
(*                                                                         *)
(* Each thread has a channel: the queue with what has left it, for those   *)
(* that use zmqRingbusPeerLater, or its own call of HiggsRing::send.  A    *)
(* class of words that only this thread sends, all to one FPGA, is always  *)
(* in the channel in program order from the word after the last one taken  *)
(* (InOrder).  Fire only moves words within the channel, and an FPGA's     *)
(* words leave it from the front although the words for the own ring       *)
(* overtake those for the other node.                                      *)
(***************************************************************************)

\* q without its k-th word.
Without(q, k) == [i \in 1..(Len(q) - 1) |-> IF i < k THEN q[i] ELSE q[i + 1]]

\* Of t's first n words, those of class C after word number done are in q, in
\* order, and q has no others of C; g gives their numbers.
InOrder(q, n, done, C, t) ==
    \E g \in [1..Len(q) -> Nat] :
        /\ \A k \in 1..Len(q) : q[k] \in C => done < g[k] /\ g[k] <= n /\ q[k] = Word(t, g[k])
        /\ \A j, k \in 1..Len(q) : j < k /\ q[j] \in C /\ q[k] \in C => g[j] < g[k]
        /\ \A m \in (done + 1)..n :
               Word(t, m) \in C => \E k \in 1..Len(q) : q[k] \in C /\ g[k] = m

\* The next word of t is put at the end.
LEMMA OrderGrows ==
    ASSUME NEW S, NEW q \in Seq(S), NEW n \in Nat, NEW done \in 0..n, NEW C, NEW t,
           InOrder(q, n, done, C, t), Word(t, n + 1) \in S
    PROVE  InOrder(Append(q, Word(t, n + 1)), n + 1, done, C, t)
  <1> DEFINE r == Append(q, Word(t, n + 1))
  <1>1. Len(q) \in Nat /\ Len(r) = Len(q) + 1
        /\ (\A k \in 1..Len(q) : r[k] = q[k]) /\ r[Len(q) + 1] = Word(t, n + 1)
    BY AppendProperties
  <1>2. PICK g \in [1..Len(q) -> Nat] :
        /\ \A k \in 1..Len(q) : q[k] \in C => done < g[k] /\ g[k] <= n /\ q[k] = Word(t, g[k])
        /\ \A j, k \in 1..Len(q) : j < k /\ q[j] \in C /\ q[k] \in C => g[j] < g[k]
        /\ \A m \in (done + 1)..n :
               Word(t, m) \in C => \E k \in 1..Len(q) : q[k] \in C /\ g[k] = m
    BY DEF InOrder
  <1> DEFINE h == [k \in 1..Len(r) |-> IF k = Len(q) + 1 THEN n + 1 ELSE g[k]]
  <1>3. h \in [1..Len(r) -> Nat] /\ (\A k \in 1..Len(q) : h[k] = g[k]) /\ h[Len(q) + 1] = n + 1
    BY <1>1
  <1> HIDE DEF h, r
  <1>4. \A k \in 1..Len(r) : k \in 1..Len(q) \/ k = Len(q) + 1
    BY <1>1
  <1>5. ASSUME NEW k \in 1..Len(r), r[k] \in C
        PROVE  done < h[k] /\ h[k] <= n + 1 /\ r[k] = Word(t, h[k])
    <2>1. CASE k \in 1..Len(q)
      BY <1>1, <1>2, <1>3, <1>5, <2>1
    <2>2. CASE k = Len(q) + 1
      BY <1>1, <1>3, <2>2
    <2> QED BY <1>4, <2>1, <2>2
  <1>6. ASSUME NEW j \in 1..Len(r), NEW k \in 1..Len(r), j < k, r[j] \in C, r[k] \in C
        PROVE  h[j] < h[k]
    <2>1. j \in 1..Len(q)
      BY <1>1, <1>6
    <2>2. r[j] = q[j] /\ h[j] = g[j]
      BY <1>1, <1>3, <2>1
    <2>3. CASE k \in 1..Len(q)
      <3>1. r[k] = q[k] /\ h[k] = g[k]
        BY <1>1, <1>3, <2>3
      <3> QED BY <1>2, <1>6, <2>1, <2>2, <2>3, <3>1
    <2>4. CASE k = Len(q) + 1
      <3>1. g[j] <= n /\ g[j] \in Nat
        BY <1>2, <1>6, <2>1, <2>2
      <3>2. h[k] = n + 1
        BY <1>3, <2>4
      <3> QED BY <2>2, <3>1, <3>2
    <2> QED BY <1>4, <2>3, <2>4
  <1>7. ASSUME NEW m \in (done + 1)..(n + 1), Word(t, m) \in C
        PROVE  \E k \in 1..Len(r) : r[k] \in C /\ h[k] = m
    <2>1. CASE m = n + 1
      BY <1>1, <1>3, <1>7, <2>1
    <2>2. CASE m \in (done + 1)..n
      <3>1. PICK k \in 1..Len(q) : q[k] \in C /\ g[k] = m
        BY <1>2, <1>7, <2>2
      <3>2. k \in 1..Len(r)
        BY <1>1
      <3> QED BY <1>1, <1>3, <3>1, <3>2
    <2> QED BY <2>1, <2>2
  <1>8. InOrder(r, n + 1, done, C, t)
    BY <1>3, <1>5, <1>6, <1>7 DEF InOrder
  <1> QED BY <1>8 DEF r

\* A word of another class is.
LEMMA OrderIgnores ==
    ASSUME NEW S, NEW q \in Seq(S), NEW n \in Nat, NEW done \in 0..n, NEW C, NEW t,
           InOrder(q, n, done, C, t), NEW w \in S, w \notin C
    PROVE  InOrder(Append(q, w), n, done, C, t)
  <1> DEFINE r == Append(q, w)
  <1>1. Len(q) \in Nat /\ Len(r) = Len(q) + 1
        /\ (\A k \in 1..Len(q) : r[k] = q[k]) /\ r[Len(q) + 1] = w
    BY AppendProperties
  <1>2. PICK g \in [1..Len(q) -> Nat] :
        /\ \A k \in 1..Len(q) : q[k] \in C => done < g[k] /\ g[k] <= n /\ q[k] = Word(t, g[k])
        /\ \A j, k \in 1..Len(q) : j < k /\ q[j] \in C /\ q[k] \in C => g[j] < g[k]
        /\ \A m \in (done + 1)..n :
               Word(t, m) \in C => \E k \in 1..Len(q) : q[k] \in C /\ g[k] = m
    BY DEF InOrder
  <1> DEFINE h == [k \in 1..Len(r) |-> IF k = Len(q) + 1 THEN 0 ELSE g[k]]
  <1>3. h \in [1..Len(r) -> Nat] /\ (\A k \in 1..Len(q) : h[k] = g[k] /\ k \in 1..Len(r))
    BY <1>1
  <1>4. \A k \in 1..Len(r) : r[k] \in C => k \in 1..Len(q)
    BY <1>1
  <1> HIDE DEF h, r
  <1>6. \A k \in 1..Len(r) : r[k] \in C => done < h[k] /\ h[k] <= n /\ r[k] = Word(t, h[k])
    BY <1>1, <1>2, <1>3, <1>4
  <1>7. \A j, k \in 1..Len(r) : j < k /\ r[j] \in C /\ r[k] \in C => h[j] < h[k]
    BY <1>1, <1>2, <1>3, <1>4
  <1>8. \A m \in (done + 1)..n :
               Word(t, m) \in C => \E k \in 1..Len(r) : r[k] \in C /\ h[k] = m
    BY <1>1, <1>2, <1>3
  <1>5. InOrder(r, n, done, C, t)
    BY <1>3, <1>6, <1>7, <1>8 DEF InOrder
  <1> QED BY <1>5 DEF r

\* A word is taken: one of another class, or the first of its class.
LEMMA OrderDrops ==
    ASSUME NEW S, NEW q \in Seq(S), NEW n \in Nat, NEW done \in 0..n, NEW C, NEW t,
           InOrder(q, n, done, C, t), NEW k \in 1..Len(q)
    PROVE  /\ q[k] \notin C => InOrder(Without(q, k), n, done, C, t)
           /\ (q[k] \in C /\ \A j \in 1..(k - 1) : q[j] \notin C) =>
                  \E m \in (done + 1)..n :
                     /\ q[k] = Word(t, m)
                     /\ \A l \in (done + 1)..(m - 1) : Word(t, l) \notin C
                     /\ InOrder(Without(q, k), n, m, C, t)
  <1> DEFINE r == Without(q, k)
             At(i) == IF i < k THEN i ELSE i + 1
  <1>0. Len(q) \in Nat /\ k \in Nat
    OBVIOUS
  <1>1. Len(r) = Len(q) - 1 /\ \A i \in 1..Len(r) : r[i] = q[At(i)]
    <2>1. r = [i \in 1..(Len(q) - 1) |-> IF i < k THEN q[i] ELSE q[i + 1]] /\ Len(q) - 1 \in Nat
      BY <1>0 DEF Without
    <2> QED BY <2>1
  <1>2. \A i \in 1..Len(r) : At(i) \in 1..Len(q) /\ At(i) # k
    BY <1>0, <1>1
  <1>3. \A i, j \in 1..Len(r) : i < j => At(i) < At(j)
    BY <1>0, <1>1
  <1>4. \A l \in 1..Len(q) : l # k => \E i \in 1..Len(r) : At(i) = l
    <2> SUFFICES ASSUME NEW l \in 1..Len(q), l # k PROVE \E i \in 1..Len(r) : At(i) = l
      OBVIOUS
    <2>1. CASE l < k
      BY <1>0, <1>1, <2>1
    <2>2. CASE l > k
      <3>1. l - 1 \in 1..Len(r) /\ ~(l - 1 < k) /\ (l - 1) + 1 = l
        BY <1>0, <1>1, <2>2
      <3> QED BY <3>1
    <2> QED BY <2>1, <2>2
  <1>5. PICK g \in [1..Len(q) -> Nat] :
        /\ \A l \in 1..Len(q) : q[l] \in C => done < g[l] /\ g[l] <= n /\ q[l] = Word(t, g[l])
        /\ \A j, l \in 1..Len(q) : j < l /\ q[j] \in C /\ q[l] \in C => g[j] < g[l]
        /\ \A m \in (done + 1)..n :
               Word(t, m) \in C => \E l \in 1..Len(q) : q[l] \in C /\ g[l] = m
    BY DEF InOrder
  <1> DEFINE h == [i \in 1..Len(r) |-> g[At(i)]]
  <1>6. h \in [1..Len(r) -> Nat] /\ \A i \in 1..Len(r) : h[i] = g[At(i)]
    BY <1>2
  <1> HIDE DEF h, r, At
  <1>7. \A i, j \in 1..Len(r) : i < j /\ r[i] \in C /\ r[j] \in C => h[i] < h[j]
    BY <1>1, <1>2, <1>3, <1>5, <1>6
  <1>8. ASSUME q[k] \notin C PROVE InOrder(r, n, done, C, t)
    <2>1. \A i \in 1..Len(r) : r[i] \in C => done < h[i] /\ h[i] <= n /\ r[i] = Word(t, h[i])
      BY <1>1, <1>2, <1>5, <1>6
    <2>2. ASSUME NEW m \in (done + 1)..n, Word(t, m) \in C
          PROVE  \E i \in 1..Len(r) : r[i] \in C /\ h[i] = m
      <3>1. PICK l \in 1..Len(q) : q[l] \in C /\ g[l] = m
        BY <1>5, <2>2
      <3>2. l # k
        BY <1>8, <3>1
      <3> QED BY <1>1, <1>4, <1>6, <3>1, <3>2
    <2> QED BY <1>6, <1>7, <2>1, <2>2 DEF InOrder
  <1>9. ASSUME q[k] \in C, \A j \in 1..(k - 1) : q[j] \notin C
        PROVE  \E m \in (done + 1)..n :
                     /\ q[k] = Word(t, m)
                     /\ \A l \in (done + 1)..(m - 1) : Word(t, l) \notin C
                     /\ InOrder(r, n, m, C, t)
    <2>1. g[k] \in (done + 1)..n /\ q[k] = Word(t, g[k])
      BY <1>5, <1>9
    <2>2. \A l \in 1..Len(q) : q[l] \in C /\ l # k => k < l
      BY <1>0, <1>9
    <2>3. ASSUME NEW l \in (done + 1)..(g[k] - 1) PROVE Word(t, l) \notin C
      <3> SUFFICES ASSUME Word(t, l) \in C PROVE FALSE
        OBVIOUS
      <3>1. l \in (done + 1)..n
        BY <2>1
      <3>2. PICK i \in 1..Len(q) : q[i] \in C /\ g[i] = l
        BY <1>5, <3>1
      <3>3. i # k
        BY <2>1, <3>2
      <3>4. g[k] < g[i]
        BY <1>5, <1>9, <2>2, <3>2, <3>3
      <3> QED BY <2>1, <3>2, <3>4
    <2>4. \A i \in 1..Len(r) : r[i] \in C => g[k] < h[i] /\ h[i] <= n /\ r[i] = Word(t, h[i])
      <3> SUFFICES ASSUME NEW i \in 1..Len(r), r[i] \in C
                   PROVE  g[k] < h[i] /\ h[i] <= n /\ r[i] = Word(t, h[i])
        OBVIOUS
      <3>1. At(i) \in 1..Len(q) /\ At(i) # k /\ q[At(i)] \in C
        BY <1>1, <1>2
      <3>2. g[k] < g[At(i)]
        BY <1>5, <1>9, <2>2, <3>1
      <3> QED BY <1>1, <1>5, <1>6, <3>1, <3>2
    <2>5. ASSUME NEW m \in (g[k] + 1)..n, Word(t, m) \in C
          PROVE  \E i \in 1..Len(r) : r[i] \in C /\ h[i] = m
      <3>0. m \in (done + 1)..n /\ m # g[k]
        BY <2>1
      <3>1. PICK l \in 1..Len(q) : q[l] \in C /\ g[l] = m
        BY <1>5, <2>5, <3>0
      <3>2. l # k
        BY <3>0, <3>1
      <3> QED BY <1>1, <1>4, <1>6, <3>1, <3>2
    <2>6. InOrder(r, n, g[k], C, t)
      BY <1>6, <1>7, <2>4, <2>5 DEF InOrder
    <2> QED BY <2>1, <2>3, <2>6
  <1> QED BY <1>8, <1>9 DEF r

-----------------------------------------------------------------------------
\* The words of a thread, and those that may be queued.
OwnWords(t) == {Word(t, n) : n \in 1..Words(t)}
QueuedWord == UNION {OwnWords(t) : t \in Queued}

\* Which words may be where: net has queued words for the other node, the
\* EventDsp thread sends queued words for the own ring, and the threads that do
\* not queue send their own.
Routes ==
    /\ net \in Seq(QueuedWord) /\ pending_ring_data \in Seq(QueuedWord)
    /\ sending \in [Thread -> Seq(AnyWord)]
    /\ \A k \in 1..Len(net) : net[k].fpga \notin Own
    /\ sending[DspThread] \in Seq(QueuedWord)
    /\ \A k \in 1..Len(sending[DspThread]) : sending[DspThread][k].fpga \in Own
    /\ \A t \in Thread : Len(sending[t]) <= 1
    /\ \A t \in Thread \ Queued : sending[t] \in Seq(OwnWords(t))
    /\ \A t \in Queued \ {DspThread} : sending[t] = <<>>

\* The EventDsp thread is one of the queue's users.
LEMMA Threads == DspThread \in Thread /\ DspThread \in Queued /\ Queued \subseteq Thread
  BY RingbusAssumption

\* Own and queued words are words.
LEMMA WordSets ==
    /\ QueuedWord \subseteq AnyWord
    /\ \A t \in Thread : OwnWords(t) \subseteq AnyWord
    /\ \A t \in Queued : OwnWords(t) \subseteq QueuedWord
  BY Threads DEF QueuedWord, OwnWords, AnyWord

\* What Next2Send makes the next word of its thread.
LEMMA NextOwnWord ==
    ASSUME Shapes, NEW t \in Thread, Next2Send(t)
    PROVE  Word(t, pc[t] + 1) \in OwnWords(t) /\ pc[t] + 1 \in 1..Words(t)
  <1>1. pc[t] + 1 \in 1..Words(t)
    BY ProgramLengths DEF Shapes, Next2Send
  <1> QED BY <1>1 DEF OwnWords

\* The word in front of a queue, and the rest.
LEMMA QueueFront ==
    ASSUME NEW S, NEW s \in Seq(S), Len(s) > 0
    PROVE  /\ s[1] \in S /\ SubSeq(s, 1, 1) = <<s[1]>>
           /\ RemoveAt(s, 1) = Tail(s) /\ Tail(s) \in Seq(S)
           /\ s = <<s[1]>> \o Tail(s)
  <1>1. Len(s) \in Nat /\ s # <<>> /\ s[1] \in S
    OBVIOUS
  <1>2. Tail(s) \in Seq(S) /\ Len(Tail(s)) = Len(s) - 1
        /\ \A i \in 1..Len(Tail(s)) : Tail(s)[i] = s[i + 1]
    BY <1>1, HeadTailProperties
  <1>3. SubSeq(s, 1, 1) = <<s[1]>>
    <2> DEFINE r == SubSeq(s, 1, 1)
    <2>0. \A i \in 1..1 : s[i] \in S
      BY <1>1
    <2>1. /\ r \in Seq(S) /\ Len(r) = IF 1 <= 1 THEN 1 - 1 + 1 ELSE 0
          /\ \A i \in 1..(1 - 1 + 1) : r[i] = s[1 + i - 1]
      BY <2>0, SubSeqProperties
    <2>2. <<s[1]>> \in Seq(S) /\ Len(<<s[1]>>) = 1 /\ <<s[1]>>[1] = s[1]
      BY <1>1
    <2> HIDE DEF r
    <2>3. Len(r) = 1 /\ r[1] = s[1]
      BY <2>1
    <2>4. Len(r) = Len(<<s[1]>>) /\ \A i \in 1..Len(r) : r[i] = <<s[1]>>[i]
      BY <2>2, <2>3
    <2>5. r = <<s[1]>>
      BY <2>1, <2>2, <2>4, SeqEqual
    <2> QED BY <2>5 DEF r
  <1>4. SubSeq(s, 1, 0) = <<>>
    BY SubSeqEmpty
  <1>5. Tail(s) = SubSeq(s, 2, Len(s))
    BY <1>1, TailIsSubSeq
  <1>6. RemoveAt(s, 1) = <<>> \o Tail(s)
    BY <1>4, <1>5 DEF RemoveAt
  <1>7. RemoveAt(s, 1) = Tail(s)
    BY <1>2, <1>6, ConcatEmptySeq
  <1>8. s = <<s[1]>> \o Tail(s)
    <2>1. 1 \in 1..Len(s) /\ Len(s) \in 1..Len(s)
      BY <1>1
    <2>2. SubSeq(s, 1, Len(s)) = <<s[1]>> \o SubSeq(s, 1 + 1, Len(s))
      BY <2>1, SubSeqRecursiveFirst
    <2>3. SubSeq(s, 1, Len(s)) = s
      BY SubSeqFull
    <2> QED BY <1>5, <2>2, <2>3
  <1> QED BY <1>1, <1>2, <1>3, <1>7, <1>8

\* Routes is an invariant.
LEMMA RoutesInit == Init => Routes
  BY Threads DEF Init, Routes, Idle

\* Every step keeps it.
LEMMA RoutesStep == IInv /\ Routes /\ [Next]_vars => Routes'
  <1> SUFFICES ASSUME IInv, Routes, [Next]_vars PROVE Routes'
    OBVIOUS
  <1> USE Threads
  <1>0. Shapes /\ sending' \in [Thread -> Seq(AnyWord)]
    BY InvStep DEF IInv, Shapes
  <1>1. ASSUME NEW t \in Thread, Push(t) PROVE Routes'
    <2>1. Word(t, pc[t] + 1) \in QueuedWord
      BY <1>0, <1>1, NextOwnWord, WordSets DEF Push
    <2>2. pending_ring_data' \in Seq(QueuedWord)
      BY <1>1, <2>1 DEF Push, Routes
    <2> QED BY <1>1, <2>2 DEF Push, Routes
  <1>2. ASSUME NEW t \in Thread, Arm(t) PROVE Routes'
    BY <1>2 DEF Arm, Routes
  <1>3. ASSUME NEW t \in Thread, Direct(t) PROVE Routes'
    <2>1. Word(t, pc[t] + 1) \in OwnWords(t)
      BY <1>0, <1>3, NextOwnWord DEF Direct
    <2>2. /\ t \notin Queued
          /\ sending' = [sending EXCEPT ![t] = <<Word(t, pc[t] + 1)>>]
          /\ UNCHANGED <<pending_ring_data, net>>
      BY <1>3 DEF Direct, queue
    <2>3. sending'[t] = <<Word(t, pc[t] + 1)>> /\ \A u \in Thread \ {t} : sending'[u] = sending[u]
      BY <2>2 DEF Routes
    <2>4. sending'[t] \in Seq(OwnWords(t)) /\ Len(sending'[t]) = 1
      BY <2>1, <2>3
    <2> QED BY <1>0, <2>2, <2>3, <2>4 DEF Routes
  <1>4. CASE Fire
    <2> DEFINE p == pending_ring_data
    <2>0. armed > 0 /\ DspServes
      BY <1>4 DEF Fire
    <2>1. Len(p) > 0
      <3>1. Cardinality(adding) \in Nat /\ armed \in Nat /\ Len(p) = armed + Cardinality(adding)
        BY AddingIsFinite, FS_CardinalityType DEF IInv, Shapes, NothingStranded
      <3> QED BY <2>0, <3>1
    <2>2. /\ p[1] \in QueuedWord /\ SubSeq(p, 1, 1) = <<p[1]>>
          /\ RemoveAt(p, 1) = Tail(p) /\ Tail(p) \in Seq(QueuedWord)
      BY <2>1, QueueFront DEF Routes
    <2>3. (\A i \in 1..Len(<<p[1]>>) : <<p[1]>>[i].fpga \in Own) <=> p[1].fpga \in Own
      OBVIOUS
    <2>4. /\ pending_ring_data' = Tail(p)
          /\ \/ /\ p[1].fpga \in Own /\ UNCHANGED net
                /\ sending' = [sending EXCEPT ![DspThread] = <<p[1]>>]
             \/ p[1].fpga \notin Own /\ net' = net \o <<p[1]>> /\ UNCHANGED sending
      BY <1>4, <2>2, <2>3 DEF Fire, TheOldest
    <2>5. CASE p[1].fpga \in Own
      <3>1. /\ sending'[DspThread] = <<p[1]>> /\ UNCHANGED net
            /\ \A u \in Thread \ {DspThread} : sending'[u] = sending[u]
        BY <2>4, <2>5 DEF Routes
      <3>2. sending'[DspThread] \in Seq(QueuedWord) /\ Len(sending'[DspThread]) = 1
            /\ \A k \in 1..Len(sending'[DspThread]) : sending'[DspThread][k].fpga \in Own
        BY <2>2, <2>5, <3>1
      <3>3. \A t \in Thread : Len(sending'[t]) <= 1
        <4> SUFFICES ASSUME NEW t \in Thread PROVE Len(sending'[t]) <= 1
          OBVIOUS
        <4>1. CASE t = DspThread
          <5>1. Len(sending'[DspThread]) = 1
            BY <3>2
          <5>2. \A x : x = 1 => x <= 1
            OBVIOUS
          <5> QED BY <4>1, <5>1, <5>2
        <4>2. CASE t # DspThread
          <5>1. sending'[t] = sending[t] /\ Len(sending[t]) <= 1
            BY <3>1, <4>2 DEF Routes
          <5> QED BY <5>1
        <4> QED BY <4>1, <4>2
      <3>4. /\ \A t \in Thread \ Queued : sending'[t] \in Seq(OwnWords(t))
            /\ \A t \in Queued \ {DspThread} : sending'[t] = <<>>
        BY <3>1 DEF Routes
      <3> QED BY <1>0, <2>2, <2>4, <3>1, <3>2, <3>3, <3>4 DEF Routes
    <2>6. CASE p[1].fpga \notin Own
      <3>1. <<p[1]>> \in Seq(QueuedWord) /\ Len(<<p[1]>>) = 1 /\ <<p[1]>>[1] = p[1]
        BY <2>2
      <3>2. net' = Append(net, p[1])
        BY <2>2, <2>4, <2>6, AppendIsConcat DEF Routes
      <3>3. Len(net) \in Nat /\ net' \in Seq(QueuedWord)
            /\ \A k \in 1..Len(net') : net'[k] = IF k <= Len(net) THEN net[k] ELSE p[1]
        BY <2>2, <3>2 DEF Routes
      <3>4. \A k \in 1..Len(net') : net'[k].fpga \notin Own
        BY <2>6, <3>3 DEF Routes
      <3> QED BY <2>2, <2>4, <2>6, <3>3, <3>4 DEF Routes
    <2> QED BY <2>5, <2>6
  <1>5. CASE NetArrives
    <2>1. net' \in Seq(QueuedWord) /\ Len(net') = Len(net) - 1 /\ Len(net) \in Nat
          /\ \A i \in 1..Len(net') : net'[i] = net[i + 1]
      BY <1>5, HeadTailProperties DEF NetArrives, Routes
    <2>2. \A k \in 1..Len(net') : net'[k].fpga \notin Own
      BY <2>1 DEF Routes
    <2> QED BY <1>5, <2>1, <2>2 DEF NetArrives, Routes, queue
  <1>6. ASSUME NEW t \in Thread, RbLock(t) PROVE Routes'
    BY <1>6 DEF RbLock, Routes, queue
  <1>7. ASSUME NEW t \in Thread, RbSend(t) PROVE Routes'
    <2>1. /\ sending'[t] = <<>> /\ \A u \in Thread \ {t} : sending'[u] = sending[u]
          /\ UNCHANGED <<net, pending_ring_data>>
      BY <1>7 DEF RbSend, Routes, queue, Idle
    <2>2. Len(sending'[t]) = 0 /\ \A S : sending'[t] \in Seq(S)
      BY <2>1
    <2>3. ASSUME NEW u \in Thread
          PROVE  /\ Len(sending'[u]) <= 1
                 /\ u \notin Queued => sending'[u] \in Seq(OwnWords(u))
                 /\ u \in Queued \ {DspThread} => sending'[u] = <<>>
      <3>1. CASE u = t
        <4>1. \A x : x = 0 => x <= 1
          OBVIOUS
        <4> QED BY <2>1, <2>2, <3>1, <4>1
      <3>2. CASE u # t
        <4>1. sending'[u] = sending[u] /\ Len(sending[u]) <= 1
          BY <2>1, <3>2 DEF Routes
        <4> QED BY <4>1 DEF Routes
      <3> QED BY <3>1, <3>2
    <2>4. /\ sending'[DspThread] \in Seq(QueuedWord)
          /\ \A k \in 1..Len(sending'[DspThread]) : sending'[DspThread][k].fpga \in Own
      <3>1. CASE DspThread = t
        <4>1. sending'[DspThread] = <<>>
          BY <2>1, <3>1
        <4>2. sending'[DspThread] \in Seq(QueuedWord) /\ Len(sending'[DspThread]) = 0
          BY <4>1
        <4> QED BY <4>2
      <3>2. CASE DspThread # t
        BY <2>1, <3>2 DEF Routes
      <3> QED BY <3>1, <3>2
    <2> QED BY <1>0, <2>1, <2>3, <2>4 DEF Routes
  <1>8. CASE Tick
    BY <1>8 DEF Tick, Routes, queue
  <1>9. CASE UNCHANGED vars
    BY <1>9 DEF vars, Routes, queue
  <1> QED BY <1>1, <1>2, <1>3, <1>4, <1>5, <1>6, <1>7, <1>8, <1>9 DEF Next, Step, Later

-----------------------------------------------------------------------------
\* Where the elements of a concatenation are.
LEMMA ConcatAt ==
    ASSUME NEW S, NEW a \in Seq(S), NEW b \in Seq(S)
    PROVE  /\ a \o b \in Seq(S) /\ Len(a \o b) = Len(a) + Len(b)
           /\ \A i \in 1..Len(a) : (a \o b)[i] = a[i]
           /\ \A i \in 1..Len(b) : (a \o b)[Len(a) + i] = b[i]
  <1> DEFINE c == a \o b
  <1>1. Len(a) \in Nat /\ Len(b) \in Nat
    OBVIOUS
  <1>2. /\ c \in Seq(S) /\ Len(c) = Len(a) + Len(b)
        /\ \A i \in 1..Len(a) + Len(b) : c[i] = IF i <= Len(a) THEN a[i] ELSE b[i - Len(a)]
    BY ConcatProperties
  <1> HIDE DEF c
  <1>3. \A i \in 1..Len(a) : c[i] = a[i]
    BY <1>1, <1>2
  <1>4. ASSUME NEW i \in 1..Len(b) PROVE c[Len(a) + i] = b[i]
    <2>1. Len(a) + i \in 1..Len(a) + Len(b) /\ ~(Len(a) + i <= Len(a)) /\ Len(a) + i - Len(a) = i
      BY <1>1
    <2> QED BY <1>2, <2>1
  <1> QED BY <1>2, <1>3, <1>4 DEF c

\* The elements of Without.
LEMMA WithoutIsSeq ==
    ASSUME NEW S, NEW q \in Seq(S), NEW k \in 1..Len(q)
    PROVE  /\ Without(q, k) \in Seq(S) /\ Len(Without(q, k)) = Len(q) - 1
           /\ \A i \in 1..(Len(q) - 1) : Without(q, k)[i] = IF i < k THEN q[i] ELSE q[i + 1]
  <1> DEFINE r == Without(q, k)
  <1>1. Len(q) \in Nat /\ Len(q) - 1 \in Nat
    OBVIOUS
  <1>2. r = [i \in 1..(Len(q) - 1) |-> IF i < k THEN q[i] ELSE q[i + 1]]
    BY DEF Without
  <1>3. \A i \in 1..(Len(q) - 1) : (IF i < k THEN q[i] ELSE q[i + 1]) \in S
    BY <1>1
  <1>4. r \in [1..(Len(q) - 1) -> S]
    BY <1>2, <1>3
  <1>5. r \in Seq(S) /\ Len(r) = Len(q) - 1
    BY <1>1, <1>4
  <1> QED BY <1>2, <1>5

\* Taking the first element of the first of two sequences.
LEMMA WithoutFirst ==
    ASSUME NEW S, NEW a \in Seq(S), NEW b \in Seq(S), a # <<>>
    PROVE  Tail(a) \o b = Without(a \o b, 1) /\ (a \o b)[1] = Head(a) /\ 1 \in 1..Len(a \o b)
  <1> DEFINE q == a \o b
             r == Tail(a) \o b
  <1>1. Len(a) \in Nat /\ Len(a) > 0 /\ Len(b) \in Nat /\ Head(a) = a[1]
    OBVIOUS
  <1>2. Tail(a) \in Seq(S) /\ Len(Tail(a)) = Len(a) - 1
        /\ \A i \in 1..Len(Tail(a)) : Tail(a)[i] = a[i + 1]
    BY HeadTailProperties
  <1>3. /\ q \in Seq(S) /\ Len(q) = Len(a) + Len(b)
        /\ \A i \in 1..Len(a) : q[i] = a[i]
        /\ \A i \in 1..Len(b) : q[Len(a) + i] = b[i]
    BY ConcatAt
  <1>4. /\ r \in Seq(S) /\ Len(r) = Len(a) - 1 + Len(b)
        /\ \A i \in 1..(Len(a) - 1) : r[i] = a[i + 1]
        /\ \A i \in 1..Len(b) : r[Len(a) - 1 + i] = b[i]
    <2>1. /\ r \in Seq(S) /\ Len(r) = Len(Tail(a)) + Len(b)
          /\ \A i \in 1..Len(Tail(a)) : r[i] = Tail(a)[i]
          /\ \A i \in 1..Len(b) : r[Len(Tail(a)) + i] = b[i]
      BY <1>2, ConcatAt
    <2> HIDE DEF r
    <2> QED BY <1>2, <2>1
  <1> HIDE DEF q, r
  <1>5. 1 \in 1..Len(q) /\ q[1] = Head(a)
    BY <1>1, <1>3
  <1> DEFINE w == Without(q, 1)
  <1>6. /\ w \in Seq(S) /\ Len(w) = Len(q) - 1
        /\ \A i \in 1..(Len(q) - 1) : w[i] = IF i < 1 THEN q[i] ELSE q[i + 1]
    BY <1>3, <1>5, WithoutIsSeq
  <1> HIDE DEF w
  <1>7. Len(r) = Len(w)
    BY <1>1, <1>3, <1>4, <1>6
  <1>8. ASSUME NEW i \in 1..Len(r) PROVE r[i] = w[i]
    <2>0. w[i] = q[i + 1]
      BY <1>1, <1>3, <1>4, <1>6
    <2>1. CASE i < Len(a)
      <3>1. i \in 1..(Len(a) - 1) /\ i + 1 \in 1..Len(a)
        BY <1>1, <1>4, <2>1
      <3> QED BY <1>3, <1>4, <2>0, <3>1
    <2>2. CASE ~(i < Len(a))
      <3>1. i - Len(a) + 1 \in 1..Len(b) /\ Len(a) - 1 + (i - Len(a) + 1) = i
            /\ Len(a) + (i - Len(a) + 1) = i + 1
        BY <1>1, <1>4, <2>2
      <3> QED BY <1>3, <1>4, <2>0, <3>1
    <2> QED BY <2>1, <2>2
  <1>9. r = w
    BY <1>4, <1>6, <1>7, <1>8, SeqEqual
  <1> QED BY <1>5, <1>9 DEF q, r, w

\* Taking the only element of the middle one of three.
LEMMA WithoutMiddle ==
    ASSUME NEW S, NEW a \in Seq(S), NEW d \in Seq(S), Len(d) = 1, NEW c \in Seq(S)
    PROVE  LET q == a \o (d \o c) IN
           /\ a \o (<<>> \o c) = Without(q, Len(a) + 1)
           /\ Len(a) + 1 \in 1..Len(q) /\ q[Len(a) + 1] = Head(d)
           /\ \A j \in 1..Len(a) : q[j] = a[j]
  <1> DEFINE dc == d \o c
             q == a \o dc
             r == a \o c
  <1>1. Len(a) \in Nat /\ Len(c) \in Nat /\ Len(d) = 1 /\ Head(d) = d[1]
    OBVIOUS
  <1>2. /\ dc \in Seq(S) /\ Len(dc) = 1 + Len(c)
        /\ dc[1] = d[1] /\ \A i \in 1..Len(c) : dc[1 + i] = c[i]
    <2>1. /\ dc \in Seq(S) /\ Len(dc) = Len(d) + Len(c)
          /\ \A i \in 1..Len(d) + Len(c) : dc[i] = IF i <= Len(d) THEN d[i] ELSE c[i - Len(d)]
      BY ConcatProperties
    <2> HIDE DEF dc
    <2>2. dc[1] = d[1]
      BY <1>1, <2>1
    <2>3. ASSUME NEW i \in 1..Len(c) PROVE dc[1 + i] = c[i]
      <3>1. 1 + i \in 1..Len(d) + Len(c) /\ ~(1 + i <= Len(d)) /\ 1 + i - Len(d) = i
        BY <1>1
      <3> QED BY <2>1, <3>1
    <2> QED BY <1>1, <2>1, <2>2, <2>3
  <1> HIDE DEF dc
  <1>3. /\ q \in Seq(S) /\ Len(q) = Len(a) + (1 + Len(c))
        /\ \A i \in 1..Len(a) : q[i] = a[i]
        /\ \A i \in 1..(1 + Len(c)) : q[Len(a) + i] = dc[i]
    <2>1. /\ q \in Seq(S) /\ Len(q) = Len(a) + Len(dc)
          /\ \A i \in 1..Len(a) : q[i] = a[i]
          /\ \A i \in 1..Len(dc) : q[Len(a) + i] = dc[i]
      <3>1. dc \in Seq(S)
        BY <1>2
      <3> QED BY <3>1, ConcatAt
    <2> HIDE DEF q
    <2> QED BY <1>2, <2>1
  <1>4. /\ r \in Seq(S) /\ Len(r) = Len(a) + Len(c)
        /\ \A i \in 1..Len(a) : r[i] = a[i]
        /\ \A i \in 1..Len(c) : r[Len(a) + i] = c[i]
    BY ConcatAt
  <1>5. a \o (<<>> \o c) = r
    BY ConcatEmptySeq
  <1> HIDE DEF q, r
  <1>6. Len(a) + 1 \in 1..Len(q) /\ q[Len(a) + 1] = Head(d)
    BY <1>1, <1>2, <1>3
  <1> DEFINE w == Without(q, Len(a) + 1)
  <1>7. /\ w \in Seq(S) /\ Len(w) = Len(q) - 1
        /\ \A i \in 1..(Len(q) - 1) : w[i] = IF i < Len(a) + 1 THEN q[i] ELSE q[i + 1]
    BY <1>3, <1>6, WithoutIsSeq
  <1> HIDE DEF w
  <1>8. Len(r) = Len(w)
    BY <1>1, <1>3, <1>4, <1>7
  <1>9. ASSUME NEW i \in 1..Len(r) PROVE r[i] = w[i]
    <2>0. i \in 1..(Len(q) - 1) /\ i \in Nat
      BY <1>1, <1>3, <1>4
    <2>1. CASE i <= Len(a)
      <3>1. i \in 1..Len(a) /\ i < Len(a) + 1
        BY <1>1, <2>0, <2>1
      <3> QED BY <1>3, <1>4, <1>7, <2>0, <3>1
    <2>2. CASE ~(i <= Len(a))
      <3>1. /\ i - Len(a) \in 1..Len(c) /\ Len(a) + (i - Len(a)) = i
            /\ 1 + (i - Len(a)) \in 1..(1 + Len(c)) /\ Len(a) + (1 + (i - Len(a))) = i + 1
            /\ ~(i < Len(a) + 1)
        BY <1>1, <1>4, <2>2
      <3>2. w[i] = q[i + 1]
        BY <1>7, <2>0, <3>1
      <3>3. q[i + 1] = c[i - Len(a)]
        BY <1>2, <1>3, <3>1
      <3> QED BY <1>4, <3>1, <3>2, <3>3
    <2> QED BY <2>1, <2>2
  <1>10. r = w
    BY <1>4, <1>7, <1>8, <1>9, SeqEqual
  <1> QED BY <1>3, <1>5, <1>6, <1>10 DEF q, w, dc

\* Appending to the last of three.
LEMMA AppendLast ==
    ASSUME NEW S, NEW a \in Seq(S), NEW b \in Seq(S), NEW c \in Seq(S), NEW w \in S
    PROVE  a \o (b \o Append(c, w)) = Append(a \o (b \o c), w)
  <1>1. <<w>> \in Seq(S) /\ b \o c \in Seq(S) /\ a \o (b \o c) \in Seq(S)
    BY ConcatProperties
  <1>2. Append(c, w) = c \o <<w>> /\ Append(a \o (b \o c), w) = (a \o (b \o c)) \o <<w>>
    BY <1>1, AppendIsConcat
  <1>3. b \o (c \o <<w>>) = (b \o c) \o <<w>>
    BY <1>1, ConcatAssociative
  <1>4. a \o ((b \o c) \o <<w>>) = (a \o (b \o c)) \o <<w>>
    BY <1>1, ConcatAssociative
  <1> QED BY <1>2, <1>3, <1>4

\* Moving the front of the last one to the middle, or to the first.
LEMMA FrontMoves ==
    ASSUME NEW S, NEW a \in Seq(S), NEW s \in Seq(S), Len(s) > 0
    PROVE  /\ a \o (<<s[1]>> \o Tail(s)) = a \o (<<>> \o s)
           /\ (a \o <<s[1]>>) \o (<<>> \o Tail(s)) = a \o (<<>> \o s)
  <1>1. /\ s[1] \in S /\ Tail(s) \in Seq(S) /\ s = <<s[1]>> \o Tail(s)
    BY QueueFront
  <1>2. <<s[1]>> \in Seq(S)
    BY <1>1
  <1>3. <<>> \o s = s /\ <<>> \o Tail(s) = Tail(s)
    BY <1>1, ConcatEmptySeq
  <1>4. (a \o <<s[1]>>) \o Tail(s) = a \o (<<s[1]>> \o Tail(s))
    BY <1>1, <1>2, ConcatAssociative
  <1> QED BY <1>1, <1>3, <1>4

-----------------------------------------------------------------------------
\* A queued word waits in pending_ring_data, then is sent by the EventDsp
\* thread or is in net.
Pipeline == net \o (sending[DspThread] \o pending_ring_data)
Chan(t) == IF t \in Queued THEN Pipeline ELSE sending[t]

\* What a step may do to a channel.
Rests(t) == Chan(t)' = Chan(t) /\ pc'[t] = pc[t]
Quiet(t) == Rests(t) /\ UNCHANGED fpgas
OthersTaken(t) ==
    Rests(t) /\ \E u \in Thread \ {t}, n \in Nat : n \in 1..Words(u) /\ Takes(Word(u, n))
Sends(t) ==
    /\ pc[t] < Words(t) /\ pc'[t] = pc[t] + 1
    /\ Chan(t)' = Append(Chan(t), Word(t, pc[t] + 1)) /\ UNCHANGED fpgas
OthersSend(t) ==
    /\ pc'[t] = pc[t] /\ UNCHANGED fpgas
    /\ \E u \in Thread \ {t}, n \in Nat :
          n \in 1..Words(u) /\ Chan(t)' = Append(Chan(t), Word(u, n))
TakenAt(t, k) ==
    /\ k \in 1..Len(Chan(t)) /\ UNCHANGED pc
    /\ Chan(t)' = Without(Chan(t), k) /\ Takes(Chan(t)[k])
    /\ \A j \in 1..(k - 1) : Chan(t)[j].fpga # Chan(t)[k].fpga
Taken(t) == \E k \in 1..Len(Chan(t)) : TakenAt(t, k)

\* The pipeline has queued words only.
LEMMA Pipe ==
    ASSUME Routes
    PROVE  /\ net \in Seq(QueuedWord) /\ pending_ring_data \in Seq(QueuedWord)
           /\ sending[DspThread] \in Seq(QueuedWord) /\ Pipeline \in Seq(QueuedWord)
  <1>1. /\ net \in Seq(QueuedWord) /\ pending_ring_data \in Seq(QueuedWord)
        /\ sending[DspThread] \in Seq(QueuedWord)
    BY DEF Routes
  <1>2. sending[DspThread] \o pending_ring_data \in Seq(QueuedWord)
    BY <1>1, ConcatProperties
  <1>3. Pipeline \in Seq(QueuedWord)
    BY <1>1, <1>2, ConcatProperties DEF Pipeline
  <1> QED BY <1>1, <1>3

\* A channel has words.
LEMMA ChannelType ==
    ASSUME Routes, NEW t \in Thread PROVE Chan(t) \in Seq(AnyWord)
  <1>1. CASE t \in Queued
    BY <1>1, Pipe, WordSets, SeqMonotonic DEF Chan
  <1>2. CASE t \notin Queued
    BY <1>2 DEF Chan, Routes
  <1> QED BY <1>1, <1>2

\* A step that neither takes nor sends a word of the pipeline.
LEMMA PipelineRests ==
    ASSUME UNCHANGED <<net, pending_ring_data>>, sending'[DspThread] = sending[DspThread]
    PROVE  Pipeline' = Pipeline
  BY DEF Pipeline

\* Push is a step of its thread's channel and of the other queue users'.
LEMMA PushSends ==
    ASSUME IInv, Routes, NEW u \in Thread, Push(u), NEW t \in Thread
    PROVE  Quiet(t) \/ Sends(t) \/ OthersSend(t)
  <1>1. /\ u \in Queued /\ Word(u, pc[u] + 1) \in OwnWords(u) /\ pc[u] + 1 \in 1..Words(u)
        /\ pc[u] < Words(u) /\ pc[u] \in Nat
    BY NextOwnWord DEF Push, IInv, Shapes, Next2Send
  <1>2. Word(u, pc[u] + 1) \in QueuedWord
    BY <1>1, WordSets
  <1>3. /\ pending_ring_data' = Append(pending_ring_data, Word(u, pc[u] + 1))
        /\ UNCHANGED <<net, sending, fpgas>>
        /\ pc'[u] = pc[u] + 1 /\ \A v \in Thread \ {u} : pc'[v] = pc[v]
    BY DEF Push, IInv, Shapes
  <1>4. Pipeline' = Append(Pipeline, Word(u, pc[u] + 1))
    <2> DEFINE w == Word(u, pc[u] + 1)
               a == net
               b == sending[DspThread]
               c == pending_ring_data
    <2>1. w \in QueuedWord /\ a \in Seq(QueuedWord) /\ b \in Seq(QueuedWord) /\ c \in Seq(QueuedWord)
      BY <1>2, Pipe
    <2>2. Pipeline = a \o (b \o c) /\ Pipeline' = a \o (b \o Append(c, w))
      BY <1>3 DEF Pipeline
    <2> HIDE DEF a, b, c, w
    <2>3. a \o (b \o Append(c, w)) = Append(a \o (b \o c), w)
      BY <2>1, AppendLast, SMTT(40)
    <2> QED BY <2>2, <2>3 DEF w
  <1>5. CASE t \notin Queued
    BY <1>1, <1>3, <1>5 DEF Quiet, Rests, Chan
  <1>6. CASE t = u
    BY <1>1, <1>3, <1>4, <1>6 DEF Sends, Chan
  <1>7. CASE t \in Queued /\ t # u
    <2>1. pc'[t] = pc[t] /\ Chan(t)' = Append(Chan(t), Word(u, pc[u] + 1))
      BY <1>3, <1>4, <1>7 DEF Chan
    <2>2. u \in Thread \ {t} /\ pc[u] + 1 \in Nat
      BY <1>1, <1>7
    <2> QED BY <1>1, <1>3, <2>1, <2>2 DEF OthersSend
  <1> QED BY <1>5, <1>6, <1>7

\* Direct is a step of its thread's channel alone.
LEMMA DirectSends ==
    ASSUME IInv, Routes, NEW u \in Thread, Direct(u), NEW t \in Thread
    PROVE  Quiet(t) \/ Sends(t)
  <1>1. /\ u \notin Queued /\ Word(u, pc[u] + 1) \in OwnWords(u)
        /\ pc[u] < Words(u) /\ sending[u] = <<>>
    BY NextOwnWord DEF Direct, IInv, Shapes, Next2Send, Free, Idle
  <1>2. /\ sending'[u] = <<Word(u, pc[u] + 1)>> /\ UNCHANGED <<net, pending_ring_data, fpgas>>
        /\ pc'[u] = pc[u] + 1
        /\ \A v \in Thread \ {u} : pc'[v] = pc[v] /\ sending'[v] = sending[v]
    BY DEF Direct, IInv, Shapes, queue
  <1>3. Pipeline' = Pipeline
    BY <1>1, <1>2, Threads, PipelineRests
  <1>4. CASE t = u
    <2>1. Append(sending[t], Word(t, pc[t] + 1)) = sending'[t]
      <3> DEFINE w == Word(t, pc[t] + 1)
      <3> HIDE DEF w
      <3>1. Append(<<>>, w) = <<w>>
        OBVIOUS
      <3> QED BY <1>1, <1>2, <1>4, <3>1 DEF w
    <2> QED BY <1>1, <1>2, <1>4, <2>1 DEF Sends, Chan
  <1>5. CASE t # u
    BY <1>2, <1>3, <1>5 DEF Quiet, Rests, Chan
  <1> QED BY <1>4, <1>5

\* Fire moves a word within the pipeline.
LEMMA FireRests ==
    ASSUME IInv, Routes, Fire, NEW t \in Thread
    PROVE  Quiet(t)
  <1> DEFINE p == pending_ring_data
  <1>0. armed > 0 /\ DspServes /\ UNCHANGED <<pc, fpgas>>
    BY DEF Fire
  <1>1. Len(p) > 0
    <2>1. Cardinality(adding) \in Nat /\ armed \in Nat /\ Len(p) = armed + Cardinality(adding)
      BY AddingIsFinite, FS_CardinalityType DEF IInv, Shapes, NothingStranded
    <2> QED BY <1>0, <2>1
  <1>2. /\ p[1] \in QueuedWord /\ SubSeq(p, 1, 1) = <<p[1]>>
        /\ RemoveAt(p, 1) = Tail(p) /\ Tail(p) \in Seq(QueuedWord)
    BY <1>1, QueueFront DEF Routes
  <1>3. (\A i \in 1..Len(<<p[1]>>) : <<p[1]>>[i].fpga \in Own) <=> p[1].fpga \in Own
    OBVIOUS
  <1>4. /\ pending_ring_data' = Tail(p)
        /\ \/ UNCHANGED net /\ sending' = [sending EXCEPT ![DspThread] = <<p[1]>>]
           \/ net' = net \o <<p[1]>> /\ UNCHANGED sending
    BY <1>2, <1>3 DEF Fire, TheOldest
  <1>5. sending[DspThread] = <<>>
    BY <1>0 DEF DspServes, Free, Idle
  <1>6. /\ net \o (<<p[1]>> \o Tail(p)) = net \o (<<>> \o p)
        /\ (net \o <<p[1]>>) \o (<<>> \o Tail(p)) = net \o (<<>> \o p)
    BY <1>1, Pipe, FrontMoves
  <1>7. Pipeline' = Pipeline
    <2>1. CASE UNCHANGED net /\ sending' = [sending EXCEPT ![DspThread] = <<p[1]>>]
      <3>1. sending'[DspThread] = <<p[1]>>
        BY <2>1, Threads DEF Routes
      <3> QED BY <1>4, <1>5, <1>6, <2>1, <3>1 DEF Pipeline
    <2>2. CASE net' = net \o <<p[1]>> /\ UNCHANGED sending
      BY <1>4, <1>5, <1>6, <2>2 DEF Pipeline
    <2> QED BY <1>4, <2>1, <2>2
  <1>8. t \notin Queued => sending'[t] = sending[t]
    BY <1>4, Threads DEF Routes
  <1> QED BY <1>0, <1>7, <1>8 DEF Quiet, Rests, Chan

\* A word of a queue is one of a thread that uses the queue.
LEMMA OthersWord ==
    ASSUME NEW t \in Thread \ Queued, NEW w \in QueuedWord
    PROVE  \E u \in Thread \ {t}, n \in Nat : n \in 1..Words(u) /\ w = Word(u, n)
  <1>0. PICK u \in Queued : w \in OwnWords(u)
    BY DEF QueuedWord
  <1>1. PICK n \in 1..Words(u) : w = Word(u, n)
    BY <1>0 DEF OwnWords
  <1>2. u \in Thread \ {t} /\ n \in Nat
    BY Threads
  <1> QED BY <1>1, <1>2

\* NetArrives takes the first word of the pipeline.
LEMMA NetTakes ==
    ASSUME IInv, Routes, NetArrives, NEW t \in Thread
    PROVE  IF t \in Queued THEN Taken(t) ELSE OthersTaken(t)
  <1>1. /\ net # <<>> /\ net' = Tail(net) /\ Takes(Head(net))
        /\ UNCHANGED <<pc, pending_ring_data, sending>>
    BY DEF NetArrives, queue
  <1>2. CASE t \in Queued
    <2> DEFINE b == sending[DspThread] \o pending_ring_data
    <2>1. b \in Seq(QueuedWord) /\ net \in Seq(QueuedWord)
      BY Pipe, ConcatProperties
    <2>2. Tail(net) \o b = Without(net \o b, 1) /\ (net \o b)[1] = Head(net) /\ 1 \in 1..Len(net \o b)
      BY <1>1, <2>1, WithoutFirst
    <2>3. Pipeline = net \o b /\ Pipeline' = Tail(net) \o b
      BY <1>1 DEF Pipeline
    <2> HIDE DEF b
    <2>4. /\ Chan(t) = net \o b /\ Chan(t)' = Without(Chan(t), 1) /\ Chan(t)[1] = Head(net)
          /\ 1 \in 1..Len(Chan(t))
      BY <1>2, <2>2, <2>3 DEF Chan
    <2>5. 1..(1 - 1) = {}
      OBVIOUS
    <2>6. \A j \in 1..(1 - 1) : Chan(t)[j].fpga # Chan(t)[1].fpga
      BY <2>5
    <2>7. Takes(Chan(t)[1])
      BY <1>1, <2>4
    <2> DEFINE k == 1
    <2>8. /\ k \in 1..Len(Chan(t)) /\ Takes(Chan(t)[k]) /\ Chan(t)' = Without(Chan(t), k)
          /\ \A j \in 1..(k - 1) : Chan(t)[j].fpga # Chan(t)[k].fpga
      BY <2>4, <2>6, <2>7
    <2> HIDE DEF k
    <2>9. TakenAt(t, k)
      BY <1>1, <2>8 DEF TakenAt
    <2> QED BY <1>2, <2>8, <2>9 DEF Taken
  <1>3. CASE t \notin Queued
    <2>1. Head(net) \in QueuedWord
      BY <1>1, Pipe
    <2>2. PICK u \in Thread \ {t}, n \in Nat : n \in 1..Words(u) /\ Head(net) = Word(u, n)
      BY <1>3, <2>1, OthersWord
    <2>3. Rests(t)
      BY <1>1, <1>3 DEF Rests, Chan
    <2>4. Takes(Word(u, n))
      <3>1. Word(u, n) = Head(net)
        BY <2>2
      <3>2. Takes(Head(net))
        BY <1>1
      <3> QED BY <3>1, <3>2 DEF Takes
    <2> QED BY <1>3, <2>2, <2>3, <2>4 DEF OthersTaken
  <1> QED BY <1>2, <1>3

\* RbSend takes a word of the own ring, which may have words for the other
\* node before it in the pipeline.
LEMMA SendTakes ==
    ASSUME IInv, Routes, NEW u \in Thread, RbSend(u), NEW t \in Thread
    PROVE  /\ u = DspThread \/ u \notin Queued
           /\ IF (u = DspThread /\ t \in Queued) \/ u = t THEN Taken(t) ELSE OthersTaken(t)
  <1>1. /\ Takes(Head(sending[u])) /\ sending[u] # <<>>
        /\ UNCHANGED <<pc, net, pending_ring_data>>
        /\ sending'[u] = <<>> /\ \A v \in Thread \ {u} : sending'[v] = sending[v]
    BY DEF RbSend, queue, IInv, Shapes, LockInv, Idle
  <1>2. sending[u] \in Seq(AnyWord) /\ Len(sending[u]) = 1
    <2>1. sending[u] \in Seq(AnyWord) /\ Len(sending[u]) <= 1
      BY DEF Routes
    <2>2. Len(sending[u]) \in Nat /\ Len(sending[u]) # 0
      BY <1>1, <2>1
    <2>3. \A x \in Nat : x <= 1 /\ x # 0 => x = 1
      OBVIOUS
    <2> QED BY <2>1, <2>2, <2>3
  <1>3. u = DspThread \/ u \notin Queued
    BY <1>1 DEF Routes
  <1>4. CASE u = DspThread /\ t \in Queued
    <2> DEFINE d == sending[DspThread]
               q == net \o (d \o pending_ring_data)
               k == Len(net) + 1
    <2>1. /\ d \in Seq(QueuedWord) /\ net \in Seq(QueuedWord) /\ Len(d) = 1
          /\ pending_ring_data \in Seq(QueuedWord)
      BY <1>2, <1>4, Pipe
    <2>2. /\ net \o (<<>> \o pending_ring_data) = Without(q, k)
          /\ k \in 1..Len(q) /\ q[k] = Head(d)
          /\ \A j \in 1..Len(net) : q[j] = net[j]
      <3> DEFINE a == net
                 e == d
                 c == pending_ring_data
      <3>1. a \in Seq(QueuedWord) /\ e \in Seq(QueuedWord) /\ c \in Seq(QueuedWord) /\ Len(e) = 1
        BY <2>1
      <3> HIDE DEF a, e, c
      <3>2. LET r == a \o (e \o c) IN
            /\ a \o (<<>> \o c) = Without(r, Len(a) + 1)
            /\ Len(a) + 1 \in 1..Len(r) /\ r[Len(a) + 1] = Head(e)
            /\ \A j \in 1..Len(a) : r[j] = a[j]
        BY <3>1, WithoutMiddle
      <3> QED BY <3>2 DEF a, e, c
    <2>3. Chan(t) = q /\ Chan(t)' = Without(q, k)
      BY <1>1, <1>4, <2>2 DEF Chan, Pipeline
    <2>4. Head(d) = d[1] /\ d[1].fpga \in Own
      BY <2>1 DEF Routes
    <2>5. Len(net) \in Nat
      BY <2>1
    <2> HIDE DEF q
    <2>6. ASSUME NEW j \in 1..(k - 1) PROVE q[j].fpga # q[k].fpga
      <3>1. j \in 1..Len(net)
        BY <2>5
      <3>2. q[j].fpga \notin Own
        BY <2>2, <3>1 DEF Routes
      <3> QED BY <2>2, <2>4, <3>2
    <2> HIDE DEF k
    <2>7. k \in 1..Len(Chan(t)) /\ Takes(Chan(t)[k]) /\ Chan(t)' = Without(Chan(t), k)
      BY <1>1, <1>4, <2>2, <2>3
    <2>8. \A j \in 1..(k - 1) : Chan(t)[j].fpga # Chan(t)[k].fpga
      BY <2>3, <2>6
    <2>9. TakenAt(t, k)
      BY <1>1, <2>7, <2>8 DEF TakenAt
    <2> QED BY <1>3, <1>4, <2>7, <2>9 DEF Taken
  <1>5. CASE u = DspThread /\ t \notin Queued
    <2>1. Head(sending[u]) \in QueuedWord
      BY <1>1, <1>5, Pipe
    <2>2. PICK v \in Thread \ {t}, n \in Nat : n \in 1..Words(v) /\ Head(sending[u]) = Word(v, n)
      BY <1>5, <2>1, OthersWord
    <2>3. Rests(t)
      BY <1>1, <1>5, Threads DEF Rests, Chan
    <2>4. Takes(Word(v, n))
      <3>1. Word(v, n) = Head(sending[u])
        BY <2>2
      <3>2. Takes(Head(sending[u]))
        BY <1>1
      <3> QED BY <3>1, <3>2 DEF Takes
    <2> QED BY <1>3, <1>5, <2>2, <2>3, <2>4, Threads DEF OthersTaken
  <1>6. CASE u \notin Queued /\ t # u
    <2>1. Head(sending[u]) \in OwnWords(u)
      BY <1>1, <1>6 DEF Routes
    <2>2. PICK n \in 1..Words(u) : Head(sending[u]) = Word(u, n)
      BY <2>1 DEF OwnWords
    <2>3. sending'[DspThread] = sending[DspThread] /\ sending'[t] = sending[t]
      BY <1>1, <1>6, Threads
    <2>4. Rests(t)
      BY <1>1, <2>3, PipelineRests DEF Rests, Chan
    <2>5. u \in Thread \ {t} /\ n \in Nat
      BY <1>6
    <2>6. Takes(Word(u, n))
      <3>1. Word(u, n) = Head(sending[u])
        BY <2>2
      <3>2. Takes(Head(sending[u]))
        BY <1>1
      <3> QED BY <3>1, <3>2 DEF Takes
    <2> QED BY <1>3, <1>6, <2>2, <2>4, <2>5, <2>6, Threads DEF OthersTaken
  <1>7. CASE u \notin Queued /\ t = u
    <2>1. Chan(t) = sending[t] /\ Chan(t)' = <<>>
      BY <1>1, <1>7 DEF Chan
    <2>2. Without(sending[t], 1) = <<>>
      <3> DEFINE s == sending[t]
                 r == Without(s, 1)
      <3>1. s \in Seq(AnyWord) /\ Len(s) = 1
        BY <1>2, <1>7
      <3> HIDE DEF s
      <3>2. 1 \in 1..Len(s) /\ Len(s) - 1 = 0
        BY <3>1
      <3>3. r \in Seq(AnyWord) /\ Len(r) = Len(s) - 1
        BY <3>1, <3>2, WithoutIsSeq
      <3> HIDE DEF r
      <3>4. r = <<>>
        BY <3>2, <3>3
      <3> QED BY <3>4 DEF r, s
    <2>3. 1 \in 1..Len(Chan(t)) /\ Chan(t)[1] = Head(sending[t])
      BY <1>2, <1>7, <2>1
    <2>4. 1..(1 - 1) = {}
      OBVIOUS
    <2> DEFINE k == 1
    <2>5. /\ k \in 1..Len(Chan(t)) /\ Takes(Chan(t)[k]) /\ Chan(t)' = Without(Chan(t), k)
          /\ \A j \in 1..(k - 1) : Chan(t)[j].fpga # Chan(t)[k].fpga
      BY <1>1, <1>7, <2>1, <2>2, <2>3, <2>4
    <2> HIDE DEF k
    <2>6. TakenAt(t, k)
      BY <1>1, <2>5 DEF TakenAt
    <2> QED BY <1>7, <2>5, <2>6 DEF Taken
  <1> QED BY <1>3, <1>4, <1>5, <1>6, <1>7, Threads

\* Every step is one of these for every channel.
LEMMA ChannelStep ==
    ASSUME IInv, Routes, [Next]_vars, NEW t \in Thread
    PROVE  Quiet(t) \/ Sends(t) \/ OthersSend(t) \/ OthersTaken(t) \/ Taken(t)
  <1>1. CASE \E u \in Thread : Push(u)
    BY <1>1, PushSends
  <1>2. CASE \E u \in Thread : Direct(u)
    BY <1>2, DirectSends
  <1>3. CASE Fire
    BY <1>3, FireRests
  <1>4. CASE NetArrives
    BY <1>4, NetTakes
  <1>5. CASE \E u \in Thread : RbSend(u)
    BY <1>5, SendTakes
  <1>6. CASE Tick \/ UNCHANGED vars \/ \E u \in Thread : Arm(u) \/ RbLock(u)
    <2>1. UNCHANGED <<pc, net, pending_ring_data, sending, fpgas>>
      BY <1>6 DEF Tick, vars, Arm, RbLock, queue
    <2> QED BY <2>1, PipelineRests DEF Quiet, Rests, Chan
  <1> QED BY <1>1, <1>2, <1>3, <1>4, <1>5, <1>6 DEF Next, Step, Later

\* A word that is taken is in the channel of the thread it is a word of.
LEMMA TakenFromItsThread ==
    ASSUME IInv, Routes, [Next]_vars
    PROVE  \/ UNCHANGED fpgas
           \/ \E u \in Thread : \E k \in 1..Len(Chan(u)) :
                  TakenAt(u, k) /\ Chan(u)[k] \in OwnWords(u)
  <1>1. CASE Taken(DspThread)
    <2>1. PICK k \in 1..Len(Chan(DspThread)) : TakenAt(DspThread, k)
      BY <1>1 DEF Taken
    <2>2. Chan(DspThread) = Pipeline /\ Pipeline \in Seq(QueuedWord)
      BY Threads, Pipe DEF Chan
    <2>3. Pipeline[k] \in QueuedWord
      BY <2>2
    <2>4. PICK u \in Queued : Pipeline[k] \in OwnWords(u)
      BY <2>3 DEF QueuedWord
    <2>5. u \in Thread /\ Chan(u) = Chan(DspThread) /\ Chan(u)' = Chan(DspThread)'
      BY Threads DEF Chan
    <2> QED BY <2>1, <2>2, <2>4, <2>5 DEF TakenAt
  <1>2. ASSUME NEW u \in Thread \ Queued, Taken(u)
        PROVE  \E k \in 1..Len(Chan(u)) : TakenAt(u, k) /\ Chan(u)[k] \in OwnWords(u)
    <2>1. PICK k \in 1..Len(Chan(u)) : TakenAt(u, k)
      BY <1>2 DEF Taken
    <2>2. Chan(u) \in Seq(OwnWords(u))
      BY DEF Chan, Routes
    <2> QED BY <2>1, <2>2
  <1>3. CASE NetArrives
    BY <1>1, <1>3, NetTakes, Threads
  <1>4. ASSUME NEW u \in Thread, RbSend(u)
        PROVE  Taken(DspThread) \/ (u \in Thread \ Queued /\ Taken(u))
    BY <1>4, SendTakes, Threads
  <1>5. CASE UNCHANGED fpgas
    BY <1>5
  <1> QED BY <1>1, <1>2, <1>3, <1>4, <1>5
        DEF Next, Step, Later, Push, Arm, Direct, Fire, RbLock, Tick, vars

-----------------------------------------------------------------------------
\* Where a thread's operations are in its program.
Asks(t) == 1..Len(Program[t])

\* What an operation is.
LEMMA ProgramType ==
    ASSUME NEW t \in Thread, NEW i \in Asks(t)
    PROVE  /\ Len(Program[t]) \in Nat /\ i \in Nat
           /\ Program[t][i] = [fpga |-> Program[t][i].fpga, op |-> Program[t][i].op,
                               val |-> Program[t][i].val]
           /\ Program[t][i].fpga \in Fpga
           /\ Program[t][i].op \in STRING /\ Program[t][i].op # NoOp
           /\ Program[t][i].val \in Nat /\ Program[t][i].val < HALF * HALF
  <1> DEFINE Cmd == [fpga : Fpga, op : STRING \ {NoOp}, val : 0..(HALF * HALF - 1)]
             p == Program[t]
  <1>1. p \in Seq(Cmd)
    BY RingbusAssumption
  <1> HIDE DEF p
  <1>2. Len(p) \in Nat /\ i \in 1..Len(p)
    BY <1>1 DEF Asks, p
  <1>3. p[i] \in Cmd
    <2> HIDE DEF Cmd
    <2> QED BY <1>1, <1>2
  <1>4. HALF * HALF \in Nat
    BY HalfAssumption
  <1> QED BY <1>2, <1>3, <1>4 DEF p

\* An operation's two words.
LEMMA TwoWords ==
    ASSUME NEW t \in Thread, NEW i \in Asks(t)
    PROVE  LET low == Word(t, 2 * i - 1)
               high == Word(t, 2 * i)
           IN  /\ 2 * i \in 1..Words(t) /\ 2 * i - 1 \in 1..Words(t)
               /\ low.fpga = Program[t][i].fpga /\ high.fpga = Program[t][i].fpga
               /\ low.w.op = Program[t][i].op /\ high.w.op = Program[t][i].op
               /\ ~low.w.high /\ high.w.high
               /\ low.w.high \in BOOLEAN /\ high.w.high \in BOOLEAN
               /\ low.w.half = Program[t][i].val % HALF
               /\ high.w.half = (Program[t][i].val \div HALF) % HALF
  <1>1. Len(Program[t]) \in Nat /\ i \in Nat /\ i \in 1..Len(Program[t])
    BY ProgramType DEF Asks
  <1>2. /\ ((2 * i - 1) + 1) \div 2 = i /\ (2 * i + 1) \div 2 = i
        /\ (2 * i - 1) % 2 = 1 /\ (2 * i) % 2 = 0
    BY <1>1
  <1>3. 2 * i \in 1..Words(t) /\ 2 * i - 1 \in 1..Words(t)
    BY <1>1 DEF Words
  <1>4. 2 - ((2 * i - 1) % 2) = 1 /\ 2 - ((2 * i) % 2) = 2
    BY <1>2
  <1> DEFINE low == Word(t, 2 * i - 1)
             high == Word(t, 2 * i)
             words == Op(Program[t][i].op, Program[t][i].val)
  <1>5. low = [fpga |-> Program[t][i].fpga, w |-> words[1]]
    BY <1>2, <1>4 DEF Word
  <1>6. high = [fpga |-> Program[t][i].fpga, w |-> words[2]]
    BY <1>2, <1>4 DEF Word
  <1>7. /\ words[1] = [op |-> Program[t][i].op, high |-> FALSE, half |-> Program[t][i].val % HALF]
        /\ words[2] = [op |-> Program[t][i].op, high |-> TRUE,
                       half |-> (Program[t][i].val \div HALF) % HALF]
    BY DEF Op
  <1> HIDE DEF low, high, words
  <1>8. /\ low.fpga = Program[t][i].fpga /\ high.fpga = Program[t][i].fpga
        /\ low.w = words[1] /\ high.w = words[2]
    BY <1>5, <1>6
  <1>9. /\ low.w.op = Program[t][i].op /\ high.w.op = Program[t][i].op
        /\ low.w.high = FALSE /\ high.w.high = TRUE
        /\ low.w.half = Program[t][i].val % HALF
        /\ high.w.half = (Program[t][i].val \div HALF) % HALF
    BY <1>7, <1>8
  <1> QED BY <1>3, <1>8, <1>9 DEF low, high

\* Every word is one of them.
LEMMA EveryWord ==
    ASSUME NEW t \in Thread, NEW n \in 1..Words(t)
    PROVE  \E i \in Asks(t) : n = 2 * i - 1 \/ n = 2 * i
  <1>1. Len(Program[t]) \in Nat
    BY RingbusAssumption
  <1>2. n \in Nat /\ n >= 1 /\ n <= 2 * Len(Program[t])
    BY <1>1 DEF Words
  <1>3. (n + 1) \div 2 \in 1..Len(Program[t]) /\ (n = 2 * ((n + 1) \div 2) - 1 \/ n = 2 * ((n + 1) \div 2))
    BY <1>1, <1>2
  <1> QED BY <1>3 DEF Asks

\* The two halves make the argument.
LEMMA Halves ==
    ASSUME NEW v \in Nat, v < HALF * HALF
    PROVE  /\ v % HALF \in Nat /\ (v \div HALF) % HALF \in Nat
           /\ ((v \div HALF) % HALF) * HALF + (v % HALF) = v
  <1>1. HALF \in Nat /\ HALF > 0
    BY HalfAssumption
  <1> DEFINE d == v \div HALF
             r == v % HALF
  <1>2. d \in Int /\ r \in 0..(HALF - 1) /\ v = HALF * d + r
    BY <1>1
  <1> HIDE DEF d, r
  <1>3. d >= 0
    <2> SUFFICES ASSUME d <= -1 PROVE FALSE
      BY <1>2
    <2>1. HALF * d <= HALF * (-1)
      BY <1>1, <1>2
    <2> QED BY <1>1, <1>2, <2>1
  <1>4. d < HALF
    <2> SUFFICES ASSUME d >= HALF PROVE FALSE
      BY <1>1, <1>2
    <2>1. HALF * d >= HALF * HALF
      BY <1>1, <1>2
    <2> QED BY <1>1, <1>2, <2>1
  <1>5. d % HALF = d
    BY <1>1, <1>2, <1>3, <1>4
  <1>6. r \in Nat /\ d \in Nat /\ d * HALF + r = v
    BY <1>1, <1>2, <1>3
  <1>7. r \in Nat /\ d % HALF \in Nat /\ (d % HALF) * HALF + r = v
    BY <1>5, <1>6
  <1> QED BY <1>7 DEF d, r

\* The words of thread t in C are nobody else's, and go to one FPGA.
ClassOf(C, f, t) ==
    /\ \A u \in Thread \ {t} : \A n \in 1..Words(u) : Word(u, n) \notin C
    /\ \A w \in C : w.fpga = f

\* A step either takes the next word of the class, or leaves the class alone.
TakesNext(C, t, done, w) ==
    /\ UNCHANGED pc /\ w \in C /\ Takes(w)
    /\ \E m \in (done + 1)..pc[t] :
          /\ w = Word(t, m)
          /\ \A l \in (done + 1)..(m - 1) : Word(t, l) \notin C
          /\ InOrder(Chan(t)', pc'[t], m, C, t)
Passes(C, t, done) ==
    /\ pc'[t] \in Nat /\ done \in 0..pc'[t] /\ InOrder(Chan(t)', pc'[t], done, C, t)
    /\ UNCHANGED fpgas \/ \E w \in AnyWord \ C : Takes(w)

\* A word of the class that is taken is the next one of it.
LEMMA NextTaken ==
    ASSUME IInv, Routes, NEW t \in Thread, NEW C, NEW f, ClassOf(C, f, t),
           NEW done \in 0..pc[t], InOrder(Chan(t), pc[t], done, C, t),
           NEW k \in 1..Len(Chan(t)), TakenAt(t, k), Chan(t)[k] \in C
    PROVE  TakesNext(C, t, done, Chan(t)[k])
  <1>1. Chan(t) \in Seq(AnyWord) /\ pc[t] \in Nat
    BY ChannelType DEF IInv, Shapes
  <1>2. \A j \in 1..(k - 1) : Chan(t)[j] \notin C
    BY DEF TakenAt, ClassOf
  <1>3. PICK m \in (done + 1)..pc[t] :
            /\ Chan(t)[k] = Word(t, m)
            /\ \A l \in (done + 1)..(m - 1) : Word(t, l) \notin C
            /\ InOrder(Without(Chan(t), k), pc[t], m, C, t)
    <2> DEFINE q == Chan(t)
               n == pc[t]
    <2>1. q \in Seq(AnyWord) /\ n \in Nat /\ done \in 0..n /\ InOrder(q, n, done, C, t)
          /\ k \in 1..Len(q) /\ q[k] \in C /\ \A j \in 1..(k - 1) : q[j] \notin C
      BY <1>1, <1>2
    <2> HIDE DEF q, n
    <2>2. \E m \in (done + 1)..n :
            /\ q[k] = Word(t, m)
            /\ \A l \in (done + 1)..(m - 1) : Word(t, l) \notin C
            /\ InOrder(Without(q, k), n, m, C, t)
      BY <2>1, OrderDrops
    <2> QED BY <2>2 DEF q, n
  <1>4. UNCHANGED pc /\ Chan(t)' = Without(Chan(t), k) /\ Takes(Chan(t)[k])
    BY DEF TakenAt
  <1>5. InOrder(Chan(t)', pc'[t], m, C, t)
    BY <1>3, <1>4
  <1> QED BY <1>3, <1>4, <1>5 DEF TakesNext

\* Every step is one of the two.
LEMMA Progress ==
    ASSUME IInv, Routes, [Next]_vars, NEW t \in Thread, NEW C, NEW f, ClassOf(C, f, t),
           NEW done \in 0..pc[t], InOrder(Chan(t), pc[t], done, C, t)
    PROVE  Passes(C, t, done) \/ \E w \in C : TakesNext(C, t, done, w)
  <1> DEFINE q == Chan(t)
             n == pc[t]
  <1>1. /\ q \in Seq(AnyWord) /\ n \in Nat /\ done \in 0..n
        /\ InOrder(q, n, done, C, t)
    BY ChannelType DEF IInv, Shapes
  <1>2. \A u \in Thread \ {t} : \A m \in 1..Words(u) : Word(u, m) \in AnyWord \ C
    BY DEF ClassOf, AnyWord
  <1>3. CASE Quiet(t)
    BY <1>1, <1>3 DEF Quiet, Rests, Passes
  <1>4. CASE OthersTaken(t)
    <2>1. Chan(t)' = q /\ pc'[t] = n /\ \E w \in AnyWord \ C : Takes(w)
      BY <1>2, <1>4 DEF OthersTaken, Rests
    <2> QED BY <1>1, <2>1 DEF Passes
  <1>5. CASE Sends(t)
    <2>1. /\ n < Words(t) /\ pc'[t] = n + 1
          /\ Chan(t)' = Append(q, Word(t, n + 1)) /\ UNCHANGED fpgas
      BY <1>5 DEF Sends
    <2>2. n + 1 \in 1..Words(t)
      BY <1>1, <2>1, ProgramLengths
    <2>3. Word(t, n + 1) \in AnyWord
      BY <2>2 DEF AnyWord
    <2> HIDE DEF q, n
    <2>4. InOrder(Append(q, Word(t, n + 1)), n + 1, done, C, t)
      BY <1>1, <2>3, OrderGrows
    <2> QED BY <1>1, <2>1, <2>4 DEF Passes
  <1>6. CASE OthersSend(t)
    <2>1. PICK w \in AnyWord \ C : Chan(t)' = Append(q, w) /\ pc'[t] = n /\ UNCHANGED fpgas
      BY <1>2, <1>6 DEF OthersSend
    <2> HIDE DEF q, n
    <2>2. InOrder(Append(q, w), n, done, C, t)
      BY <1>1, OrderIgnores
    <2> QED BY <1>1, <2>1, <2>2 DEF Passes
  <1>7. CASE Taken(t)
    <2>1. PICK k \in 1..Len(Chan(t)) : TakenAt(t, k)
      BY <1>7 DEF Taken
    <2>2. CASE Chan(t)[k] \in C
      BY <2>1, <2>2, NextTaken
    <2>3. CASE Chan(t)[k] \notin C
      <3>1. q[k] \in AnyWord \ C /\ k \in 1..Len(q)
        BY <1>1, <2>3
      <3>2. Chan(t)' = Without(q, k) /\ pc'[t] = n /\ \E w \in AnyWord \ C : Takes(w)
        BY <2>1, <3>1 DEF TakenAt
      <3> HIDE DEF q, n
      <3>3. InOrder(Without(q, k), n, done, C, t)
        BY <1>1, <3>1, OrderDrops
      <3> QED BY <1>1, <3>2, <3>3 DEF Passes
    <2> QED BY <2>2, <2>3
  <1> QED BY <1>3, <1>4, <1>5, <1>6, <1>7, ChannelStep

-----------------------------------------------------------------------------
\* What FPGAs keep and do.
Storage == [op : STRING \cup {NoOp}, low : Nat]
Operation == [op : STRING, val : Nat]
FpgaTypes == storage \in [Fpga -> Storage] /\ applied \in [Fpga -> Seq(Operation)]

\* What a word is.
LEMMA WordType ==
    ASSUME NEW w \in AnyWord
    PROVE  /\ w.fpga \in Fpga /\ w.w.op \in STRING /\ w.w.op # NoOp
           /\ w.w.high \in BOOLEAN /\ w.w.half \in Nat
  <1>1. PICK t \in Thread, n \in Nat : n \in 1..Words(t) /\ w = Word(t, n)
    <2>1. PICK t \in Thread : w \in {Word(t, n) : n \in 1..Words(t)}
      BY DEF AnyWord
    <2>2. PICK n \in 1..Words(t) : w = Word(t, n)
      BY <2>1
    <2> QED BY <2>2
  <1>2. PICK i \in Asks(t) : n = 2 * i - 1 \/ n = 2 * i
    BY <1>1, EveryWord
  <1>3. /\ Program[t][i].fpga \in Fpga /\ Program[t][i].op \in STRING /\ Program[t][i].op # NoOp
        /\ Program[t][i].val % HALF \in Nat /\ (Program[t][i].val \div HALF) % HALF \in Nat
    BY ProgramType, Halves
  <1>4. CASE n = 2 * i - 1
    BY <1>1, <1>3, <1>4, TwoWords
  <1>5. CASE n = 2 * i
    BY <1>1, <1>3, <1>5, TwoWords
  <1> QED BY <1>2, <1>4, <1>5

\* What taking a word does to the FPGA it is for, and to the others.
LEMMA Taking ==
    ASSUME FpgaTypes, NEW w \in AnyWord, Takes(w)
    PROVE  /\ \A f \in Fpga \ {w.fpga} : storage'[f] = storage[f] /\ applied'[f] = applied[f]
           /\ storage'[w.fpga] = Stored(storage[w.fpga], w.w)
           /\ applied'[w.fpga] = applied[w.fpga] \o Completed(storage[w.fpga], w.w)
           /\ storage[w.fpga] \in Storage /\ storage'[w.fpga] \in Storage
           /\ Completed(storage[w.fpga], w.w) \in Seq(Operation)
           /\ FpgaTypes'
  <1>1. /\ w.fpga \in Fpga /\ w.w.op \in STRING /\ w.w.op # NoOp
        /\ w.w.high \in BOOLEAN /\ w.w.half \in Nat
    BY WordType
  <1>2. storage[w.fpga] \in Storage /\ applied[w.fpga] \in Seq(Operation)
    BY <1>1 DEF FpgaTypes
  <1>3. Stored(storage[w.fpga], w.w) \in Storage
    <2>1. \A x \in STRING \cup {NoOp}, y \in Nat : [op |-> x, low |-> y] \in Storage
      BY DEF Storage
    <2>2. [op |-> w.w.op, low |-> w.w.half] \in Storage /\ EmptyStorage \in Storage
      BY <1>1, <2>1 DEF EmptyStorage
    <2> QED BY <1>2, <2>2 DEF Stored
  <1>4. Completed(storage[w.fpga], w.w) \in Seq(Operation)
    <2>0. storage[w.fpga].low \in Nat /\ HALF \in Nat
      BY <1>2, HalfAssumption DEF Storage
    <2>1. w.w.half * HALF + storage[w.fpga].low \in Nat
      BY <1>1, <2>0
    <2>2. [op |-> w.w.op, val |-> w.w.half * HALF + storage[w.fpga].low] \in Operation
      BY <1>1, <2>1 DEF Operation
    <2> HIDE DEF Operation
    <2>3. \A x \in Operation : <<x>> \in Seq(Operation)
      OBVIOUS
    <2>4. <<>> \in Seq(Operation)
      OBVIOUS
    <2> QED BY <2>2, <2>3, <2>4 DEF Completed
  <1>5. /\ storage' = [storage EXCEPT ![w.fpga] = Stored(storage[w.fpga], w.w)]
        /\ applied' = [applied EXCEPT ![w.fpga] = applied[w.fpga] \o Completed(storage[w.fpga], w.w)]
    BY DEF Takes
  <1>6. applied[w.fpga] \o Completed(storage[w.fpga], w.w) \in Seq(Operation)
    BY <1>2, <1>4, ConcatProperties
  <1> HIDE DEF Storage, Operation
  <1> QED BY <1>1, <1>2, <1>3, <1>4, <1>5, <1>6 DEF FpgaTypes

-----------------------------------------------------------------------------
\* The words of an operation on an FPGA.
Key(f, op) == {w \in AnyWord : w.fpga = f /\ w.w.op = op}

\* The half in storage, when it is of the operation whose high half is next.
Kept(t, done, f, op) ==
    \A j \in Asks(t) :
        done = 2 * j - 1 /\ Program[t][j].fpga = f /\ Program[t][j].op = op
            /\ storage[f].op = op
        => storage[f].low = Program[t][j].val % HALF

\* Its words are in order, and its stored half is the right one.
KeyAt(t, f, op, done) ==
    /\ InOrder(Chan(t), pc[t], done, Key(f, op), t)
    /\ Kept(t, done, f, op)

KeyInv ==
    \A t \in Thread : \A i \in Asks(t) :
        \E done \in 0..pc[t] : KeyAt(t, Program[t][i].fpga, Program[t][i].op, done)

MixInv == FpgaTypes /\ (OwnOperations => KeyInv /\ NoMixedValue)

\* An operation that one thread alone uses.
LEMMA KeyIsOwn ==
    ASSUME OwnOperations, NEW t \in Thread, NEW i \in Asks(t)
    PROVE  ClassOf(Key(Program[t][i].fpga, Program[t][i].op), Program[t][i].fpga, t)
  <1>1. ASSUME NEW u \in Thread \ {t}, NEW n \in 1..Words(u)
        PROVE  Word(u, n) \notin Key(Program[t][i].fpga, Program[t][i].op)
    <2>1. PICK j \in Asks(u) : n = 2 * j - 1 \/ n = 2 * j
      BY EveryWord
    <2>2. Word(u, n).fpga = Program[u][j].fpga /\ Word(u, n).w.op = Program[u][j].op
      BY <2>1, TwoWords
    <2>3. ~(Program[t][i].fpga = Program[u][j].fpga /\ Program[t][i].op = Program[u][j].op)
      BY DEF OwnOperations, Asks
    <2> QED BY <2>2, <2>3 DEF Key
  <1> QED BY <1>1 DEF ClassOf, Key

\* That remains so.
LEMMA KeyStep ==
    ASSUME IInv, Routes, FpgaTypes, [Next]_vars, OwnOperations, NEW t \in Thread, NEW i \in Asks(t),
           NEW done \in 0..pc[t], KeyAt(t, Program[t][i].fpga, Program[t][i].op, done)
    PROVE  \E d \in 0..pc'[t] : KeyAt(t, Program[t][i].fpga, Program[t][i].op, d)'
  <1> DEFINE f == Program[t][i].fpga
             op == Program[t][i].op
             C == Key(f, op)
  <1>0. f \in Fpga /\ op \in STRING /\ op # NoOp /\ pc[t] \in Nat
    BY ProgramType DEF IInv, Shapes
  <1>1. Passes(C, t, done) \/ \E w \in C : TakesNext(C, t, done, w)
    BY KeyIsOwn, Progress DEF KeyAt
  <1>2. CASE Passes(C, t, done)
    <2>1. done \in 0..pc'[t] /\ InOrder(Chan(t)', pc'[t], done, C, t)
      BY <1>2 DEF Passes
    <2>2. Kept(t, done, f, op)'
      <3>1. CASE UNCHANGED fpgas
        BY <3>1 DEF fpgas, KeyAt, Kept
      <3>2. ASSUME NEW w \in AnyWord \ C, Takes(w) PROVE Kept(t, done, f, op)'
        <4>1. CASE w.fpga # f
          <5>1. storage'[f] = storage[f]
            BY <1>0, <3>2, <4>1, Taking
          <5> QED BY <5>1 DEF KeyAt, Kept
        <4>2. CASE w.fpga = f
          <5>1. w.w.op # op
            BY <4>2 DEF Key
          <5>2. storage'[f] = Stored(storage[f], w.w)
            BY <3>2, <4>2, Taking
          <5>3. storage'[f].op # op
            BY <1>0, <5>1, <5>2 DEF Stored, EmptyStorage
          <5> QED BY <5>3 DEF Kept
        <4> QED BY <4>1, <4>2
      <3> QED BY <1>2, <3>1, <3>2 DEF Passes
    <2> QED BY <2>1, <2>2 DEF KeyAt
  <1>3. ASSUME NEW w \in C, TakesNext(C, t, done, w)
        PROVE  \E d \in 0..pc'[t] : KeyAt(t, f, op, d)'
    <2>1. PICK m \in (done + 1)..pc[t] : w = Word(t, m) /\ InOrder(Chan(t)', pc'[t], m, C, t)
      BY <1>3 DEF TakesNext
    <2>2. m \in 0..pc'[t] /\ m \in 1..Words(t)
      BY <1>0, <1>3, ProgramLengths DEF TakesNext, IInv, Shapes
    <2>3. PICK j \in Asks(t) : m = 2 * j - 1 \/ m = 2 * j
      BY <2>2, EveryWord
    <2>4. w \in AnyWord /\ w.fpga = f /\ w.w.op = op
      BY DEF Key
    <2>5. storage'[f] = Stored(storage[f], w.w)
      BY <1>3, <2>4, Taking DEF TakesNext
    <2>6. ASSUME NEW l \in Asks(t), m = 2 * l - 1
          PROVE  storage'[f].low = Program[t][l].val % HALF
      <3>1. ~w.w.high /\ w.w.half = Program[t][l].val % HALF
        BY <2>1, <2>6, TwoWords
      <3> QED BY <2>5, <3>1 DEF Stored
    <2>7. Kept(t, m, f, op)'
      BY <2>6 DEF Kept
    <2> QED BY <2>1, <2>2, <2>7 DEF KeyAt
  <1> QED BY <1>1, <1>2, <1>3

\* The operation a high half completes is one its thread asked for.
LEMMA CompletedIsAsked ==
    ASSUME IInv, Routes, MixInv, OwnOperations, NEW t \in Thread,
           NEW k \in 1..Len(Chan(t)), TakenAt(t, k), Chan(t)[k] \in OwnWords(t)
    PROVE  LET w == Chan(t)[k] IN
           \/ Completed(storage[w.fpga], w.w) = <<>>
           \/ \E j \in Asks(t) :
                  /\ Program[t][j].fpga = w.fpga
                  /\ Completed(storage[w.fpga], w.w) =
                        <<[op |-> Program[t][j].op, val |-> Program[t][j].val]>>
  <1> DEFINE w == Chan(t)[k]
  <1>1. PICK n \in 1..Words(t) : w = Word(t, n)
    BY DEF OwnWords
  <1>2. PICK i \in Asks(t) : n = 2 * i - 1 \/ n = 2 * i
    BY EveryWord
  <1> DEFINE f == Program[t][i].fpga
             op == Program[t][i].op
             C == Key(f, op)
  <1>3. w.fpga = f /\ w.w.op = op /\ w \in AnyWord
    BY <1>1, <1>2, TwoWords DEF AnyWord
  <1>4. PICK done \in 0..pc[t] : KeyAt(t, f, op, done)
    BY DEF MixInv, KeyInv
  <1>5. w \in C
    BY <1>3 DEF Key
  <1>6. TakesNext(C, t, done, w)
    BY <1>4, <1>5, KeyIsOwn, NextTaken DEF KeyAt
  <1> SUFFICES ASSUME Completed(storage[f], w.w) # <<>>
               PROVE  \E j \in Asks(t) :
                  /\ Program[t][j].fpga = f
                  /\ Completed(storage[f], w.w) =
                        <<[op |-> Program[t][j].op, val |-> Program[t][j].val]>>
    BY <1>3
  <1>7. w.w.high /\ storage[f].op = op
        /\ Completed(storage[f], w.w) = <<[op |-> op, val |-> w.w.half * HALF + storage[f].low]>>
    BY <1>3 DEF Completed
  <1>8. PICK m \in (done + 1)..pc[t] :
            /\ w = Word(t, m)
            /\ \A l \in (done + 1)..(m - 1) : Word(t, l) \notin C
    BY <1>6 DEF TakesNext
  <1>9. m \in 1..Words(t) /\ pc[t] \in Nat
    BY ProgramLengths DEF IInv, Shapes
  <1>10. PICK j \in Asks(t) : m = 2 * j - 1 \/ m = 2 * j
    BY <1>9, EveryWord
  <1>11. m = 2 * j
    BY <1>7, <1>8, <1>10, TwoWords
  <1>12. Program[t][j].fpga = f /\ Program[t][j].op = op
         /\ w.w.half = (Program[t][j].val \div HALF) % HALF
    BY <1>3, <1>8, <1>11, TwoWords
  <1>13. Word(t, 2 * j - 1) \in C
    BY <1>12, TwoWords DEF Key, AnyWord
  <1>14. done = 2 * j - 1
    <2>0. j \in Nat
      BY ProgramType
    <2>1. done < 2 * j /\ done \in Nat
      BY <1>9, <1>11, <2>0
    <2>2. ~(2 * j - 1 \in (done + 1)..(m - 1))
      BY <1>8, <1>13
    <2> QED BY <1>9, <1>11, <2>0, <2>1, <2>2
  <1>15. storage[f].low = Program[t][j].val % HALF
    BY <1>4, <1>7, <1>12, <1>14 DEF KeyAt, Kept
  <1>16. w.w.half * HALF + storage[f].low = Program[t][j].val
    BY <1>12, <1>15, ProgramType, Halves
  <1> QED BY <1>7, <1>12, <1>16

-----------------------------------------------------------------------------
\* At first the channels are empty.
LEMMA OrderAtFirst ==
    ASSUME Init, NEW t \in Thread, NEW C
    PROVE  pc[t] = 0 /\ InOrder(Chan(t), pc[t], 0, C, t)
  <1>1. pc[t] = 0 /\ sending[t] = <<>> /\ sending[DspThread] = <<>>
    BY Threads DEF Init, Idle
  <1>2. net = <<>> /\ pending_ring_data = <<>>
    BY DEF Init
  <1>3. <<>> \o (<<>> \o <<>>) = <<>>
    <2>1. \A s \in Seq({}) : <<>> \o s = s
      BY ConcatEmptySeq
    <2>2. <<>> \in Seq({})
      OBVIOUS
    <2> QED BY <2>1, <2>2
  <1>4. Chan(t) = <<>>
    BY <1>1, <1>2, <1>3 DEF Chan, Pipeline
  <1>5. InOrder(<<>>, 0, 0, C, t)
    <2>1. Len(<<>>) = 0 /\ 1..0 = {} /\ (0 + 1)..0 = {}
      OBVIOUS
    <2>2. [x \in 1..Len(<<>>) |-> 0] \in [1..Len(<<>>) -> Nat]
      OBVIOUS
    <2>3. \A x : x \notin 1..Len(<<>>) /\ x \notin (0 + 1)..0
      BY <2>1
    <2> QED BY <2>2, <2>3 DEF InOrder
  <1> QED BY <1>1, <1>4, <1>5

\* MixInv holds at first.
LEMMA MixInit == Init => MixInv
  <1> SUFFICES ASSUME Init PROVE MixInv
    OBVIOUS
  <1>1. FpgaTypes
    <2>1. EmptyStorage \in Storage
      <3>1. \A x \in STRING \cup {NoOp}, y \in Nat : [op |-> x, low |-> y] \in Storage
        BY DEF Storage
      <3> QED BY <3>1 DEF EmptyStorage
    <2>2. <<>> \in Seq(Operation)
      OBVIOUS
    <2> HIDE DEF Storage, Operation
    <2> QED BY <2>1, <2>2 DEF Init, FpgaTypes
  <1>2. KeyInv
    <2> SUFFICES ASSUME NEW t \in Thread, NEW i \in Asks(t)
                 PROVE  \E done \in 0..pc[t] :
                            KeyAt(t, Program[t][i].fpga, Program[t][i].op, done)
      BY DEF KeyInv
    <2>1. ASSUME NEW j \in Asks(t) PROVE 0 # 2 * j - 1
      <3>1. j \in Nat
        BY ProgramType
      <3> QED BY <3>1
    <2>2. pc[t] = 0 /\ InOrder(Chan(t), pc[t], 0, Key(Program[t][i].fpga, Program[t][i].op), t)
      BY OrderAtFirst
    <2> QED BY <2>1, <2>2 DEF KeyAt, Kept
  <1>3. NoMixedValue
    <2>1. \A f \in Fpga : 1..Len(applied[f]) = {}
      <3>1. \A f \in Fpga : applied[f] = <<>>
        BY DEF Init
      <3>2. 1..Len(<<>>) = {}
        OBVIOUS
      <3> QED BY <3>1, <3>2
    <2> QED BY <2>1 DEF NoMixedValue
  <1> QED BY <1>1, <1>2, <1>3 DEF MixInv

\* Every operation an FPGA did is in somebody's program.
InPrograms(f, o) ==
    \E t \in Thread : \E j \in Asks(t) :
        Program[t][j] = [fpga |-> f, op |-> o.op, val |-> o.val]

\* NoMixedValue in these terms.
LEMMA NoMixedMeans ==
    ASSUME OwnOperations
    PROVE  NoMixedValue <=>
               \A f \in Fpga : \A i \in 1..Len(applied[f]) : InPrograms(f, applied[f][i])
  BY DEF NoMixedValue, Did, InPrograms, Asks

\* And after a step.
LEMMA NoMixedMeansNext ==
    ASSUME OwnOperations
    PROVE  NoMixedValue' <=>
               \A f \in Fpga : \A i \in 1..Len(applied'[f]) : InPrograms(f, applied'[f][i])
  <1>1. OwnOperations'
    BY DEF OwnOperations
  <1>2. ASSUME NEW f \in Fpga, NEW i \in 1..Len(applied'[f])
        PROVE  Did(f)'[i] = [fpga |-> f, op |-> applied'[f][i].op, val |-> applied'[f][i].val]
    BY DEF Did
  <1>3. NoMixedValue' <=>
            \A f \in Fpga : \A i \in 1..Len(applied'[f]) :
                \E t \in Thread : \E j \in 1..Len(Program[t]) : Program[t][j] = Did(f)'[i]
    BY <1>1 DEF NoMixedValue
  <1>4. ASSUME NEW f \in Fpga, NEW i \in 1..Len(applied'[f])
        PROVE  InPrograms(f, applied'[f][i]) <=>
                \E t \in Thread : \E j \in 1..Len(Program[t]) : Program[t][j] = Did(f)'[i]
    BY <1>2 DEF InPrograms, Asks
  <1> HIDE DEF InPrograms
  <1> QED BY <1>3, <1>4

\* Every step keeps MixInv.
LEMMA MixStep == IInv /\ Routes /\ MixInv /\ [Next]_vars => MixInv'
  <1> SUFFICES ASSUME IInv, Routes, MixInv, [Next]_vars PROVE MixInv'
    OBVIOUS
  <1>0. FpgaTypes /\ (OwnOperations' <=> OwnOperations)
    BY DEF MixInv, OwnOperations
  <1>1. CASE UNCHANGED fpgas
    <2>1. FpgaTypes'
      BY <1>0, <1>1 DEF fpgas, FpgaTypes
    <2>2. ASSUME OwnOperations PROVE NoMixedValue'
      BY <1>1, <2>2 DEF MixInv, NoMixedValue, Did, fpgas
    <2>3. ASSUME OwnOperations PROVE KeyInv'
      BY <1>0, <2>3, KeyStep DEF MixInv, KeyInv
    <2> QED BY <1>0, <2>1, <2>2, <2>3 DEF MixInv
  <1>2. ASSUME NEW u \in Thread, NEW k \in 1..Len(Chan(u)),
               TakenAt(u, k), Chan(u)[k] \in OwnWords(u)
        PROVE  MixInv'
    <2> DEFINE w == Chan(u)[k]
    <2>1. w \in AnyWord /\ Takes(w)
      BY <1>2, WordSets DEF TakenAt
    <2>2. /\ \A f \in Fpga \ {w.fpga} : applied'[f] = applied[f]
          /\ applied'[w.fpga] = applied[w.fpga] \o Completed(storage[w.fpga], w.w)
          /\ FpgaTypes'
      BY <1>0, <2>1, Taking
    <2>3. ASSUME OwnOperations PROVE KeyInv'
      BY <1>0, <2>3, KeyStep DEF MixInv, KeyInv
    <2>4. ASSUME OwnOperations PROVE NoMixedValue'
      <3> USE <2>4
      <3>0. \A f \in Fpga : \A i \in 1..Len(applied[f]) : InPrograms(f, applied[f][i])
        BY NoMixedMeans DEF MixInv
      <3>1. \/ Completed(storage[w.fpga], w.w) = <<>>
            \/ \E j \in Asks(u) :
                  /\ Program[u][j].fpga = w.fpga
                  /\ Completed(storage[w.fpga], w.w) =
                        <<[op |-> Program[u][j].op, val |-> Program[u][j].val]>>
        BY <1>2, CompletedIsAsked
      <3>2. w.fpga \in Fpga /\ applied[w.fpga] \in Seq(Operation)
        BY <1>0, <2>1, WordType DEF FpgaTypes
      <3> HIDE DEF w
      <3>3. CASE Completed(storage[w.fpga], w.w) = <<>>
        <4>1. applied'[w.fpga] = applied[w.fpga]
          BY <2>2, <3>2, <3>3, ConcatEmptySeq
        <4>2. \A f \in Fpga : applied'[f] = applied[f]
          BY <2>2, <4>1
        <4> QED BY <3>0, <4>2, NoMixedMeansNext
      <3>4. ASSUME NEW j \in Asks(u), Program[u][j].fpga = w.fpga,
                   Completed(storage[w.fpga], w.w) =
                        <<[op |-> Program[u][j].op, val |-> Program[u][j].val]>>
            PROVE  NoMixedValue'
        <4> DEFINE o == [op |-> Program[u][j].op, val |-> Program[u][j].val]
                   a == applied[w.fpga]
        <4>1. o \in Operation /\ InPrograms(w.fpga, o)
          <5>1. o \in Operation
            BY ProgramType DEF Operation
          <5>2. Program[u][j] = [fpga |-> w.fpga, op |-> o.op, val |-> o.val]
            BY <3>4, ProgramType
          <5> QED BY <5>1, <5>2 DEF InPrograms
        <4>2. a \in Seq(Operation) /\ applied'[w.fpga] = a \o <<o>>
          BY <2>2, <3>2, <3>4
        <4> HIDE DEF o, a
        <4>3. a \o <<o>> = Append(a, o)
          BY <4>1, <4>2, AppendIsConcat
        <4>4. /\ Len(a) \in Nat /\ Len(Append(a, o)) = Len(a) + 1
              /\ \A i \in 1..Len(a) : Append(a, o)[i] = a[i]
              /\ Append(a, o)[Len(a) + 1] = o
          BY <4>1, <4>2, AppendProperties
        <4>5. ASSUME NEW i \in 1..Len(Append(a, o)) PROVE InPrograms(w.fpga, Append(a, o)[i])
          <5>1. CASE i \in 1..Len(a)
            BY <3>0, <3>2, <4>4, <5>1 DEF a
          <5>2. CASE i = Len(a) + 1
            BY <4>1, <4>4, <5>2
          <5> QED BY <4>4, <5>1, <5>2
        <4>6. \A f \in Fpga : \A i \in 1..Len(applied'[f]) : InPrograms(f, applied'[f][i])
          BY <2>2, <3>0, <4>2, <4>3, <4>5
        <4> QED BY <4>6, NoMixedMeansNext
      <3> QED BY <3>1, <3>3, <3>4
    <2> QED BY <1>0, <2>2, <2>3, <2>4 DEF MixInv
  <1> QED BY <1>1, <1>2, TakenFromItsThread

\* An FPGA never acts on halves of two operations, as long as no two threads
\* use the same operation on it: gotMatchingWord's check of the operation is
\* enough, however the words of several threads mix.
THEOREM NoMixed == Spec => []NoMixedValue
  <1>1. Init => IInv /\ Routes /\ MixInv
    BY InvInit, RoutesInit, MixInit
  <1>2. IInv /\ Routes /\ MixInv /\ [Next]_vars => (IInv /\ Routes /\ MixInv)'
    BY InvStep, RoutesStep, MixStep
  <1>3. MixInv => NoMixedValue
    BY DEF MixInv, NoMixedValue
  <1> QED BY <1>1, <1>2, <1>3, PTL DEF Spec

-----------------------------------------------------------------------------
\* A rank is a number.
LEMMA RankFinite ==
    ASSUME NEW N \in Nat, NEW P \in SUBSET (1..N), NEW i \in Int
    PROVE  /\ IsFiniteSet(P) /\ Cardinality(P) \in Nat
           /\ IsFiniteSet({j \in P : j <= i}) /\ Rank(P, i) \in Nat
  <1>1. IsFiniteSet(1..N)
    BY FS_Interval
  <1>2. IsFiniteSet(P) /\ IsFiniteSet({j \in P : j <= i})
    BY <1>1, FS_Subset
  <1> QED BY <1>2, FS_CardinalityType DEF Rank

\* It grows by one at each member of the set.
LEMMA RankGrows ==
    ASSUME NEW N \in Nat, NEW P \in SUBSET (1..N), NEW i \in Int
    PROVE  Rank(P, i) = IF i \in P THEN Rank(P, i - 1) + 1 ELSE Rank(P, i - 1)
  <1>0. \A j \in P : j \in Int /\ 1 <= j /\ j <= N
    OBVIOUS
  <1> DEFINE Upto(n) == {j \in P : j <= n}
  <1>1. IsFiniteSet(Upto(i - 1)) /\ Cardinality(Upto(i - 1)) \in Nat
    <2>1. i - 1 \in Int
      OBVIOUS
    <2> QED BY <2>1, RankFinite DEF Rank
  <1>2. CASE i \in P
    <2>0. ~(i <= i - 1) /\ \A x \in P : x <= i <=> (x <= i - 1 \/ x = i)
      BY <1>0
    <2>1. Upto(i) = Upto(i - 1) \cup {i} /\ i \notin Upto(i - 1)
      BY <1>2, <2>0, Zenon
    <2> HIDE DEF Upto
    <2>2. Cardinality(Upto(i - 1) \cup {i}) = Cardinality(Upto(i - 1)) + 1
      BY <1>1, <2>1, FS_AddElement
    <2> QED BY <1>2, <2>1, <2>2 DEF Rank, Upto
  <1>3. CASE i \notin P
    <2>0. \A x \in P : x <= i <=> (x <= i - 1 \/ x = i)
      BY <1>0
    <2>1. Upto(i) = Upto(i - 1)
      BY <1>3, <2>0, Zenon
    <2> QED BY <1>3, <2>1 DEF Rank
  <1> QED BY <1>2, <1>3

\* Later members have larger ranks.
LEMMA RankOrder ==
    ASSUME NEW N \in Nat, NEW P \in SUBSET (1..N), NEW i \in Int, NEW j \in P, i < j
    PROVE  Rank(P, i) < Rank(P, j)
  <1>0. \A l \in P : l \in Int /\ 1 <= l /\ l <= N
    OBVIOUS
  <1>1. j \in Int /\ j - 1 \in Int
    OBVIOUS
  <1>2. Rank(P, j) = Rank(P, j - 1) + 1
    BY <1>1, RankGrows
  <1>3. Rank(P, i) <= Rank(P, j - 1)
    <2>0. \A l \in P : l <= i => l <= j - 1
      BY <1>0, <1>1
    <2>1. {l \in P : l <= i} \subseteq {l \in P : l <= j - 1}
      BY <2>0, Zenon
    <2>2. IsFiniteSet({l \in P : l <= j - 1})
      BY <1>1, RankFinite
    <2> QED BY <2>1, <2>2, FS_Subset DEF Rank
  <1>4. Rank(P, i) \in Nat /\ Rank(P, j - 1) \in Nat
    BY <1>1, RankFinite
  <1> QED BY <1>2, <1>3, <1>4

\* Every number up to the size of the set is the rank of a member.
LEMMA RankFound ==
    ASSUME NEW N \in Nat, NEW P \in SUBSET (1..N), NEW k \in 1..Cardinality(P)
    PROVE  \E i \in P : Rank(P, i) = k
  <1>0. \A j \in P : j \in Int /\ 1 <= j /\ j <= N
    OBVIOUS
  <1> DEFINE T == {n \in Nat : Rank(P, n) >= k}
  <1>1. Cardinality(P) \in Nat /\ \A n \in Int : Rank(P, n) \in Nat
    <2>1. \A n \in Int : Rank(P, n) \in Nat
      BY RankFinite
    <2>2. 0 \in Int
      OBVIOUS
    <2> QED BY <2>1, <2>2, RankFinite
  <1>2. N \in T
    <2>1. {j \in P : j <= N} = P
      BY <1>0
    <2>2. Rank(P, N) = Cardinality(P)
      BY <2>1 DEF Rank
    <2> QED BY <1>1, <2>2
  <1>3. PICK i \in T : \A y \in T : i <= y
    <2> HIDE DEF T
    <2>1. T \in SUBSET Nat /\ T # {}
      BY <1>2 DEF T
    <2> QED BY <2>1, Least
  <1>4. Rank(P, 0) = 0
    <2>0. \A j \in P : ~(j <= 0)
      BY <1>0
    <2>1. {j \in P : j <= 0} = {}
      BY <2>0
    <2> QED BY <2>1, FS_EmptySet DEF Rank
  <1>5. i \in Nat /\ Rank(P, i) >= k /\ i # 0 /\ Rank(P, i - 1) \in Nat
    BY <1>1, <1>4
  <1>6. ~(Rank(P, i - 1) >= k)
    <2>1. i - 1 \in Nat /\ ~(i <= i - 1)
      BY <1>5
    <2> QED BY <1>3, <2>1
  <1>7. Rank(P, i) = IF i \in P THEN Rank(P, i - 1) + 1 ELSE Rank(P, i - 1)
    <2>1. i \in Int
      BY <1>5
    <2> QED BY <2>1, RankGrows
  <1>8. i \in P /\ Rank(P, i) = k
    BY <1>1, <1>5, <1>6, <1>7
  <1> QED BY <1>8

-----------------------------------------------------------------------------
\* The words for an FPGA, and the operations whose both words it took.
At(f) == {w \in AnyWord : w.fpga = f}
DoneOf(f, t, done) == {i \in Places(f, t) : 2 * i <= done}

\* The words of f's sole user are in order, the half in storage is that of the
\* operation it is in the middle of, and what f did is what both words were
\* taken of.
SoleAt(t, f, done) ==
    /\ InOrder(Chan(t), pc[t], done, At(f), t)
    /\ \A i \in Places(f, t) : done = 2 * i - 1 =>
           storage[f] = [op |-> Program[t][i].op, low |-> Program[t][i].val % HALF]
    /\ Len(applied[f]) = Cardinality(DoneOf(f, t, done))
    /\ \A i \in DoneOf(f, t, done) :
           applied[f][Rank(Places(f, t), i)] = [op |-> Program[t][i].op, val |-> Program[t][i].val]

SoleInv ==
    \A f \in Fpga : \A t \in Thread : Sent(f) = {t} => \E done \in 0..pc[t] : SoleAt(t, f, done)

\* A sole user's words are nobody else's.
LEMMA SoleIsOwn ==
    ASSUME NEW f \in Fpga, NEW t \in Thread, Sent(f) = {t}
    PROVE  ClassOf(At(f), f, t)
  <1>1. ASSUME NEW u \in Thread \ {t}, NEW n \in 1..Words(u)
        PROVE  Word(u, n) \notin At(f)
    <2>1. PICK j \in Asks(u) : n = 2 * j - 1 \/ n = 2 * j
      BY EveryWord
    <2>2. Word(u, n).fpga = Program[u][j].fpga
      BY <2>1, TwoWords
    <2>3. Places(f, u) = {}
      BY DEF Sent
    <2>4. Program[u][j].fpga # f
      BY <2>3 DEF Places, Asks
    <2> QED BY <2>2, <2>4 DEF At
  <1> QED BY <1>1 DEF ClassOf, At

\* Where the operations for an FPGA are.
LEMMA PlacesType ==
    ASSUME NEW t \in Thread, NEW f
    PROVE  /\ Len(Program[t]) \in Nat /\ Places(f, t) \in SUBSET (1..Len(Program[t]))
           /\ \A i \in Places(f, t) : i \in Asks(t) /\ i \in Nat /\ Program[t][i].fpga = f
  BY RingbusAssumption DEF Places, Asks

\* There are finitely many.
LEMMA DoneType ==
    ASSUME NEW t \in Thread, NEW f, NEW d \in Int
    PROVE  IsFiniteSet(DoneOf(f, t, d)) /\ Cardinality(DoneOf(f, t, d)) \in Nat
  <1>1. IsFiniteSet(Places(f, t)) /\ DoneOf(f, t, d) \subseteq Places(f, t)
    BY PlacesType, RankFinite DEF DoneOf
  <1> QED BY <1>1, FS_Subset, FS_CardinalityType

\* The rank of an operation among those done is its rank among all.
LEMMA DoneRank ==
    ASSUME NEW t \in Thread, NEW f, NEW i \in Places(f, t)
    PROVE  Rank(Places(f, t), i) = Cardinality(DoneOf(f, t, 2 * i))
  <1>1. \A j \in Places(f, t) : j <= i <=> 2 * j <= 2 * i
    BY PlacesType
  <1>2. {j \in Places(f, t) : j <= i} = DoneOf(f, t, 2 * i)
    BY <1>1 DEF DoneOf
  <1> QED BY <1>2 DEF Rank

-----------------------------------------------------------------------------
\* SoleInv holds at first.
LEMMA SoleInit == Init => SoleInv
  <1> SUFFICES ASSUME Init, NEW f \in Fpga, NEW t \in Thread
               PROVE  \E done \in 0..pc[t] : SoleAt(t, f, done)
    BY DEF SoleInv
  <1>1. pc[t] = 0 /\ InOrder(Chan(t), pc[t], 0, At(f), t)
    BY OrderAtFirst
  <1>2. ASSUME NEW i \in Places(f, t) PROVE 0 # 2 * i - 1 /\ ~(2 * i <= 0)
    <2>1. i \in 1..Len(Program[t]) /\ Len(Program[t]) \in Nat
      BY PlacesType
    <2> QED BY <2>1
  <1>3. DoneOf(f, t, 0) = {}
    BY <1>2 DEF DoneOf
  <1>4. Len(applied[f]) = 0 /\ Cardinality({}) = 0
    <2>1. applied[f] = <<>>
      BY DEF Init
    <2> QED BY <2>1, FS_EmptySet
  <1>5. SoleAt(t, f, 0)
    BY <1>1, <1>2, <1>3, <1>4 DEF SoleAt
  <1> QED BY <1>1, <1>5

\* Words for other FPGAs do not matter.
LEMMA SolePasses ==
    ASSUME FpgaTypes, NEW f \in Fpga, NEW t \in Thread, NEW done \in Nat, SoleAt(t, f, done),
           Passes(At(f), t, done)
    PROVE  SoleAt(t, f, done)'
  <1>1. storage'[f] = storage[f] /\ applied'[f] = applied[f]
    <2>1. CASE UNCHANGED fpgas
      BY <2>1 DEF fpgas
    <2>2. ASSUME NEW w \in AnyWord \ At(f), Takes(w)
          PROVE  storage'[f] = storage[f] /\ applied'[f] = applied[f]
      <3>1. w.fpga # f
        BY DEF At
      <3> QED BY <2>2, <3>1, Taking
    <2> QED BY <2>1, <2>2 DEF Passes
  <1>2. InOrder(Chan(t)', pc'[t], done, At(f), t)
    BY DEF Passes
  <1> QED BY <1>1, <1>2 DEF SoleAt, DoneOf, Places

\* Which of t's words to f come between two of them.
LEMMA NoneBetween ==
    ASSUME NEW t \in Thread, NEW f, NEW done \in Nat, NEW m \in Nat, done < m,
           \A l \in (done + 1)..(m - 1) : Word(t, l) \notin At(f), NEW i \in Places(f, t)
    PROVE  /\ 2 * i <= m - 1 => 2 * i <= done
           /\ 2 * i - 1 <= m - 1 => 2 * i - 1 <= done
  <1>1. i \in Asks(t) /\ i \in Nat /\ Program[t][i].fpga = f
    BY PlacesType
  <1>2. Word(t, 2 * i) \in At(f) /\ Word(t, 2 * i - 1) \in At(f)
    BY <1>1, TwoWords DEF At, AnyWord
  <1>3. 2 * i \notin (done + 1)..(m - 1) /\ 2 * i - 1 \notin (done + 1)..(m - 1)
    BY <1>2
  <1> QED BY <1>1, <1>3

\* f takes the next of t's words to it: a low half is kept, a high half
\* completes the operation whose low half came before it.
LEMMA SoleTakes ==
    ASSUME IInv, FpgaTypes, NEW f \in Fpga, NEW t \in Thread, NEW done \in 0..pc[t],
           SoleAt(t, f, done), NEW w \in At(f), TakesNext(At(f), t, done, w)
    PROVE  \E d \in 0..pc'[t] : SoleAt(t, f, d)'
  <1> DEFINE P == Places(f, t)
  <1>0. PICK m \in (done + 1)..pc[t] :
            /\ w = Word(t, m)
            /\ \A l \in (done + 1)..(m - 1) : Word(t, l) \notin At(f)
            /\ InOrder(Chan(t)', pc'[t], m, At(f), t)
    BY DEF TakesNext
  <1>1. /\ pc[t] \in Nat /\ pc' = pc /\ m \in 0..pc'[t] /\ m \in 1..Words(t) /\ m \in Nat
        /\ done \in Nat /\ done < m
    BY ProgramLengths DEF IInv, Shapes, TakesNext
  <1>2. PICK i \in Asks(t) : m = 2 * i - 1 \/ m = 2 * i
    BY <1>1, EveryWord
  <1>3. i \in Nat /\ Len(Program[t]) \in Nat
    BY ProgramType
  <1>4. w \in AnyWord /\ w.fpga = f /\ w.w.op = Program[t][i].op /\ i \in P
    <2>1. w \in AnyWord /\ w.fpga = f
      BY DEF At
    <2>2. w.w.op = Program[t][i].op /\ w.fpga = Program[t][i].fpga
      BY <1>0, <1>2, TwoWords
    <2> QED BY <2>1, <2>2 DEF Places, Asks
  <1>5. /\ storage'[f] = Stored(storage[f], w.w)
        /\ applied'[f] = applied[f] \o Completed(storage[f], w.w)
        /\ applied[f] \in Seq(Operation)
    BY <1>4, Taking DEF TakesNext, FpgaTypes
  <1>6. \A j \in P : 2 * j <= m - 1 => 2 * j <= done
    BY <1>0, <1>1, NoneBetween
  <1>7. CASE m = 2 * i - 1
    <2>1. ~w.w.high /\ w.w.half = Program[t][i].val % HALF
      BY <1>0, <1>7, TwoWords
    <2>2. storage'[f] = [op |-> Program[t][i].op, low |-> Program[t][i].val % HALF]
      BY <1>4, <1>5, <2>1 DEF Stored
    <2>3. applied'[f] = applied[f]
      BY <1>5, <2>1, ConcatEmptySeq DEF Completed
    <2>4. ASSUME NEW j \in P PROVE 2 * j <= m <=> 2 * j <= done
      <3>1. j \in Nat
        BY PlacesType
      <3>2. 2 * j # m
        BY <1>3, <1>7, <3>1
      <3> QED BY <1>1, <1>6, <3>1, <3>2
    <2>5. DoneOf(f, t, m) = DoneOf(f, t, done)
      BY <2>4 DEF DoneOf
    <2>6. \A j \in P : m = 2 * j - 1 => j = i
      BY <1>3, <1>7, PlacesType
    <2>7. SoleAt(t, f, m)'
      BY <1>0, <2>2, <2>3, <2>5, <2>6 DEF SoleAt, DoneOf, Places
    <2> QED BY <1>1, <2>7
  <1>8. CASE m = 2 * i
    <2>1. w.w.high /\ w.w.half = (Program[t][i].val \div HALF) % HALF
      BY <1>0, <1>8, TwoWords
    <2>2. done = 2 * i - 1
      <3>1. 2 * i - 1 <= m - 1 => 2 * i - 1 <= done
        BY <1>0, <1>1, <1>4, NoneBetween
      <3> QED BY <1>1, <1>3, <1>8, <3>1
    <2>3. storage[f] = [op |-> Program[t][i].op, low |-> Program[t][i].val % HALF]
      BY <1>4, <2>2 DEF SoleAt
    <2> DEFINE o == [op |-> Program[t][i].op, val |-> Program[t][i].val]
               a == applied[f]
    <2>4. Completed(storage[f], w.w) = <<o>>
      <3>1. storage[f].op = w.w.op /\ storage[f].low = Program[t][i].val % HALF
        BY <1>4, <2>3
      <3>2. w.w.half * HALF + storage[f].low = Program[t][i].val
        BY <2>1, <3>1, ProgramType, Halves
      <3> QED BY <1>4, <2>1, <3>1, <3>2 DEF Completed
    <2>5. o \in Operation /\ a \in Seq(Operation) /\ applied'[f] = a \o <<o>>
      <3>1. o \in Operation
        BY ProgramType DEF Operation
      <3> QED BY <1>5, <2>4, <3>1
    <2>6. DoneOf(f, t, m) = DoneOf(f, t, done) \cup {i} /\ i \notin DoneOf(f, t, done)
      <3>1. ASSUME NEW j \in P PROVE 2 * j <= m <=> (2 * j <= done \/ j = i)
        <4>1. j \in Nat
          BY PlacesType
        <4> QED BY <1>3, <1>8, <2>2, <4>1
      <3>2. ~(2 * i <= done)
        BY <1>3, <2>2
      <3> QED BY <1>4, <3>1, <3>2 DEF DoneOf
    <2>7. /\ Len(a) = Cardinality(DoneOf(f, t, done)) /\ Len(a) \in Nat
          /\ Cardinality(DoneOf(f, t, m)) = Len(a) + 1
      <3>1. IsFiniteSet(DoneOf(f, t, done))
        <4>1. done \in Int
          BY <1>1
        <4> QED BY <4>1, DoneType
      <3>2. Cardinality(DoneOf(f, t, done) \cup {i}) = Cardinality(DoneOf(f, t, done)) + 1
        BY <2>6, <3>1, FS_AddElement
      <3>3. Len(a) = Cardinality(DoneOf(f, t, done))
        BY DEF SoleAt
      <3>4. Len(a) \in Nat
        BY <2>5
      <3> QED BY <2>6, <3>2, <3>3, <3>4
    <2>8. Rank(P, i) = Len(a) + 1
      BY <1>4, <1>8, <2>7, DoneRank
    <2>9. ASSUME NEW j \in DoneOf(f, t, done)
          PROVE  Rank(P, j) \in 1..Len(a)
      <3>0. j \in P /\ 2 * j <= done
        BY DEF DoneOf
      <3>1. j \in P /\ j \in Nat /\ 2 * j <= done
        BY <3>0, PlacesType
      <3>2. j < i
        BY <1>3, <2>2, <3>1
      <3>3. Rank(P, j) < Rank(P, i)
        <4>1. j \in Int /\ P \in SUBSET (1..Len(Program[t]))
          BY <3>1, PlacesType
        <4> HIDE DEF P
        <4> QED BY <1>3, <1>4, <3>2, <4>1, RankOrder
      <3>4. Rank(P, 0) < Rank(P, j) /\ Rank(P, 0) \in Nat /\ Rank(P, j) \in Nat
        <4>1. 0 \in Int /\ 0 < j /\ j \in Int
          BY <3>1, PlacesType
        <4> QED BY <3>1, <4>1, PlacesType, RankOrder, RankFinite
      <3> QED BY <2>7, <2>8, <3>3, <3>4
    <2> HIDE DEF o, a, P
    <2>10. /\ a \o <<o>> = Append(a, o) /\ Len(Append(a, o)) = Len(a) + 1
           /\ \A l \in 1..Len(a) : Append(a, o)[l] = a[l]
           /\ Append(a, o)[Len(a) + 1] = o
      BY <2>5, AppendIsConcat, AppendProperties
    <2>11. Len(applied'[f]) = Cardinality(DoneOf(f, t, m))
      BY <2>5, <2>7, <2>10
    <2>12. ASSUME NEW j \in DoneOf(f, t, m)
           PROVE  applied'[f][Rank(P, j)] = [op |-> Program[t][j].op, val |-> Program[t][j].val]
      <3>1. CASE j = i
        BY <2>5, <2>8, <2>10, <3>1 DEF o
      <3>2. CASE j \in DoneOf(f, t, done)
        <4>1. a[Rank(P, j)] = [op |-> Program[t][j].op, val |-> Program[t][j].val]
          BY <3>2 DEF SoleAt, a, P
        <4> QED BY <2>5, <2>9, <2>10, <3>2, <4>1
      <3> QED BY <2>6, <3>1, <3>2
    <2>13. ASSUME NEW j \in P PROVE m # 2 * j - 1
      <3>1. j \in Nat
        BY PlacesType DEF P
      <3> QED BY <1>3, <1>8, <3>1
    <2>14. SoleAt(t, f, m)'
      BY <1>0, <2>11, <2>12, <2>13 DEF SoleAt, DoneOf, Places, P
    <2> QED BY <1>1, <2>14
  <1> QED BY <1>2, <1>7, <1>8

\* Every step keeps SoleInv.
LEMMA SoleStep == IInv /\ Routes /\ FpgaTypes /\ SoleInv /\ [Next]_vars => SoleInv'
  <1> SUFFICES ASSUME IInv, Routes, FpgaTypes, SoleInv, [Next]_vars,
                      NEW f \in Fpga, NEW t \in Thread, Sent(f) = {t}
               PROVE  \E d \in 0..pc'[t] : SoleAt(t, f, d)'
    BY DEF SoleInv, Sent, Places
  <1>1. PICK done \in 0..pc[t] : SoleAt(t, f, done)
    BY DEF SoleInv
  <1>2. done \in Nat /\ pc[t] \in Nat
    BY DEF IInv, Shapes
  <1>3. Passes(At(f), t, done) \/ \E w \in At(f) : TakesNext(At(f), t, done, w)
    BY <1>1, SoleIsOwn, Progress DEF SoleAt
  <1>4. CASE Passes(At(f), t, done)
    <2>1. done \in 0..pc'[t]
      BY <1>4 DEF Passes
    <2> QED BY <1>1, <1>2, <1>4, <2>1, SolePasses
  <1>5. CASE \E w \in At(f) : TakesNext(At(f), t, done, w)
    BY <1>1, <1>5, SoleTakes
  <1> QED BY <1>3, <1>4, <1>5

\* IsPrefix, element by element.
LEMMA PrefixWhenSame ==
    ASSUME NEW S, NEW s \in Seq(S), NEW t \in Seq(S), Len(s) <= Len(t),
           \A k \in 1..Len(s) : s[k] = t[k]
    PROVE  IsPrefix(s, t)
  <1> DEFINE r == SubSeq(t, 1, Len(s))
  <1>1. Len(s) \in Nat /\ Len(s) \in Int /\ 1 \in Int /\ \A i \in 1..Len(s) : t[i] \in S
    OBVIOUS
  <1>2. /\ r \in Seq(S) /\ Len(r) = IF 1 <= Len(s) THEN Len(s) - 1 + 1 ELSE 0
        /\ \A i \in 1..(Len(s) - 1 + 1) : r[i] = t[1 + i - 1]
    BY <1>1, SubSeqProperties
  <1> HIDE DEF r
  <1>3. Len(r) = Len(s) /\ \A i \in 1..Len(s) : r[i] = s[i]
    BY <1>1, <1>2
  <1>4. r = s
    BY <1>2, <1>3, SeqEqual
  <1>5. SubSeq(s, 1, Len(s)) = s
    BY SubSeqFull
  <1> QED BY <1>4, <1>5 DEF IsPrefix, r

\* The operations done are the first ones asked for.
LEMMA SolePrefix ==
    ASSUME IInv, FpgaTypes, SoleInv PROVE SoleUserIsObeyed
  <1> SUFFICES ASSUME NEW f \in Fpga, NEW t \in Thread, Sent(f) = {t}
               PROVE  IsPrefix(Did(f), Asked(f, t))
    BY DEF SoleUserIsObeyed
  <1> DEFINE P == Places(f, t)
             D == Did(f)
             A == Asked(f, t)
  <1>1. PICK done \in 0..pc[t] : SoleAt(t, f, done)
    BY DEF SoleInv
  <1>2. done \in Nat /\ done \in Int
    BY DEF IInv, Shapes
  <1> DEFINE Q == DoneOf(f, t, done)
  <1>3. /\ Len(applied[f]) = Cardinality(Q) /\ Cardinality(Q) \in Nat
        /\ Cardinality(P) \in Nat /\ Cardinality(Q) <= Cardinality(P)
    <2>1. IsFiniteSet(P) /\ Q \subseteq P /\ Cardinality(P) \in Nat
      BY <1>2, PlacesType, RankFinite DEF DoneOf
    <2>2. Cardinality(Q) <= Cardinality(P)
      BY <2>1, FS_Subset
    <2> QED BY <1>1, <1>2, <2>1, <2>2, DoneType DEF SoleAt
  <1>4. ASSUME NEW k \in 1..Cardinality(Q) PROVE D[k] = A[k]
    <2>1. k \in 1..Cardinality(P) /\ k \in 1..Len(applied[f])
      BY <1>3
    <2>2. \E i \in P : Rank(P, i) = k
      BY <2>1, PlacesType, RankFound, ZenonT(60)
    <2> DEFINE i == CHOOSE i \in P : Rank(P, i) = k
    <2>3. i \in P /\ Rank(P, i) = k
      BY <2>2
    <2>4. A[k] = Program[t][i]
      BY <2>1 DEF Asked
    <2> HIDE DEF i
    <2>5. i \in Q
      <3> SUFFICES ASSUME i \notin Q PROVE FALSE
        OBVIOUS
      <3>1. i \in Nat /\ ~(2 * i <= done)
        BY <2>3, PlacesType DEF DoneOf
      <3>2. ASSUME NEW j \in Q PROVE j \in P /\ j <= i - 1
        <4>1. j \in P /\ j \in Nat /\ 2 * j <= done
          BY PlacesType DEF DoneOf
        <4> QED BY <1>2, <3>1, <4>1
      <3>3. Q \subseteq {j \in P : j <= i - 1}
        BY <3>2
      <3>4. i - 1 \in Int /\ i \in Int
        BY <3>1
      <3>5. IsFiniteSet({j \in P : j <= i - 1}) /\ Rank(P, i - 1) \in Nat
        BY <3>4, PlacesType, RankFinite
      <3>6. Cardinality(Q) <= Rank(P, i - 1)
        BY <3>3, <3>5, FS_Subset DEF Rank
      <3>7. Rank(P, i) = Rank(P, i - 1) + 1
        BY <2>3, <3>4, PlacesType, RankGrows
      <3> QED BY <1>3, <2>3, <3>5, <3>6, <3>7
    <2>6. applied[f][k] = [op |-> Program[t][i].op, val |-> Program[t][i].val]
      BY <1>1, <2>3, <2>5 DEF SoleAt
    <2>7. D[k] = [fpga |-> f, op |-> Program[t][i].op, val |-> Program[t][i].val]
      BY <2>1, <2>6 DEF Did
    <2>8. Program[t][i].fpga = f /\ i \in Asks(t)
      BY <2>3, PlacesType
    <2> QED BY <2>4, <2>7, <2>8, ProgramType
  <1>5. /\ D = [k \in 1..Cardinality(Q) |-> D[k]]
        /\ A = [k \in 1..Cardinality(P) |-> A[k]]
    BY <1>3 DEF Did, Asked
  <1> DEFINE S == {A[k] : k \in 1..Cardinality(P)}
  <1>6. ASSUME NEW k \in 1..Cardinality(Q) PROVE D[k] \in S
    <2>1. k \in 1..Cardinality(P)
      BY <1>3
    <2> QED BY <1>4, <2>1
  <1> HIDE DEF D, A, P, Q
  <1>7. D \in Seq(S) /\ Len(D) = Cardinality(Q)
    <2> HIDE DEF S
    <2> QED BY <1>3, <1>5, <1>6
  <1>8. A \in Seq(S) /\ Len(A) = Cardinality(P)
    BY <1>3, <1>5
  <1> HIDE DEF S
  <1>9. IsPrefix(D, A)
    BY <1>3, <1>4, <1>7, <1>8, PrefixWhenSame
  <1> QED BY <1>9 DEF D, A

\* What only one thread controls does what that thread asked for, in order and
\* once: neither pending_ring_data, whose timers send whatever is in front, nor
\* the two ways out of handle_rb_later reorder, lose or repeat its words.
THEOREM SoleUser == Spec => []SoleUserIsObeyed
  <1> DEFINE Inv == IInv /\ Routes /\ MixInv /\ SoleInv
  <1>1. Init => Inv
    BY InvInit, RoutesInit, MixInit, SoleInit
  <1>2. Inv /\ [Next]_vars => Inv'
    <2>1. MixInv => FpgaTypes
      BY DEF MixInv
    <2> QED BY <2>1, InvStep, RoutesStep, MixStep, SoleStep
  <1>3. Inv => SoleUserIsObeyed
    BY SolePrefix DEF MixInv
  <1> QED BY <1>1, <1>2, <1>3, PTL DEF Spec
=============================================================================
