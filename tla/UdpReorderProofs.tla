-------------------------- MODULE UdpReorderProofs --------------------------
(***************************************************************************)
(* Proofs about the reorder buffer for every pool, tolerance and sequence    *)
(* number width.  The invariants a reader cares about (one owner per chunk,  *)
(* in-order delivery) are not inductive alone: they need to know which       *)
(* iovecs hold a chunk at each point of rxAsyncThread's loop, that a packet  *)
(* is filed under its own number, and that the packet the drain thread       *)
(* holds is the one just before initial_seq_number.  That chunks are lost    *)
(* only to duplicates is a count: every packet in the network, in an iovec   *)
(* or in the map beyond the first with its number, and every lost chunk, is  *)
(* paid for by a copy the network made.                                      *)
(***************************************************************************)
EXTENDS UdpReorder, FiniteSetTheorems, TLAPS

\* Which iovecs hold a chunk, by the receive thread's position.
RxSlots ==
  /\ rxpc \in {"recv", "report"} => \A k \in Slot : iov[k] # NULL
  /\ rxpc = "mark" => i < retval /\ \A k \in Slot : k >= i => iov[k] # NULL
  /\ rxpc = "get" => i < retval /\ \A k \in Slot : (k < i \/ k >= retval) => iov[k] # NULL

\* A packet is filed under the number in its first word.
Filed == \A s \in SeqNum : full[s] # NULL => seqOf[full[s]] = s

\* The packet being written precedes the one the stream waits for, and nothing
\* is held or written before the first packet has fixed the start.
Cursor ==
  /\ out # NULL => initial_seq_number = SeqAfter(seqOf[out])
  /\ ~seq_ok => (out = NULL /\ \A s \in SeqNum : full[s] = NULL)

IInv == TypeOK /\ RxSlots /\ ChunkHasOneOwner /\ Filed /\ Cursor

-----------------------------------------------------------------------------
\* A natural number cut to the width of the uint32_t is a sequence number.
LEMMA SeqModType ==
  ASSUME NEW n \in Nat
  PROVE  n % SeqMod \in SeqNum
<1>1. SeqMod \in Int /\ SeqMod > 0 /\ n \in Int
  BY ReorderAssumption
<1>2. n % SeqMod \in Int /\ 0 <= n % SeqMod /\ n % SeqMod < SeqMod
  BY <1>1
<1> QED
  BY <1>1, <1>2 DEF SeqNum

\* The successor of a sequence number is one, as the uint32_t wraps.
LEMMA SeqAfterType ==
  ASSUME NEW s \in SeqNum
  PROVE  SeqAfter(s) \in SeqNum
<1>1. s + 1 \in Nat
  BY ReorderAssumption DEF SeqNum
<1> QED
  BY <1>1, SeqModType DEF SeqAfter

\* The initial state of HiggsUdpOOO and of both threads satisfies the invariant.
LEMMA InitIInv == Init => IInv
<1> SUFFICES ASSUME Init PROVE IInv
  OBVIOUS
<1>1. 0 \in SeqNum /\ 0 \in Slot /\ VLEN \in 0..VLEN /\ 0 < VLEN
  BY ReorderAssumption DEF SeqNum, Slot
<1>2. TypeOK
  BY <1>1 DEF Init, TypeOK, Nothing
<1>3. RxSlots
  BY ReorderAssumption DEF Init, RxSlots, Slot
<1>4. ChunkHasOneOwner /\ Filed /\ Cursor
  BY DEF Init, ChunkHasOneOwner, Filed, Cursor
<1> QED
  BY <1>2, <1>3, <1>4 DEF IInv

\* Types are preserved by every step of either thread and of the network.
LEMMA TypeStep == IInv /\ [Next]_vars => TypeOK'
<1> SUFFICES ASSUME IInv, [Next]_vars PROVE TypeOK'
  OBVIOUS
<1> USE ReorderAssumption DEF IInv, TypeOK
<1>1. CASE Send
  <2>1. FirstSeq + sent \in Nat
    OBVIOUS
  <2>2. (FirstSeq + sent) % SeqMod \in SeqNum
    BY <2>1, SeqModType
  <2> QED
    BY <1>1, <2>2 DEF Send, buffer, rx, drain
<1>2. CASE Duplicate
  BY <1>2 DEF Duplicate, buffer, rx, drain
<1>3. CASE RxStore
  <2>1. PICK s \in SeqNum :
          /\ inflight[s] > 0
          /\ inflight' = [inflight EXCEPT ![s] = @ - 1]
          /\ seqOf' = [seqOf EXCEPT ![iov[retval]] = s]
    BY <1>3 DEF RxStore
  <2>2. inflight' \in [SeqNum -> Nat]
    <3>1. inflight[s] \in Nat /\ inflight[s] - 1 \in Nat
      BY <2>1
    <3> QED
      BY <2>1, <3>1
  <2>4. seqOf' \in [Chunks -> SeqNum]
    BY <2>1
  <2>3. retval' \in 0..VLEN
    BY <1>3 DEF RxStore
  <2> QED
    BY <1>3, <2>2, <2>3, <2>4 DEF RxStore, drain
<1>4. CASE RxReturn
  BY <1>4 DEF RxReturn, buffer, drain, net, Slot
<1>5. CASE MarkFull
  <2>1. iov[i] \in Chunks
    BY <1>5 DEF MarkFull, RxSlots, Slot
  <2> QED
    BY <1>5, <2>1 DEF MarkFull, drain, net, Slot, StreamStart
<1>6. CASE Get
  <2>1. (IF i + 1 < retval THEN i + 1 ELSE 0) \in Slot
    BY DEF Slot
  <2>2. i' \in Slot
    BY <1>6, <2>1 DEF Get
  <2>3. iov' \in [Slot -> Chunks \union {NULL}] /\ pool' \subseteq Chunks
    BY <1>6 DEF Get
  <2> QED
    BY <1>6, <2>2, <2>3 DEF Get, drain, net
<1>7. CASE Report
  BY <1>7 DEF Report, buffer, drain, net
<1>8. CASE GetNextFound
  BY <1>8, SeqAfterType DEF GetNextFound, rx, net, NextIsHeld
<1>9. CASE GetNextGiveUp
  BY <1>9 DEF GetNextGiveUp, rx, drain, net, GivenUp, Held
<1>10. CASE WriteAndRelease
  BY <1>10 DEF WriteAndRelease, rx, net
<1>11. CASE UNCHANGED vars
  BY <1>11 DEF vars, buffer, rx, drain, net
<1> QED
  BY <1>1, <1>2, <1>3, <1>4, <1>5, <1>6, <1>7, <1>8, <1>9, <1>10, <1>11 DEF Next

\* The receive thread always has a chunk where recvmmsg will store.
LEMMA RxSlotsStep == IInv /\ [Next]_vars => RxSlots'
<1> SUFFICES ASSUME IInv, [Next]_vars PROVE RxSlots'
  OBVIOUS
<1> USE ReorderAssumption DEF IInv, TypeOK, RxSlots
<1>1. CASE Send \/ Duplicate
  BY <1>1 DEF Send, Duplicate, buffer, rx, drain
<1>3. CASE RxStore
  BY <1>3 DEF RxStore
<1>4. CASE RxReturn
  BY <1>4 DEF RxReturn
<1>5. CASE MarkFull
  BY <1>5 DEF MarkFull, Slot
<1>6. CASE Get
  BY <1>6 DEF Get, Slot
<1>7. CASE Report
  BY <1>7 DEF Report
<1>8. CASE GetNextFound \/ GetNextGiveUp \/ WriteAndRelease
  BY <1>8 DEF GetNextFound, GetNextGiveUp, WriteAndRelease, rx
<1>11. CASE UNCHANGED vars
  BY <1>11 DEF vars, buffer, rx
<1> QED
  BY <1>1, <1>3, <1>4, <1>5, <1>6, <1>7, <1>8, <1>11 DEF Next

\* No step hands a chunk to a second owner.
LEMMA OwnerStep == IInv /\ [Next]_vars => ChunkHasOneOwner'
<1> SUFFICES ASSUME IInv, [Next]_vars PROVE ChunkHasOneOwner'
  OBVIOUS
<1> USE ReorderAssumption DEF IInv, TypeOK, ChunkHasOneOwner
<1>1. CASE Send \/ Duplicate \/ RxStore \/ RxReturn \/ Report
  BY <1>1 DEF Send, Duplicate, RxStore, RxReturn, Report, buffer, rx, drain
<1>5. CASE MarkFull
  <2>1. /\ iov[i] \in Chunks
        /\ iov[i] \notin pool
        /\ iov[i] # out
        /\ \A l \in Slot : iov[l] = iov[i] => l = i
        /\ \A s \in SeqNum : full[s] # iov[i]
    BY <1>5 DEF MarkFull, RxSlots, Slot
  <2>2. /\ pool' = pool /\ out' = out
        /\ iov' = [iov EXCEPT ![i] = NULL]
        /\ \A s \in SeqNum : full'[s] = full[s] \/ (full[s] = NULL /\ full'[s] = iov[i] /\ s = seqOf[iov[i]])
    BY <1>5, <2>1 DEF MarkFull, drain
  <2> QED
    BY <2>1, <2>2
<1>6. CASE Get
  BY <1>6 DEF Get, drain
<1>8. CASE GetNextFound
  BY <1>8 DEF GetNextFound, rx, NextIsHeld
<1>9. CASE GetNextGiveUp
  <2>1. PICK m \in Held(full) :
          /\ pool' = pool \union {full[s] : s \in Held(full) \ {m}}
          /\ full' = [s \in SeqNum |-> IF s = m THEN full[s] ELSE NULL]
    BY <1>9 DEF GetNextGiveUp, GivenUp
  <2>2. iov' = iov /\ out' = out /\ out = NULL
    BY <1>9 DEF GetNextGiveUp, rx, drain
  <2> QED
    BY <2>1, <2>2 DEF Held
<1>10. CASE WriteAndRelease
  BY <1>10 DEF WriteAndRelease, rx
<1>11. CASE UNCHANGED vars
  BY <1>11 DEF vars, buffer, rx, drain
<1> QED
  BY <1>1, <1>5, <1>6, <1>8, <1>9, <1>10, <1>11 DEF Next

\* A filed packet is never overwritten, so it stays under its own number.
LEMMA FiledStep == IInv /\ [Next]_vars => Filed'
<1> SUFFICES ASSUME IInv, [Next]_vars PROVE Filed'
  OBVIOUS
<1> USE ReorderAssumption DEF IInv, TypeOK, Filed
<1>1. CASE Send \/ Duplicate \/ RxReturn \/ Report
  BY <1>1 DEF Send, Duplicate, RxReturn, Report, buffer
<1>3. CASE RxStore
  BY <1>3 DEF RxStore, ChunkHasOneOwner, RxSlots, Slot
<1>5. CASE MarkFull
  <2>1. iov[i] \in Chunks
    BY <1>5 DEF MarkFull, RxSlots, Slot
  <2> QED
    BY <1>5, <2>1 DEF MarkFull
<1>6. CASE Get
  BY <1>6 DEF Get
<1>8. CASE GetNextFound
  BY <1>8 DEF GetNextFound
<1>9. CASE GetNextGiveUp
  BY <1>9 DEF GetNextGiveUp
<1>10. CASE WriteAndRelease
  BY <1>10 DEF WriteAndRelease
<1>11. CASE UNCHANGED vars
  BY <1>11 DEF vars, buffer
<1> QED
  BY <1>1, <1>3, <1>5, <1>6, <1>8, <1>9, <1>10, <1>11 DEF Next

\* The drain thread's packet stays the one before initial_seq_number.
LEMMA CursorStep == IInv /\ [Next]_vars => Cursor'
<1> SUFFICES ASSUME IInv, [Next]_vars PROVE Cursor'
  OBVIOUS
<1> USE ReorderAssumption DEF IInv, TypeOK, Cursor
<1>1. CASE Send \/ Duplicate \/ RxReturn \/ Report
  BY <1>1 DEF Send, Duplicate, RxReturn, Report, buffer, drain
<1>3. CASE RxStore
  BY <1>3 DEF RxStore, ChunkHasOneOwner, RxSlots, Slot, drain
<1>5. CASE MarkFull
  BY <1>5 DEF MarkFull, drain, StreamStart
<1>6. CASE Get
  BY <1>6 DEF Get, drain
<1>8. CASE GetNextFound
  BY <1>8 DEF GetNextFound, NextIsHeld, Filed
<1>9. CASE GetNextGiveUp
  BY <1>9 DEF GetNextGiveUp, drain, Held
<1>10. CASE WriteAndRelease
  BY <1>10 DEF WriteAndRelease
<1>11. CASE UNCHANGED vars
  BY <1>11 DEF vars, buffer, drain
<1> QED
  BY <1>1, <1>3, <1>5, <1>6, <1>8, <1>9, <1>10, <1>11 DEF Next

\* The inductive invariant holds of every execution of the two threads.
LEMMA Invariance == Spec => []IInv
<1>1. IInv /\ [Next]_vars => IInv'
  BY TypeStep, RxSlotsStep, OwnerStep, FiledStep, CursorStep DEF IInv
<1> QED
  BY <1>1, InitIInv, PTL DEF Spec

-----------------------------------------------------------------------------
\* Every variable of the reorder buffer and of its threads keeps its type.
THEOREM TypeCorrect == Spec => []TypeOK
<1>1. IInv => TypeOK
  BY DEF IInv
<1> QED
  BY <1>1, Invariance, PTL

\* In every execution each chunk of the pool has at most one owner.
THEOREM OneOwner == Spec => []ChunkHasOneOwner
<1>1. IInv => ChunkHasOneOwner
  BY DEF IInv
<1> QED
  BY <1>1, Invariance, PTL

\* What drainOOOThread writes is an ordered stream: consecutive sequence
\* numbers except across a counted give-up.
THEOREM InOrder == Spec => ImplementsOrderedStream
<1>1. Init => Stream!Init
  BY DEF Init, Stream!Init, Nothing
<1>2. IInv /\ [Next]_vars => [Stream!Next]_(Stream!vars)
  <2> SUFFICES ASSUME IInv, [Next]_vars PROVE Stream!Next \/ UNCHANGED Stream!vars
    OBVIOUS
  <2> USE ReorderAssumption DEF IInv, TypeOK, Stream!vars
  <2>1. CASE Send \/ Duplicate \/ RxReturn \/ Report
    BY <2>1 DEF Send, Duplicate, RxReturn, Report, buffer, drain
  <2>3. CASE RxStore
    BY <2>3 DEF RxStore, ChunkHasOneOwner, RxSlots, Slot, drain
  <2>5. CASE MarkFull
    <3>1. CASE seq_ok
      BY <2>5, <3>1 DEF MarkFull, drain, StreamStart
    <3>2. CASE ~seq_ok
      <4>1. iov[i] \in Chunks
        BY <2>5 DEF MarkFull, RxSlots, Slot
      <4>2. Stream!Start
        BY <2>5, <3>2, <4>1
           DEF MarkFull, drain, StreamStart, Cursor, Stream!Start, Stream!StreamNum, SeqNum
      <4> QED
        BY <4>2 DEF Stream!Next
    <3> QED
      BY <3>1, <3>2
  <2>6. CASE Get
    BY <2>6 DEF Get, drain
  <2>8. CASE GetNextFound
    BY <2>8 DEF GetNextFound, NextIsHeld, Filed
  <2>9. CASE GetNextGiveUp
    <3>1. Stream!Resync
      BY <2>9 DEF GetNextGiveUp, Cursor, Held, drain, Stream!Resync, Stream!StreamNum, SeqNum
    <3> QED
      BY <3>1 DEF Stream!Next
  <2>10. CASE WriteAndRelease
    <3>1. Stream!Deliver
      BY <2>10 DEF WriteAndRelease, Cursor, SeqAfter, Stream!Deliver
    <3> QED
      BY <3>1 DEF Stream!Next
  <2>11. CASE UNCHANGED vars
    BY <2>11 DEF vars, buffer, drain
  <2> QED
    BY <2>1, <2>3, <2>5, <2>6, <2>8, <2>9, <2>10, <2>11 DEF Next
<1> QED
  BY <1>1, <1>2, Invariance, PTL DEF Spec, ImplementsOrderedStream, Stream!Spec

-----------------------------------------------------------------------------
\* The sequence numbers of a set of packets.
Nums(T) == {p[2] : p \in T}

\* There are at most as many as packets.
LEMMA NumsSize ==
  ASSUME NEW T, IsFiniteSet(T)
  PROVE  /\ IsFiniteSet(Nums(T)) /\ Cardinality(Nums(T)) <= Cardinality(T)
         /\ Cardinality(T) \in Nat /\ Cardinality(Nums(T)) \in Nat
<1> DEFINE f == [p \in T |-> p[2]]
<1>1. f \in Surjection(T, Nums(T))
  BY DEF Surjection, Nums
<1>2. IsFiniteSet(Nums(T)) /\ Cardinality(Nums(T)) <= Cardinality(T)
  BY <1>1, FS_Surjection
<1> QED
  BY <1>2, FS_CardinalityType

\* One more packet.
LEMMA Enters ==
  ASSUME NEW T, IsFiniteSet(T), NEW b, b \notin T
  PROVE  /\ IsFiniteSet(T \cup {b}) /\ Cardinality(T \cup {b}) = Cardinality(T) + 1
         /\ Nums(T \cup {b}) = Nums(T) \cup {b[2]}
         /\ Cardinality(Nums(T \cup {b})) =
              Cardinality(Nums(T)) + (IF b[2] \in Nums(T) THEN 0 ELSE 1)
<1>1. Nums(T \cup {b}) = Nums(T) \cup {b[2]}
  BY DEF Nums
<1>2. IsFiniteSet(T \cup {b}) /\ Cardinality(T \cup {b}) = Cardinality(T) + 1
  BY FS_AddElement
<1>3. IsFiniteSet(Nums(T)) /\ Cardinality(Nums(T)) \in Nat
  BY NumsSize
<1>4. CASE b[2] \in Nums(T)
  <2>1. Nums(T) \cup {b[2]} = Nums(T)
    BY <1>4
  <2>2. Cardinality(Nums(T \cup {b})) = Cardinality(Nums(T))
    BY <1>1, <2>1
  <2>3. Cardinality(Nums(T)) + 0 = Cardinality(Nums(T))
    BY <1>3
  <2> QED
    BY <1>1, <1>2, <1>4, <2>2, <2>3
<1>5. CASE b[2] \notin Nums(T)
  <2>1. Cardinality(Nums(T) \cup {b[2]}) = Cardinality(Nums(T)) + 1
    BY <1>3, <1>5, FS_AddElement
  <2> QED
    BY <1>1, <1>2, <1>5, <2>1
<1> QED
  BY <1>4, <1>5

\* Some packets less.
LEMMA Leaves ==
  ASSUME NEW T, IsFiniteSet(T), NEW X \in SUBSET T
  PROVE  /\ IsFiniteSet(T \ X) /\ Nums(T \ X) \subseteq Nums(T)
         /\ Cardinality(T) - Cardinality(T \ X) >= Cardinality(Nums(T)) - Cardinality(Nums(T \ X))
<1>1. /\ IsFiniteSet(X) /\ IsFiniteSet(T \ X) /\ T = X \cup (T \ X) /\ X \cap (T \ X) = {}
  BY FS_Subset
<1>2. Cardinality(T) = Cardinality(X) + Cardinality(T \ X)
  <2> DEFINE Y == T \ X
  <2>0. IsFiniteSet(X) /\ IsFiniteSet(Y) /\ X \cap Y = {} /\ T = X \cup Y
    BY <1>1
  <2> HIDE DEF Y
  <2>1. Cardinality(X \cup Y) = Cardinality(X) + Cardinality(Y) - Cardinality(X \cap Y)
    BY <2>0, FS_Union
  <2>2. Cardinality(X) \in Nat /\ Cardinality(Y) \in Nat /\ Cardinality(X \cap Y) = 0
    BY <2>0, FS_EmptySet, FS_CardinalityType
  <2>3. Cardinality(T) = Cardinality(X) + Cardinality(Y)
    BY <2>0, <2>1, <2>2
  <2> QED
    BY <2>3 DEF Y
<1>3. Nums(T) = Nums(X) \cup Nums(T \ X)
  BY DEF Nums
<1>4. /\ IsFiniteSet(Nums(X)) /\ IsFiniteSet(Nums(T \ X))
      /\ Cardinality(Nums(X)) <= Cardinality(X)
      /\ Cardinality(Nums(X)) \in Nat /\ Cardinality(Nums(T \ X)) \in Nat
      /\ Cardinality(X) \in Nat /\ Cardinality(T \ X) \in Nat
  BY <1>1, NumsSize
<1> DEFINE a == Nums(X)
           b == Nums(T \ X)
<1> HIDE DEF a, b
<1>5. Cardinality(a \cup b) <= Cardinality(a) + Cardinality(b)
  <2>0. IsFiniteSet(a) /\ IsFiniteSet(b)
    BY <1>4 DEF a, b
  <2>1. Cardinality(a \cup b) = Cardinality(a) + Cardinality(b) - Cardinality(a \cap b)
    BY <2>0, FS_Union
  <2>2. Cardinality(a) \in Nat /\ Cardinality(b) \in Nat /\ Cardinality(a \cap b) \in Nat
    BY <2>0, FS_Intersection, FS_CardinalityType
  <2> QED
    BY <2>1, <2>2
<1>6. Cardinality(a \cup b) \in Nat
  <2>0. IsFiniteSet(a \cup b)
    BY <1>4, FS_Union DEF a, b
  <2> QED BY <2>0, FS_CardinalityType
<1>7. Nums(T) = a \cup b /\ Nums(T \ X) = b /\ Nums(X) = a
  BY <1>3 DEF a, b
<1>8. Nums(T \ X) \subseteq Nums(T)
  BY <1>3
<1>9. Cardinality(T) - Cardinality(T \ X) >= Cardinality(Nums(T)) - Cardinality(Nums(T \ X))
  <2> DEFINE x == Cardinality(X)
             y == Cardinality(T \ X)
             t == Cardinality(T)
             u == Cardinality(a)
             v == Cardinality(b)
             z == Cardinality(a \cup b)
  <2>1. t = x + y /\ u <= x /\ z <= u + v /\ x \in Nat /\ y \in Nat /\ u \in Nat /\ v \in Nat /\ z \in Nat
    BY <1>2, <1>4, <1>5, <1>6, <1>7
  <2>2. t - y >= z - v
    <3> HIDE DEF x, y, t, u, v, z
    <3> QED BY <2>1
  <2> QED
    BY <1>7, <2>2
<1> QED
  BY <1>1, <1>8, <1>9

\* A packet moves on.
LEMMA Moves ==
  ASSUME NEW T, IsFiniteSet(T), NEW a \in T, NEW b, b \notin T, a[2] = b[2]
  PROVE  LET R == (T \ {a}) \cup {b} IN
         IsFiniteSet(R) /\ Cardinality(R) = Cardinality(T) /\ Nums(R) = Nums(T)
<1>1. IsFiniteSet(T \ {a}) /\ Cardinality(T \ {a}) = Cardinality(T) - 1
  BY FS_RemoveElement
<1>2. IsFiniteSet((T \ {a}) \cup {b}) /\ Cardinality((T \ {a}) \cup {b}) = Cardinality(T \ {a}) + 1
  BY <1>1, FS_AddElement
<1>3. Nums((T \ {a}) \cup {b}) = Nums(T)
  BY DEF Nums
<1>4. Cardinality(T) \in Nat
  BY FS_CardinalityType
<1> QED
  BY <1>1, <1>2, <1>3, <1>4

\* The iovecs with a message that markFull has not seen.
Unmarked == {k \in Slot : \/ rxpc = "recv" /\ k < retval
                          \/ rxpc = "mark" /\ i <= k /\ k < retval}

\* The packets on their way into the map: <<where, number, which>>.
Packets ==
  {p \in {"net", "iov", "map"} \X SeqNum \X Nat :
     \/ p[1] = "net" /\ 1 <= p[3] /\ p[3] <= inflight[p[2]]
     \/ p[1] = "iov" /\ p[3] \in Unmarked /\ p[2] = seqOf[iov[p[3]]]
     \/ p[1] = "map" /\ p[3] = 0 /\ full[p[2]] # NULL}

\* An iovec that is about to be given a chunk has none.
RxEmpty ==
  /\ rxpc = "mark" => \A k \in Slot : k < i => iov[k] = NULL
  /\ rxpc = "get" => \A k \in Slot : i <= k /\ k < retval => iov[k] = NULL

\* The numbers of the packets sent so far.
SentNums == {(FirstSeq + k) % SeqMod : k \in 0..(sent - 1)}

\* The count; as long as no number is used twice, every number of a packet has
\* been sent.
Tally ==
  /\ IsFiniteSet(Packets)
  /\ Cardinality(Lost) + Cardinality(Packets) <= dups + Cardinality(Nums(Packets))
  /\ Nums(Packets) \subseteq SentNums
  /\ sent + dups <= MaxSent

LInv == RxEmpty /\ (MaxSent <= SeqMod => Tally)

\* The pool is finite.
LEMMA LostSize == IsFiniteSet(Lost) /\ Cardinality(Lost) \in Nat
<1>1. IsFiniteSet(Lost)
  BY ReorderAssumption, FS_Subset DEF Lost
<1> QED
  BY <1>1, FS_CardinalityType

\* Also after a step.
LEMMA LostSizeNext == IsFiniteSet(Lost') /\ Cardinality(Lost') \in Nat
<1>1. IsFiniteSet(Lost')
  BY ReorderAssumption, FS_Subset DEF Lost
<1> QED
  BY <1>1, FS_CardinalityType

\* A sequence number is not used twice.
LEMMA FreshNumber ==
  ASSUME MaxSent <= SeqMod, NEW k \in Nat, NEW l \in Nat, k < l, l < MaxSent
  PROVE  (FirstSeq + k) % SeqMod # (FirstSeq + l) % SeqMod
<1>1. SeqMod \in Nat /\ SeqMod > 0 /\ FirstSeq \in Nat /\ FirstSeq < SeqMod /\ MaxSent \in Nat
  BY ReorderAssumption
<1>2. ASSUME NEW x \in Nat, x < 2 * SeqMod
      PROVE  x % SeqMod = IF x < SeqMod THEN x ELSE x - SeqMod
  <2>1. CASE x < SeqMod
    BY <1>1, <2>1
  <2>2. CASE ~(x < SeqMod)
    <3>1. x % SeqMod = (x - SeqMod) % SeqMod
      <4> DEFINE r == x % SeqMod
                 d == x \div SeqMod
      <4> QED BY <1>1, <2>2, <1>2
    <3> QED
      BY <1>1, <1>2, <2>2, <3>1
  <2> QED
    BY <2>1, <2>2
<1>3. FirstSeq + k \in Nat /\ FirstSeq + l \in Nat /\ FirstSeq + k < 2 * SeqMod /\ FirstSeq + l < 2 * SeqMod
  BY <1>1
<1> QED
  BY <1>1, <1>2, <1>3

\* Nothing is lost or on its way at first.
LEMMA TallyInit == Init => LInv
<1> SUFFICES ASSUME Init PROVE LInv
  OBVIOUS
<1>1. RxEmpty
  BY DEF Init, RxEmpty
<1>2. Packets = {}
  BY DEF Init, Packets, Unmarked
<1>3. Nums(Packets) = {}
  BY <1>2 DEF Nums
<1>4. Lost = {}
  BY DEF Init, Lost
<1>5. IsFiniteSet({}) /\ Cardinality({}) = 0
  BY FS_EmptySet
<1>6. sent = 0 /\ dups = 0
  BY DEF Init
<1>7. /\ Cardinality(Lost) = 0 /\ Cardinality(Packets) = 0 /\ Cardinality(Nums(Packets)) = 0
      /\ IsFiniteSet(Packets) /\ Nums(Packets) \subseteq SentNums
  BY <1>2, <1>3, <1>4, <1>5
<1> HIDE DEF Packets, Lost, Nums, SentNums
<1>8. Tally
  BY <1>6, <1>7, ReorderAssumption DEF Tally
<1> QED
  BY <1>1, <1>8 DEF LInv

\* get() never overwrites a chunk in an iovec.
LEMMA RxEmptyStep == IInv /\ RxEmpty /\ [Next]_vars => RxEmpty'
<1> SUFFICES ASSUME IInv, RxEmpty, [Next]_vars PROVE RxEmpty'
  OBVIOUS
<1> USE ReorderAssumption DEF IInv, TypeOK, RxEmpty
<1>1. CASE Send \/ Duplicate
  BY <1>1 DEF Send, Duplicate, buffer, rx, drain
<1>3. CASE RxStore
  BY <1>3 DEF RxStore
<1>4. CASE RxReturn
  BY <1>4 DEF RxReturn, Slot
<1>5. CASE MarkFull
  BY <1>5 DEF MarkFull, Slot, RxSlots
<1>6. CASE Get
  BY <1>6 DEF Get, Slot
<1>7. CASE Report
  BY <1>7 DEF Report
<1>8. CASE GetNextFound \/ GetNextGiveUp \/ WriteAndRelease
  BY <1>8 DEF GetNextFound, GetNextGiveUp, WriteAndRelease, rx
<1>11. CASE UNCHANGED vars
  BY <1>11 DEF vars, buffer, rx
<1> QED
  BY <1>1, <1>3, <1>4, <1>5, <1>6, <1>7, <1>8, <1>11 DEF Next

\* What a step may do to the packets and the lost chunks.
LEMMA TallyRests ==
  ASSUME Tally, Packets' = Packets, Lost' = Lost, UNCHANGED <<sent, dups>>
  PROVE  Tally'
<1>1. Nums(Packets)' = Nums(Packets) /\ SentNums' = SentNums
  BY DEF Nums, SentNums
<1> QED
  BY <1>1 DEF Tally

\* A packet goes from the network to an iovec, or from an iovec to the map.
LEMMA TallyMoves ==
  ASSUME Tally, NEW a \in Packets, NEW b, b \notin Packets, a[2] = b[2],
         Packets' = (Packets \ {a}) \cup {b}, Lost' = Lost, UNCHANGED <<sent, dups>>
  PROVE  Tally'
<1> DEFINE T == Packets
           R == (T \ {a}) \cup {b}
<1>1. IsFiniteSet(T) /\ a \in T /\ b \notin T
  BY DEF Tally
<1> HIDE DEF T
<1>2. IsFiniteSet(R) /\ Cardinality(R) = Cardinality(T) /\ Nums(R) = Nums(T)
  BY <1>1, Moves
<1>3. Packets' = R /\ Nums(Packets)' = Nums(R) /\ SentNums' = SentNums
  BY DEF Nums, SentNums, T
<1> HIDE DEF R
<1> QED
  BY <1>2, <1>3 DEF Tally, T

\* Packets leave the map, for EventDsp or given up.
LEMMA TallyLeaves ==
  ASSUME Tally, NEW X \in SUBSET Packets, Packets' = Packets \ X, Lost' = Lost,
         UNCHANGED <<sent, dups>>, dups \in Nat
  PROVE  Tally'
<1> DEFINE T == Packets
           R == T \ X
<1>1. IsFiniteSet(T) /\ X \in SUBSET T
  BY DEF Tally
<1> HIDE DEF T
<1>2. /\ IsFiniteSet(R) /\ Nums(R) \subseteq Nums(T)
      /\ Cardinality(T) - Cardinality(R) >= Cardinality(Nums(T)) - Cardinality(Nums(R))
  BY <1>1, Leaves
<1>3. Packets' = R /\ Nums(Packets)' = Nums(R) /\ SentNums' = SentNums /\ Cardinality(Lost') = Cardinality(Lost)
  BY DEF Nums, SentNums, T
<1>4. /\ Cardinality(R) \in Nat /\ Cardinality(Nums(R)) \in Nat
      /\ Cardinality(T) \in Nat /\ Cardinality(Nums(T)) \in Nat
  <2> HIDE DEF R
  <2> QED BY <1>1, <1>2, NumsSize
<1> HIDE DEF R
<1>5. Cardinality(Lost') + Cardinality(R) <= dups + Cardinality(Nums(R))
  <2>1. Cardinality(Lost) + Cardinality(T) <= dups + Cardinality(Nums(T))
    BY DEF Tally, T
  <2> QED
    BY <1>2, <1>3, <1>4, <2>1, LostSize
<1> QED
  BY <1>2, <1>3, <1>5 DEF Tally, T

\* A second copy is not filed, and its chunk is lost.
LEMMA TallyLoses ==
  ASSUME Tally, NEW a \in Packets, NEW b \in Packets, a # b, a[2] = b[2],
         Packets' = Packets \ {a}, NEW c, Lost' = Lost \cup {c}, UNCHANGED <<sent, dups>>, dups \in Nat
  PROVE  Tally'
<1> DEFINE T == Packets
           R == T \ {a}
<1>1. IsFiniteSet(T) /\ a \in T /\ b \in T
  BY DEF Tally
<1> HIDE DEF T
<1>2. IsFiniteSet(R) /\ Cardinality(R) = Cardinality(T) - 1
  BY <1>1, FS_RemoveElement
<1>3. Nums(R) = Nums(T)
  BY <1>1 DEF Nums
<1>4. Packets' = R /\ Nums(Packets)' = Nums(R) /\ SentNums' = SentNums
  BY DEF Nums, SentNums, T
<1>5. /\ Cardinality(T) \in Nat /\ Cardinality(Nums(T)) \in Nat
  BY <1>1, NumsSize
<1>6. Cardinality(Lost') <= Cardinality(Lost) + 1 /\ Cardinality(Lost') \in Nat /\ Cardinality(Lost) \in Nat
  <2>1. Cardinality(Lost \cup {c}) = IF c \in Lost THEN Cardinality(Lost) ELSE Cardinality(Lost) + 1
    BY LostSize, FS_AddElement
  <2> QED
    BY <2>1, LostSize, LostSizeNext
<1> HIDE DEF R
<1>7. Cardinality(Lost') + Cardinality(R) <= dups + Cardinality(Nums(R))
  <2>1. Cardinality(Lost) + Cardinality(T) <= dups + Cardinality(Nums(T))
    BY DEF Tally, T
  <2> QED
    BY <1>2, <1>3, <1>5, <1>6, <2>1
<1> QED
  BY <1>2, <1>3, <1>4, <1>7 DEF Tally, T

\* Every step keeps the count.
LEMMA TallyStep == IInv /\ LInv /\ [Next]_vars => LInv'
<1> SUFFICES ASSUME IInv, RxEmpty, MaxSent <= SeqMod, Tally, [Next]_vars PROVE Tally'
  BY RxEmptyStep DEF LInv
<1> USE ReorderAssumption
<1>0. TypeOK /\ sent \in Nat /\ dups \in Nat
  BY DEF IInv, TypeOK
<1>1. CASE Send
  <2> DEFINE s == (FirstSeq + sent) % SeqMod
             b == <<"net", s, inflight[s] + 1>>
             T == Packets
             R == T \cup {b}
  <2>0. s \in SeqNum /\ inflight[s] \in Nat
    <3>1. FirstSeq + sent \in Nat
      BY <1>0
    <3>2. s \in SeqNum
      BY <3>1, SeqModType
    <3> QED
      BY <1>0, <3>2 DEF TypeOK
  <2>1. /\ inflight' = [inflight EXCEPT ![s] = @ + 1] /\ sent' = sent + 1 /\ dups' = dups
        /\ UNCHANGED <<rxpc, retval, i, seqOf, iov, full, pool, out>> /\ sent + dups < MaxSent
    BY <1>1 DEF Send, buffer, rx, drain
  <2>2. Lost' = Lost
    BY <2>1 DEF Lost
  <2>3. b \notin T /\ b[2] = s
    BY <2>0 DEF Packets
  <2>4. Packets' = R
    BY <1>0, <2>0, <2>1 DEF Packets, Unmarked, TypeOK
  <2>5. s \notin Nums(T)
    <3>1. ASSUME NEW k \in 0..(sent - 1) PROVE (FirstSeq + k) % SeqMod # s
      <4>1. k \in Nat /\ k < sent /\ sent < MaxSent
        BY <1>0, <2>1
      <4> QED
        BY <1>0, <4>1, FreshNumber
    <3> QED
      BY <3>1 DEF Tally, SentNums
  <2>6. SentNums' = SentNums \cup {s}
    <3>1. 0..((sent + 1) - 1) = 0..(sent - 1) \cup {sent}
      BY <1>0
    <3> QED
      BY <2>1, <3>1 DEF SentNums
  <2>7. IsFiniteSet(T) /\ Nums(T) \subseteq SentNums
        /\ Cardinality(Lost) + Cardinality(T) <= dups + Cardinality(Nums(T))
    BY DEF Tally
  <2> HIDE DEF T, b, s
  <2>8. /\ IsFiniteSet(R) /\ Cardinality(R) = Cardinality(T) + 1
        /\ Nums(R) = Nums(T) \cup {s} /\ Cardinality(Nums(R)) = Cardinality(Nums(T)) + 1
    BY <2>3, <2>5, <2>7, Enters
  <2>9. Nums(Packets)' = Nums(R) /\ Cardinality(T) \in Nat /\ Cardinality(Nums(T)) \in Nat
    BY <2>4, <2>7, NumsSize DEF Nums
  <2> HIDE DEF R
  <2> QED
    BY <1>0, <2>1, <2>2, <2>4, <2>6, <2>7, <2>8, <2>9, LostSize DEF Tally
<1>2. CASE Duplicate
  <2>0. PICK s \in SeqNum : inflight[s] > 0 /\ inflight' = [inflight EXCEPT ![s] = @ + 1]
    BY <1>2 DEF Duplicate
  <2> DEFINE b == <<"net", s, inflight[s] + 1>>
             a == <<"net", s, 1>>
             T == Packets
             R == T \cup {b}
  <2>1. /\ dups' = dups + 1 /\ sent' = sent /\ inflight[s] \in Nat
        /\ UNCHANGED <<rxpc, retval, i, seqOf, iov, full, pool, out>> /\ sent + dups < MaxSent
    BY <1>0, <1>2 DEF Duplicate, buffer, rx, drain, TypeOK
  <2>2. Lost' = Lost /\ SentNums' = SentNums
    BY <2>1 DEF Lost, SentNums
  <2>3. b \notin T /\ b[2] = s /\ a \in T /\ a[2] = s
    BY <2>0, <2>1 DEF Packets
  <2>4. Packets' = R
    BY <1>0, <2>0, <2>1 DEF Packets, Unmarked, TypeOK
  <2>5. s \in Nums(T)
    BY <2>3 DEF Nums
  <2>7. IsFiniteSet(T) /\ Nums(T) \subseteq SentNums
        /\ Cardinality(Lost) + Cardinality(T) <= dups + Cardinality(Nums(T))
    BY DEF Tally
  <2> HIDE DEF T, b, a
  <2>8. /\ IsFiniteSet(R) /\ Cardinality(R) = Cardinality(T) + 1
        /\ Nums(R) = Nums(T) \cup {s} /\ Cardinality(Nums(R)) = Cardinality(Nums(T)) + 0
    BY <2>3, <2>5, <2>7, Enters
  <2>9. Nums(Packets)' = Nums(R) /\ Cardinality(T) \in Nat /\ Cardinality(Nums(T)) \in Nat
    BY <2>4, <2>7, NumsSize DEF Nums
  <2> HIDE DEF R
  <2> QED
    BY <1>0, <2>1, <2>2, <2>4, <2>5, <2>7, <2>8, <2>9, LostSize DEF Tally
<1>3. CASE RxStore
  <2>0. PICK s \in SeqNum :
          /\ inflight[s] > 0
          /\ inflight' = [inflight EXCEPT ![s] = @ - 1]
          /\ seqOf' = [seqOf EXCEPT ![iov[retval]] = s]
    BY <1>3 DEF RxStore
  <2> DEFINE a == <<"net", s, inflight[s]>>
             b == <<"iov", s, retval>>
  <2>1. /\ rxpc = "recv" /\ retval \in Nat /\ retval < VLEN /\ retval \in Slot /\ retval' = retval + 1
        /\ UNCHANGED <<pool, full, iov, rxpc, i, out, sent, dups>> /\ inflight[s] \in Nat
        /\ iov[retval] \in Chunks
    BY <1>0, <1>3 DEF RxStore, drain, TypeOK, Slot, IInv, RxSlots
  <2>2. /\ \A k \in Slot : k < retval => seqOf'[iov[k]] = seqOf[iov[k]]
        /\ seqOf'[iov[retval]] = s
    BY <1>0, <2>0, <2>1 DEF TypeOK, IInv, RxSlots, ChunkHasOneOwner
  <2>3. Lost' = Lost
    BY <2>1 DEF Lost
  <2>4. Unmarked' = Unmarked \cup {retval} /\ retval \notin Unmarked
    BY <2>1 DEF Unmarked, Slot
  <2>5. a \in Packets /\ b \notin Packets /\ a[2] = b[2]
    BY <2>0, <2>1, <2>4 DEF Packets
  <2>6. Packets' = (Packets \ {a}) \cup {b}
    BY <1>0, <2>0, <2>1, <2>2, <2>4 DEF Packets, TypeOK, Slot, Unmarked
  <2> QED
    BY <2>1, <2>3, <2>5, <2>6, TallyMoves
<1>4. CASE RxReturn
  <2>1. Unmarked' = Unmarked
    BY <1>0, <1>4 DEF RxReturn, Unmarked, TypeOK, Slot
  <2>2. Packets' = Packets /\ Lost' = Lost
    BY <1>4, <2>1 DEF RxReturn, Packets, Lost, buffer, drain, net
  <2> QED
    BY <1>4, <2>2, TallyRests DEF RxReturn, net
<1>5. CASE MarkFull
  <2> DEFINE s == seqOf[iov[i]]
             a == <<"iov", s, i>>
             b == <<"map", s, 0>>
  <2>1. /\ rxpc = "mark" /\ i \in Slot /\ i \in Nat /\ i < retval /\ iov[i] \in Chunks /\ s \in SeqNum
        /\ iov' = [iov EXCEPT ![i] = NULL]
        /\ full' = IF full[s] = NULL THEN [full EXCEPT ![s] = iov[i]] ELSE full
        /\ UNCHANGED <<pool, seqOf, out, sent, dups, inflight, retval>>
    BY <1>0, <1>5 DEF MarkFull, drain, net, TypeOK, IInv, RxSlots, Slot
  <2>2. Unmarked' = Unmarked \ {i} /\ i \in Unmarked
    BY <1>0, <1>5, <2>1 DEF MarkFull, Unmarked, TypeOK, Slot
  <2>3. \A k \in Unmarked : k # i => iov'[k] = iov[k]
    BY <1>0, <2>1 DEF Unmarked, TypeOK
  <2>4. a \in Packets /\ a[2] = s
    BY <2>1, <2>2 DEF Packets
  <2>5. CASE full[s] = NULL
    <3>1. b \notin Packets /\ b[2] = s
      BY <2>5 DEF Packets
    <3>2. Packets' = (Packets \ {a}) \cup {b}
      BY <1>0, <2>1, <2>2, <2>3, <2>5 DEF Packets, TypeOK
    <3>3. Lost' = Lost
      BY <1>0, <2>1, <2>5 DEF Lost, TypeOK
    <3> QED
      BY <2>1, <2>4, <3>1, <3>2, <3>3, TallyMoves
  <2>6. CASE full[s] # NULL
    <3>1. b \in Packets /\ b[2] = s /\ a # b
      BY <2>1, <2>6 DEF Packets
    <3>2. Packets' = Packets \ {a}
      BY <1>0, <2>1, <2>2, <2>3, <2>6 DEF Packets, TypeOK
    <3>3. Lost' = Lost \cup {iov[i]}
      BY <1>0, <2>1, <2>6 DEF Lost, TypeOK, IInv, ChunkHasOneOwner
    <3> QED
      BY <1>0, <2>1, <2>4, <3>1, <3>2, <3>3, TallyLoses
  <2> QED
    BY <2>5, <2>6
<1>6. CASE Get
  <2>1. Packets' = Packets
    BY <1>6 DEF Get, Packets, Unmarked, net
  <2>2. Lost' = Lost
    <3>1. CASE pool = {}
      BY <1>6, <3>1 DEF Get, Lost, drain
    <3>2. CASE pool # {}
      <4>1. PICK c \in pool : pool' = pool \ {c} /\ iov' = [iov EXCEPT ![i] = c]
        BY <1>6, <3>2 DEF Get
      <4>2. iov[i] = NULL /\ i \in Slot /\ UNCHANGED <<full, out>> /\ c \in Chunks
        BY <1>0, <1>6 DEF Get, drain, TypeOK, RxEmpty, IInv, RxSlots, Slot
      <4> QED
        BY <1>0, <4>1, <4>2 DEF Lost, TypeOK
    <3> QED
      BY <3>1, <3>2
  <2> QED
    BY <1>6, <2>1, <2>2, TallyRests DEF Get, net
<1>7. CASE Report
  <2>1. Packets' = Packets /\ Lost' = Lost
    BY <1>7 DEF Report, Packets, Unmarked, Lost, buffer, drain, net, Slot
  <2> QED
    BY <1>7, <2>1, TallyRests DEF Report, net
<1>8. CASE GetNextFound
  <2> DEFINE s == initial_seq_number
             a == <<"map", s, 0>>
  <2>1. /\ s \in SeqNum /\ full[s] # NULL /\ out = NULL /\ out' = full[s]
        /\ full' = [full EXCEPT ![s] = NULL]
        /\ UNCHANGED <<pool, seqOf, iov, rxpc, retval, i, inflight, sent, dups>>
    BY <1>0, <1>8 DEF GetNextFound, NextIsHeld, rx, net, TypeOK
  <2>2. Packets' = Packets \ {a} /\ {a} \in SUBSET Packets
    BY <1>0, <2>1 DEF Packets, Unmarked, TypeOK
  <2>3. Lost' = Lost
    BY <1>0, <2>1 DEF Lost, TypeOK, IInv, ChunkHasOneOwner
  <2> QED
    BY <1>0, <2>1, <2>2, <2>3, TallyLeaves
<1>9. CASE GetNextGiveUp
  <2>1. PICK m \in Held(full) :
          /\ pool' = pool \union {full[s] : s \in Held(full) \ {m}}
          /\ full' = [s \in SeqNum |-> IF s = m THEN full[s] ELSE NULL]
    BY <1>9 DEF GetNextGiveUp, GivenUp
  <2>2. UNCHANGED <<out, seqOf, iov, rxpc, retval, i, inflight, sent, dups>>
    BY <1>9 DEF GetNextGiveUp, rx, drain, net
  <2> DEFINE X == {p \in Packets : p[1] = "map" /\ p[2] # m}
  <2>3. Packets' = Packets \ X /\ X \in SUBSET Packets
    BY <1>0, <2>1, <2>2 DEF Packets, Unmarked, TypeOK
  <2>4. Lost' = Lost
    BY <1>0, <2>1, <2>2 DEF Lost, TypeOK, IInv, ChunkHasOneOwner, Held
  <2> QED
    BY <1>0, <2>2, <2>3, <2>4, TallyLeaves
<1>10. CASE WriteAndRelease
  <2>1. Packets' = Packets /\ Lost' = Lost
    BY <1>10 DEF WriteAndRelease, Packets, Unmarked, Lost, rx, net
  <2> QED
    BY <1>10, <2>1, TallyRests DEF WriteAndRelease, net
<1>11. CASE UNCHANGED vars
  <2>1. Packets' = Packets /\ Lost' = Lost
    BY <1>11 DEF vars, buffer, rx, drain, net, Packets, Unmarked, Lost
  <2> QED
    BY <1>11, <2>1, TallyRests DEF vars, net
<1> QED
  BY <1>1, <1>2, <1>3, <1>4, <1>5, <1>6, <1>7, <1>8, <1>9, <1>10, <1>11 DEF Next

\* When no sequence number is used twice, a chunk is lost only to a packet the
\* network duplicated.
THEOREM PoolKept == Spec => []LostOnlyToDuplicates
<1>1. Init => IInv /\ LInv
  BY InitIInv, TallyInit
<1>2. IInv /\ LInv /\ [Next]_vars => (IInv /\ LInv)'
  BY TypeStep, RxSlotsStep, OwnerStep, FiledStep, CursorStep, TallyStep DEF IInv
<1>3. IInv /\ LInv => LostOnlyToDuplicates
  <2> SUFFICES ASSUME IInv, Tally PROVE Cardinality(Lost) <= dups
    BY DEF LInv, LostOnlyToDuplicates
  <2>1. Cardinality(Nums(Packets)) <= Cardinality(Packets)
        /\ Cardinality(Packets) \in Nat /\ Cardinality(Nums(Packets)) \in Nat
    BY NumsSize DEF Tally
  <2>2. dups \in Nat /\ Cardinality(Lost) + Cardinality(Packets) <= dups + Cardinality(Nums(Packets))
    BY DEF IInv, TypeOK, Tally
  <2> QED
    BY <2>1, <2>2, LostSize
<1> QED
  BY <1>1, <1>2, <1>3, PTL DEF Spec
=============================================================================
