------------------------ MODULE FeedbackParseProofs ------------------------
(***************************************************************************)
(* Proofs about the feedback bus parser for every size of its window and   *)
(* of the packets, every length of frames and every body.  A word that is  *)
(* sure may be read as a header only if it begins a frame; the parser's    *)
(* own steps keep that because a header it accepts is not a zero, nor is   *)
(* its length, and its frame is shorter than the window: a frame that      *)
(* reached over the whole run of zeros would not fit.  The invariant says  *)
(* where in the buffer a run is and how it goes with the count of zeros.   *)
(***************************************************************************)
EXTENDS FeedbackParse, SequenceTheorems, Induction

LEMMA Numbers ==
    /\ HEADER \in Nat /\ MAX_LENGTH \in Nat /\ LINEAR_SIZE \in Nat /\ LOWATER \in Nat
    /\ PACKET \in Nat /\ PACKET >= 1 /\ MaxBacklog \in Nat /\ MaxLost \in Nat
    /\ 2 <= HEADER /\ HEADER <= MAX_LENGTH
    /\ MAX_LENGTH + PACKET <= LINEAR_SIZE
    /\ 2 * PACKET <= LINEAR_SIZE
    /\ LOWATER <= LINEAR_SIZE
    /\ LINEAR_SIZE <= MaxBacklog
    /\ Recovers \in Nat /\ Recovers >= 1 /\ LINEAR_SIZE = Recovers + 3
  BY FeedbackAssumption DEF Recovers

-----------------------------------------------------------------------------
(* The loop of parseFeedbackBuffer.                                        *)

\* A turn of the loop goes on, by one word or by a frame that is in the window
\* with one word more, or stays where it is because the header is too near the
\* end of the window or the frame is longer.
LEMMA Turn ==
    ASSUME NEW win \in Seq(TaggedWord), NEW i \in 0 .. Len(win)
    PROVE  /\ After(win)[i] \in 0 .. Len(win)
           /\ After(win)[i] = i => i = Len(win) \/ Beyond(win, i)
           /\ After(win)[i] # i =>
                 /\ i < Len(win) /\ ~Beyond(win, i)
                 /\ \/ After(win)[i] = i + 1 /\ win[i + 1].v = 0
                    \/ /\ After(win)[i] = i + 1
                       /\ (i + 1) + HEADER <= Len(win) /\ IsError(win, i)
                    \/ /\ Accepts(win, i)
                       /\ win[i + 2].v \in HEADER .. Len(win) - (i + 1)
                       /\ win[i + 1].v = STREAM
                       /\ After(win)[i] = i + win[i + 2].v
           /\ After(win)[i] >= i
           /\ Accepts(win, i) => After(win)[i] # i
  <1>1. After(win)[i] = IF i = Len(win) \/ Beyond(win, i) THEN i ELSE i + Advance(win, i)
    BY DEF After
  <1>2. CASE i = Len(win) \/ Beyond(win, i)
    BY <1>1, <1>2 DEF Accepts
  <1>3. CASE i < Len(win) /\ ~Beyond(win, i)
    <2>1. i + 1 \in 1 .. Len(win) /\ win[i + 1] \in TaggedWord
      BY <1>3
    <2>2. CASE win[i + 1].v = 0
      BY <1>1, <1>3, <2>2 DEF Advance, Accepts
    <2>3. CASE win[i + 1].v # 0
      <3>1. (i + 1) + HEADER <= Len(win) /\ (IsError(win, i) \/ (i + 1) + win[i + 2].v <= Len(win))
            /\ win[i + 2] \in TaggedWord /\ win[i + 2].v \in Nat
        <4>1. (i + 1) + HEADER <= Len(win)
          BY <1>3, <2>3, Numbers DEF Beyond
        <4>2. i + 2 \in 1 .. Len(win)
          BY <4>1, Numbers
        <4>3. win[i + 2] \in TaggedWord
          BY <4>2
        <4>4. win[i + 2].v \in Nat
          BY <4>3 DEF TaggedWord
        <4>5. IsError(win, i) \/ (i + 1) + win[i + 2].v <= Len(win)
          BY <1>3, <2>3, <4>4 DEF Beyond
        <4> QED BY <4>1, <4>3, <4>4, <4>5
      <3>2. CASE IsError(win, i)
        BY <1>1, <1>3, <2>3, <3>1, <3>2 DEF Advance, Accepts
      <3>3. CASE ~IsError(win, i)
        <4>1. win[i + 1].v = STREAM /\ win[i + 2].v >= HEADER
          BY <3>3 DEF IsError
        <4>2. After(win)[i] = i + win[i + 2].v /\ Accepts(win, i)
          BY <1>1, <1>3, <2>3, <3>3 DEF Advance, Accepts
        <4> QED BY <1>3, <2>3, <3>1, <3>3, <4>1, <4>2, Numbers
      <3> QED BY <3>2, <3>3
    <2> QED BY <2>2, <2>3
  <1> QED BY <1>2, <1>3, Numbers

\* The loop's index by the number of its turns.
LEMMA IndexDef ==
    ASSUME NEW win \in Seq(TaggedWord)
    PROVE  /\ Index(win) \in [0 .. Len(win) -> 0 .. Len(win)]
           /\ Index(win)[0] = 0
           /\ \A k \in 1 .. Len(win) : Index(win)[k] = After(win)[Index(win)[k - 1]]
  <1> DEFINE S == 0 .. Len(win)
             turn == After(win)
             P(q) == q = [k \in 0 .. Len(win) |-> IF k = 0 THEN 0 ELSE turn[q[k - 1]]]
             step == [k \in 1 .. Len(win) |-> turn]
  <1>1. turn \in [S -> S]
    <2>1. turn = [i \in 0 .. Len(win) |-> turn[i]]
      BY DEF After
    <2>2. \A i \in S : turn[i] \in S
      BY Turn
    <2> HIDE DEF turn
    <2> QED BY <2>1, <2>2
  <1>2. Index(win) = CHOOSE q : P(q)
    BY DEF Index
  <1>3. Len(win) \in Nat /\ 0 \in S
    OBVIOUS
  <1>4. \E p \in [0 .. Len(win) -> S] : P(p)
    <2> DEFINE n == Len(win)
    <2> HIDE DEF S, n, turn
    <2>1. step \in [1 .. n -> [S -> S]]
      BY <1>1 DEF n
    <2> HIDE DEF step
    <2>2. n \in Nat /\ 0 \in S
      BY <1>3 DEF n
    <2>3. PICK p \in [0 .. n -> S] : p[0] = 0 /\ \A k \in 1 .. n : p[k] = step[k][p[k - 1]]
      <3>1. Iterates(S, 0, n, step)
        BY <2>1, <2>2, Iteration
      <3> QED BY <3>1 DEF Iterates
    <2>4. \A k \in 1 .. n : step[k] = turn
      BY DEF step, n
    <2>5. \A k \in 0 .. n : p[k] = IF k = 0 THEN 0 ELSE turn[p[k - 1]]
      <3> TAKE k \in 0 .. n
      <3>1. k = 0 \/ k \in 1 .. n
        BY <2>2
      <3> QED BY <2>3, <2>4, <3>1
    <2>6. p = [k \in 0 .. n |-> p[k]]
      OBVIOUS
    <2>7. P(p)
      BY <2>5, <2>6 DEF n
    <2> QED BY <2>7 DEF n
  <1> HIDE DEF P
  <1>5. P(CHOOSE q : P(q))
    BY <1>4
  <1>6. P(Index(win))
    BY <1>2, <1>5
  <1>7. Index(win) \in [0 .. Len(win) -> 0 .. Len(win)]
    <2>1. PICK p \in [0 .. Len(win) -> S] : P(p)
      BY <1>4
    <2> DEFINE T == {m \in Nat : m \in 0 .. Len(win) => Index(win)[m] \in S}
    <2>2. \A k \in 0 .. Len(win) : Index(win)[k] = IF k = 0 THEN 0 ELSE turn[Index(win)[k - 1]]
      BY <1>6 DEF P
    <2> HIDE DEF turn
    <2>3. 0 \in T
      BY <2>2
    <2>4. ASSUME NEW m \in Nat, m \in T PROVE m + 1 \in T
      <3> SUFFICES ASSUME m + 1 \in 0 .. Len(win) PROVE Index(win)[m + 1] \in S
        OBVIOUS
      <3>1. m \in 0 .. Len(win) /\ Index(win)[m] \in S
        BY <2>4
      <3>2. Index(win)[m + 1] = turn[Index(win)[m]]
        BY <2>2
      <3>3. turn[Index(win)[m]] \in S
        BY <1>1, <3>1
      <3> QED BY <3>2, <3>3
    <2> HIDE DEF T
    <2>5. Nat \subseteq T
      BY <2>3, <2>4, SetInduction
    <2>6. \A k \in 0 .. Len(win) : Index(win)[k] \in 0 .. Len(win)
      BY <2>5, <1>3 DEF T
    <2>7. DOMAIN Index(win) = 0 .. Len(win) /\ Index(win) = [k \in 0 .. Len(win) |-> Index(win)[k]]
      BY <1>6 DEF P
    <2> QED BY <2>6, <2>7
  <1>8. Index(win)[0] = 0 /\ \A k \in 1 .. Len(win) : Index(win)[k] = turn[Index(win)[k - 1]]
    BY <1>6, <1>3 DEF P
  <1> QED BY <1>7, <1>8

\* The loop does not turn back, and stays once it stays at its start.
LEMMA Forward ==
    ASSUME NEW win \in Seq(TaggedWord)
    PROVE  /\ \A k \in 0 .. Len(win) : Index(win)[k] >= k \/ After(win)[Index(win)[k]] = Index(win)[k]
           /\ \A k \in 1 .. Len(win) : Index(win)[k] >= After(win)[0]
           /\ After(win)[0] = 0 => \A k \in 0 .. Len(win) : Index(win)[k] = 0
  <1> DEFINE at == Index(win)
             turn == After(win)
             T == {k \in Nat : k \in 0 .. Len(win) =>
                      /\ at[k] >= k \/ turn[at[k]] = at[k]
                      /\ k >= 1 => at[k] >= turn[0]
                      /\ turn[0] = 0 => at[k] = 0}
  <1>1. /\ at \in [0 .. Len(win) -> 0 .. Len(win)] /\ at[0] = 0 /\ Len(win) \in Nat
        /\ \A k \in 1 .. Len(win) : at[k] = turn[at[k - 1]]
    BY IndexDef
  <1>2. \A i \in 0 .. Len(win) : turn[i] \in 0 .. Len(win) /\ turn[i] >= i
    BY Turn
  <1> HIDE DEF at, turn
  <1>3. 0 \in T
    BY <1>1, <1>2
  <1>4. ASSUME NEW k \in Nat, k \in T PROVE k + 1 \in T
    <2> SUFFICES ASSUME k + 1 \in 0 .. Len(win)
                 PROVE  /\ at[k + 1] >= k + 1 \/ turn[at[k + 1]] = at[k + 1]
                        /\ at[k + 1] >= turn[0]
                        /\ turn[0] = 0 => at[k + 1] = 0
      OBVIOUS
    <2>1. /\ k \in 0 .. Len(win) /\ at[k] \in 0 .. Len(win) /\ at[k + 1] = turn[at[k]]
          /\ at[k + 1] \in 0 .. Len(win)
      BY <1>1
    <2>2. /\ at[k] >= k \/ turn[at[k]] = at[k]
          /\ k >= 1 => at[k] >= turn[0]
          /\ turn[0] = 0 => at[k] = 0
      BY <1>4, <2>1
    <2>3. turn[at[k]] >= at[k]
      BY <1>2, <2>1
    <2>4. at[k + 1] >= k + 1 \/ turn[at[k + 1]] = at[k + 1]
      <3>1. CASE turn[at[k]] = at[k]
        BY <2>1, <3>1
      <3>2. CASE turn[at[k]] # at[k]
        BY <2>1, <2>2, <2>3, <3>2
      <3> QED BY <3>1, <3>2
    <2>5. at[k + 1] >= turn[0]
      <3>1. CASE k = 0
        BY <1>1, <2>1, <3>1, <1>2
      <3>2. CASE k >= 1
        <4>1. turn[0] \in 0 .. Len(win)
          BY <1>1, <1>2
        <4> QED BY <2>1, <2>2, <2>3, <3>2, <4>1
      <3> QED BY <3>1, <3>2
    <2>6. turn[0] = 0 => at[k + 1] = 0
      BY <2>1, <2>2
    <2> QED BY <2>4, <2>5, <2>6
  <1> HIDE DEF T
  <1>5. Nat \subseteq T
    BY <1>3, <1>4, SetInduction
  <1>6. ASSUME NEW k \in 0 .. Len(win)
        PROVE  /\ at[k] >= k \/ turn[at[k]] = at[k]
               /\ k >= 1 => at[k] >= turn[0]
               /\ turn[0] = 0 => at[k] = 0
    <2>1. k \in T
      BY <1>1, <1>5
    <2> QED BY <2>1 DEF T
  <1> QED BY <1>1, <1>6 DEF at, turn

\* What one call of parseFeedbackBuffer drains: all of the window, or what is
\* before a header it cannot pass; if anything, at least what the first turn
\* goes over.
LEMMA Consumes ==
    ASSUME NEW win \in Seq(TaggedWord)
    PROVE  /\ Parse(win).consumed = Index(win)[Len(win)]
           /\ Parse(win).consumed \in 0 .. Len(win)
           /\ Parse(win).consumed = Len(win) \/ Beyond(win, Parse(win).consumed)
           /\ Parse(win).consumed # 0 =>
                 After(win)[0] # 0 /\ Parse(win).consumed >= After(win)[0]
  <1> DEFINE c == Index(win)[Len(win)]
  <1>1. Parse(win).consumed = c
    BY DEF Parse
  <1>2. c \in 0 .. Len(win) /\ Len(win) \in Nat
    BY IndexDef
  <1>3. c >= Len(win) \/ After(win)[c] = c
    BY <1>2, Forward
  <1>4. c = Len(win) \/ Beyond(win, c)
    <2> HIDE DEF c
    <2>1. After(win)[c] = c => c = Len(win) \/ Beyond(win, c)
      BY <1>2, Turn
    <2> QED BY <1>2, <1>3, <2>1
  <1>5. ASSUME c # 0 PROVE After(win)[0] # 0 /\ c >= After(win)[0]
    <2>1. Len(win) \in 1 .. Len(win) /\ Len(win) \in 0 .. Len(win)
      BY <1>2, <1>5
    <2>2. c >= After(win)[0] /\ (After(win)[0] = 0 => c = 0)
      BY <2>1, Forward
    <2> QED BY <1>5, <2>2
  <1>6. Parse(win).consumed = Len(win) \/ Beyond(win, Parse(win).consumed)
    BY <1>1, <1>4, Zenon
  <1> HIDE DEF c
  <1>7. Parse(win).consumed # 0 => After(win)[0] # 0 /\ Parse(win).consumed >= After(win)[0]
    BY <1>1, <1>5
  <1> QED BY <1>1, <1>2, <1>6, <1>7 DEF c

\* A word the loop goes past is where a turn begins or is jumped over by one.
LEMMA Crossing ==
    ASSUME NEW win \in Seq(TaggedWord), NEW x \in Nat, x < Parse(win).consumed
    PROVE  \E k \in 0 .. Len(win) - 1 : Index(win)[k] <= x /\ x < After(win)[Index(win)[k]]
  <1> DEFINE at == Index(win)
             T == {k \in Nat : k <= Len(win) /\ x < at[k]}
  <1>1. /\ at \in [0 .. Len(win) -> 0 .. Len(win)] /\ at[0] = 0 /\ Len(win) \in Nat
        /\ \A k \in 1 .. Len(win) : at[k] = After(win)[at[k - 1]]
    BY IndexDef
  <1>2. x < at[Len(win)]
    BY Consumes
  <1> HIDE DEF at
  <1>3. T \in SUBSET Nat /\ T # {}
    BY <1>1, <1>2
  <1> HIDE DEF T
  <1>4. PICK k \in T : \A y \in T : k <= y
    BY <1>3, Least
  <1>5. k \in Nat /\ k <= Len(win) /\ x < at[k]
    BY <1>4 DEF T
  <1>6. k # 0
    BY <1>1, <1>5
  <1>7. k - 1 \in 0 .. Len(win) - 1 /\ k \in 1 .. Len(win) /\ k - 1 \in Nat
    BY <1>1, <1>5, <1>6
  <1>8. ~(x < at[k - 1])
    <2> SUFFICES ASSUME x < at[k - 1] PROVE FALSE
      OBVIOUS
    <2>1. k - 1 \in T
      BY <1>1, <1>7 DEF T
    <2> QED BY <1>4, <1>7, <2>1
  <1>9. at[k - 1] \in 0 .. Len(win)
    BY <1>1, <1>7
  <1>10. at[k - 1] <= x /\ x < After(win)[at[k - 1]]
    BY <1>1, <1>5, <1>7, <1>8, <1>9
  <1> QED BY <1>7, <1>10 DEF at

-----------------------------------------------------------------------------
(* The words that wait in the buffer.                                      *)

\* A word is a zero between frames or has the place of its frame.
WordForm(w) ==
    /\ w.v \in Nat /\ w.off \in Nat /\ w.len \in Nat
    /\ w.off <= w.len /\ w.len <= MAX_LENGTH
    /\ w.off = 0 => w.v = 0 /\ w.len = 0
    /\ w.off >= 1 => w.len >= HEADER
    /\ w.off = 1 => w.v = STREAM
    /\ w.off = 2 => w.v = w.len

\* No packet was lost between two words in a row that are both sure.
Continues(b) ==
    \A k \in 2 .. Len(b) : b[k].sure /\ b[k - 1].sure => Follows(b[k], b[k - 1])

\* The first word that is sure, and the first after one that is not, are not
\* inside a frame, and the run of zeros that made it sure is before it.
Regains(b) ==
    \A k \in 1 .. Len(b) : b[k].sure /\ (k = 1 \/ ~b[k - 1].sure) =>
        /\ b[k].off \in {0, 1}
        /\ \A n \in 1 .. Recovers : n < k => b[k - n].off = 0

BufInv(b) ==
    /\ b \in Seq(TaggedWord)
    /\ \A k \in 1 .. Len(b) : WordForm(b[k])
    /\ Continues(b)
    /\ Regains(b)

\* What follows the first i words does not begin inside a frame, as far as it
\* is sure.
Between(b, i) == i < Len(b) /\ b[i + 1].sure => b[i + 1].off \in {0, 1}

\* What one callback looks at.
Sees(win, b) ==
    /\ win \in Seq(TaggedWord)
    /\ Len(win) <= LINEAR_SIZE /\ Len(win) <= Len(b)
    /\ \A j \in 1 .. Len(win) : win[j] = b[j]

\* A header that the loop accepts is not before the zeros that make a word of
\* its frame sure: it is not a zero, nor is its length, and the frame is
\* shorter than the window.
LEMMA NoRegain ==
    ASSUME NEW b, BufInv(b), NEW win, Sees(win, b), NEW x \in 0 .. Len(win),
           Accepts(win, x), NEW u \in x + 1 .. After(win)[x] - 1, ~b[u].sure
    PROVE  ~b[u + 1].sure
  <1>1. win \in Seq(TaggedWord) /\ Len(win) \in Nat /\ Len(b) \in Nat /\ Len(win) <= Len(b)
        /\ Len(win) <= LINEAR_SIZE
    BY DEF Sees, BufInv
  <1> DEFINE w == win[x + 2].v
  <1>2. /\ w \in HEADER .. Len(win) - (x + 1)
        /\ win[x + 1].v = STREAM
        /\ After(win)[x] = x + w
    <2>1. After(win)[x] # x
      BY <1>1, Turn
    <2>2. ~IsError(win, x) /\ win[x + 1].v # 0
      BY DEF Accepts
    <2> QED BY <1>1, <2>1, <2>2, Turn
  <1> HIDE DEF w
  <1>3. /\ w \in Nat /\ w >= 2 /\ x + 1 + w <= Len(win) /\ x \in Nat
        /\ u \in Nat /\ x + 1 <= u /\ u <= x + w - 1
    BY <1>1, <1>2, Numbers
  <1>4. x + 1 \in 1 .. Len(win) /\ x + 2 \in 1 .. Len(win) /\ u + 1 \in 1 .. Len(b)
    BY <1>1, <1>3
  <1>5. b[x + 1].v = STREAM /\ b[x + 2].v = w
    BY <1>2, <1>4 DEF Sees, w
  <1>6. b[x + 1].off # 0 /\ b[x + 2].off # 0
    <2>1. x + 1 \in 1 .. Len(b) /\ x + 2 \in 1 .. Len(b)
      BY <1>1, <1>4
    <2>2. WordForm(b[x + 1]) /\ WordForm(b[x + 2])
      BY <2>1 DEF BufInv
    <2> QED BY <1>3, <1>5, <2>2 DEF WordForm, STREAM
  <1> SUFFICES ASSUME b[u + 1].sure PROVE FALSE
    OBVIOUS
  <1>7. \A n \in 1 .. Recovers : n < u + 1 => b[u + 1 - n].off = 0
    <2>1. (u + 1) - 1 = u
      BY <1>3
    <2>2. ~b[(u + 1) - 1].sure
      BY <2>1
    <2> QED BY <1>4, <2>2 DEF BufInv, Regains
  <1>8. u # x + 1
    <2> SUFFICES ASSUME u = x + 1 PROVE FALSE
      OBVIOUS
    <2>1. 1 \in 1 .. Recovers /\ 1 < u + 1 /\ u + 1 - 1 = x + 1
      BY <1>3, Numbers
    <2> QED BY <1>6, <1>7, <2>1
  <1> DEFINE n == u + 1 - (x + 2)
  <1>9. n \in 1 .. Recovers
    <2>1. n >= 1 /\ n \in Int
      BY <1>3, <1>8
    <2>2. u <= LINEAR_SIZE - 2
      BY <1>1, <1>3, Numbers
    <2>3. n <= Recovers
      BY <1>3, <2>2, Numbers
    <2> QED BY <2>1, <2>3, Numbers
  <1>10. n < u + 1 /\ u + 1 - n = x + 2
    BY <1>3
  <1> HIDE DEF n
  <1> QED BY <1>6, <1>7, <1>9, <1>10

\* As far as the words of an accepted header's frame are sure, they are the
\* words of one frame from its first on, and its length is the one claimed.
LEMMA OneFrame ==
    ASSUME NEW b, BufInv(b), NEW win, Sees(win, b), NEW x \in 0 .. Len(win),
           Accepts(win, x), Between(b, x), NEW j \in 1 .. win[x + 2].v, b[x + j].sure
    PROVE  b[x + j].off = j /\ (j >= 2 => b[x + j].len = win[x + 2].v)
  <1>1. win \in Seq(TaggedWord) /\ Len(win) \in Nat /\ Len(b) \in Nat /\ Len(win) <= Len(b)
        /\ Len(win) <= LINEAR_SIZE
    BY DEF Sees, BufInv
  <1> DEFINE w == win[x + 2].v
  <1>2. /\ w \in HEADER .. Len(win) - (x + 1)
        /\ win[x + 1].v = STREAM
        /\ After(win)[x] = x + w
    <2>1. After(win)[x] # x
      BY <1>1, Turn
    <2>2. ~IsError(win, x) /\ win[x + 1].v # 0
      BY DEF Accepts
    <2> QED BY <1>1, <2>1, <2>2, Turn
  <1> DEFINE T == {i \in Nat : i \in 1 .. w /\ b[x + i].sure =>
                      b[x + i].off = i /\ (i >= 2 => b[x + i].len = w)}
  <1>j. j \in 1 .. w
    OBVIOUS
  <1>b. b[x + 2].v = w
    <2>1. \A v \in HEADER .. Len(win) - (x + 1) : x + 2 \in 1 .. Len(win)
      BY <1>1, Numbers
    <2>2. x + 2 \in 1 .. Len(win)
      BY <1>2, <2>1
    <2>3. win[x + 2] = b[x + 2]
      BY <2>2 DEF Sees
    <2> QED BY <2>3
  <1> HIDE DEF w
  <1>3. /\ w \in Nat /\ w >= 2 /\ x + 1 + w <= Len(win) /\ x \in Nat
    BY <1>1, <1>2, Numbers
  <1>4. \A i \in 1 .. w : x + i \in 1 .. Len(b) /\ x + i \in 1 .. Len(win)
    BY <1>1, <1>3
  <1>5. \A i \in 1 .. w : WordForm(b[x + i])
    BY <1>4 DEF BufInv
  <1>6. 0 \in T
    OBVIOUS
  <1>7. ASSUME NEW i \in Nat, i \in T PROVE i + 1 \in T
    <2> SUFFICES ASSUME i + 1 \in 1 .. w, b[x + (i + 1)].sure
                 PROVE  b[x + (i + 1)].off = i + 1 /\ (i + 1 >= 2 => b[x + (i + 1)].len = w)
      OBVIOUS
    <2>1. CASE i = 0
      <3>1. b[x + 1].sure /\ x + 1 \in 1 .. Len(b) /\ 1 \in 1 .. w /\ x + 1 \in 1 .. Len(win)
        BY <2>1, <1>3, <1>4
      <3>2. b[x + 1].off \in {0, 1}
        BY <3>1, <1>1, <1>3 DEF Between
      <3>3. b[x + 1].v = STREAM
        BY <1>2, <3>1 DEF Sees
      <3>4. WordForm(b[x + 1])
        BY <1>5, <3>1
      <3>5. b[x + 1].off = 1
        BY <3>2, <3>3, <3>4 DEF WordForm, STREAM
      <3> QED BY <2>1, <3>5
    <2>2. CASE i >= 1
      <3> DEFINE u == x + i
      <3>1. /\ i \in 1 .. w /\ u \in x + 1 .. After(win)[x] - 1 /\ x + (i + 1) = u + 1
            /\ u + 1 \in 2 .. Len(b) /\ (u + 1) - 1 = u
        BY <1>1, <1>2, <1>3, <2>2
      <3> HIDE DEF u
      <3>2. b[u + 1].sure
        BY <3>1
      <3>3. b[u].sure
        BY <3>1, <3>2, NoRegain
      <3>4. b[u].off = i /\ (i >= 2 => b[u].len = w)
        BY <1>7, <3>1, <3>3 DEF u
      <3>5. Follows(b[u + 1], b[u])
        BY <3>1, <3>2, <3>3 DEF BufInv, Continues
      <3>6. WordForm(b[u]) /\ WordForm(b[u + 1])
        <4>1. WordForm(b[x + i]) /\ WordForm(b[x + (i + 1)])
          BY <1>5, <3>1
        <4> QED BY <3>1, <4>1 DEF u
      <3>7. CASE i = 1
        <4>1. b[u].off < b[u].len
          BY <3>4, <3>6, <3>7, Numbers DEF WordForm
        <4>2. b[u + 1].off = 2
          BY <3>4, <3>5, <3>7, <4>1 DEF Follows
        <4>3. u + 1 = x + 2
          BY <1>3, <3>7 DEF u
        <4>4. b[u + 1].len = w
          BY <1>b, <3>6, <4>2, <4>3 DEF WordForm
        <4> QED BY <3>1, <3>7, <4>2, <4>4
      <3>8. CASE i >= 2
        <4>1. b[u].off < b[u].len
          BY <3>1, <3>4, <3>8, <1>3
        <4> QED BY <3>1, <3>4, <3>5, <3>8, <4>1 DEF Follows
      <3> QED BY <2>2, <3>7, <3>8
    <2> QED BY <2>1, <2>2
  <1> HIDE DEF T
  <1>8. j \in T
    <2>1. Nat \subseteq T
      BY <1>6, <1>7, SetInduction
    <2>2. j \in Nat
      BY <1>3, <1>j
    <2> QED BY <2>1, <2>2
  <1> QED BY <1>8, <1>j DEF T, w

\* A turn of the loop ends between frames if it begins there.
LEMMA Jump ==
    ASSUME NEW b, BufInv(b), NEW win, Sees(win, b), NEW x \in 0 .. Len(win), Between(b, x)
    PROVE  Between(b, After(win)[x])
  <1>1. win \in Seq(TaggedWord) /\ Len(win) \in Nat /\ Len(b) \in Nat /\ Len(win) <= Len(b)
    BY DEF Sees, BufInv
  <1> DEFINE y == After(win)[x]
  <1>2. CASE y = x
    BY <1>2
  <1>3. CASE y # x /\ y = x + 1
    <2>1. x < Len(win) /\ (win[x + 1].v = 0 \/ ((x + 1) + HEADER <= Len(win) /\ IsError(win, x)))
      <3> DEFINE w == win[x + 2].v
      <3>1. /\ x < Len(win)
            /\ \/ win[x + 1].v = 0
               \/ (x + 1) + HEADER <= Len(win) /\ IsError(win, x)
               \/ w \in HEADER .. Len(win) - (x + 1) /\ x + 1 = x + w
        BY <1>1, <1>3, Turn
      <3> HIDE DEF w
      <3>2. ~(w \in HEADER .. Len(win) - (x + 1) /\ x + 1 = x + w)
        BY <1>1, Numbers
      <3> QED BY <3>1, <3>2
    <2> SUFFICES ASSUME x + 1 < Len(b), b[x + 2].sure PROVE b[x + 2].off \in {0, 1}
      <3>1. (x + 1) + 1 = x + 2
        OBVIOUS
      <3> QED BY <1>3, <3>1 DEF Between
    <2>2. x + 1 \in 1 .. Len(b) /\ x + 2 \in 2 .. Len(b) /\ (x + 2) - 1 = x + 1 /\ x + 1 \in 1 .. Len(win)
      BY <1>1, <2>1
    <2>3. WordForm(b[x + 1]) /\ WordForm(b[x + 2]) /\ win[x + 1] = b[x + 1]
      BY <2>2 DEF BufInv, Sees
    <2>4. CASE ~b[x + 1].sure
      <3>1. x + 2 \in 1 .. Len(b) /\ ~b[(x + 2) - 1].sure
        BY <2>2, <2>4
      <3> QED BY <3>1 DEF BufInv, Regains
    <2>5. CASE b[x + 1].sure
      <3>1. b[x + 1].off \in {0, 1}
        BY <1>1, <2>2, <2>5 DEF Between
      <3>2. Follows(b[x + 2], b[x + 1])
        BY <2>2, <2>5 DEF BufInv, Continues
      <3>3. CASE b[x + 1].v = 0
        <4>1. b[x + 1].off = 0 /\ b[x + 1].len = 0
          BY <2>3, <3>1, <3>3 DEF WordForm, STREAM
        <4> QED BY <3>2, <4>1 DEF Follows
      <3>4. CASE b[x + 1].v # 0
        <4>1. b[x + 1].off = 1 /\ b[x + 1].len >= HEADER /\ b[x + 1].v = STREAM
              /\ b[x + 1].len \in Nat
          BY <2>3, <3>1, <3>4 DEF WordForm
        <4>2. b[x + 2].off = 2 /\ b[x + 2].len = b[x + 1].len
          <5> DEFINE p == b[x + 1]
                     q == b[x + 2]
          <5>1. p.off = 1 /\ p.len >= HEADER /\ p.len \in Nat /\ Follows(q, p)
            BY <3>2, <4>1
          <5> HIDE DEF p, q
          <5>2. p.off < p.len
            BY <5>1, Numbers
          <5>3. q.off = 2 /\ q.len = p.len
            BY <5>1, <5>2 DEF Follows
          <5> QED BY <5>3 DEF p, q
        <4>3. b[x + 2].v >= HEADER
          BY <2>3, <4>1, <4>2 DEF WordForm
        <4>4. CASE (x + 1) + HEADER <= Len(win) /\ IsError(win, x)
          <5>1. x + 2 \in 1 .. Len(win)
            BY <1>1, <4>4, Numbers
          <5>2. win[x + 2] = b[x + 2]
            BY <5>1 DEF Sees
          <5> QED BY <2>3, <4>1, <4>3, <4>4, <5>2 DEF IsError
        <4> QED BY <2>1, <2>3, <3>4, <4>4
      <3> QED BY <3>3, <3>4
    <2> QED BY <2>4, <2>5
  <1>4. CASE y # x /\ y # x + 1
    <2> DEFINE w == win[x + 2].v
    <2>1. /\ Accepts(win, x) /\ w \in HEADER .. Len(win) - (x + 1)
          /\ win[x + 1].v = STREAM /\ y = x + w /\ w \in 1 .. w
      <3>1. HEADER .. Len(win) - (x + 1) \subseteq Nat \ {0}
        BY Numbers
      <3> QED BY <1>1, <1>4, <3>1, Turn
    <2> SUFFICES ASSUME y < Len(b), b[y + 1].sure PROVE b[y + 1].off \in {0, 1}
      BY DEF Between
    <2>2. b[x + w].sure => b[x + w].off = w /\ b[x + w].len = w
      <3>1. \A v \in HEADER .. Len(win) - (x + 1) : v >= 2
        BY <1>1, Numbers
      <3>2. w >= 2
        BY <2>1, <3>1
      <3> QED BY <2>1, <3>2, OneFrame
    <2> HIDE DEF w
    <2>3. y \in 1 .. Len(b) /\ y + 1 \in 2 .. Len(b) /\ (y + 1) - 1 = y
      BY <1>1, <2>1, Numbers
    <2> HIDE DEF y
    <2>4. CASE ~b[y].sure
      <3>1. y + 1 \in 1 .. Len(b) /\ ~b[(y + 1) - 1].sure
        BY <2>3, <2>4
      <3> QED BY <3>1 DEF BufInv, Regains
    <2>5. CASE b[y].sure
      <3>1. Follows(b[y + 1], b[y])
        BY <2>3, <2>5 DEF BufInv, Continues
      <3>2. b[y].off = w /\ b[y].len = w /\ w \in Nat
        BY <2>1, <2>2, <2>5
      <3> QED BY <3>1, <3>2 DEF Follows
    <2> QED BY <2>4, <2>5
  <1> QED BY <1>2, <1>3, <1>4

\* The loop is between frames at each of its turns.
LEMMA Path ==
    ASSUME NEW b, BufInv(b), NEW win, Sees(win, b)
    PROVE  \A k \in 0 .. Len(win) : Between(b, Index(win)[k])
  <1> DEFINE at == Index(win)
             T == {k \in Nat : k \in 0 .. Len(win) => Between(b, at[k])}
  <1>1. /\ at \in [0 .. Len(win) -> 0 .. Len(win)] /\ at[0] = 0 /\ Len(win) \in Nat
        /\ \A k \in 1 .. Len(win) : at[k] = After(win)[at[k - 1]]
    BY IndexDef DEF Sees
  <1> HIDE DEF at
  <1>2. 0 \in T
    <2>1. Len(b) \in Nat
      BY DEF BufInv
    <2>2. Between(b, 0)
      <3> SUFFICES ASSUME 0 < Len(b), b[0 + 1].sure PROVE b[0 + 1].off \in {0, 1}
        BY DEF Between
      <3>1. 1 \in 1 .. Len(b) /\ 0 + 1 = 1
        BY <2>1
      <3> QED BY <3>1 DEF BufInv, Regains
    <2> QED BY <1>1, <2>2
  <1>3. ASSUME NEW k \in Nat, k \in T PROVE k + 1 \in T
    <2> SUFFICES ASSUME k + 1 \in 0 .. Len(win) PROVE Between(b, at[k + 1])
      OBVIOUS
    <2>1. k \in 0 .. Len(win) /\ at[k] \in 0 .. Len(win) /\ at[k + 1] = After(win)[at[k]]
      BY <1>1
    <2>2. Between(b, at[k])
      BY <1>3, <2>1
    <2>3. Between(b, After(win)[at[k]])
      BY <2>1, <2>2, Jump
    <2> QED BY <2>1, <2>3
  <1> HIDE DEF T
  <1>4. Nat \subseteq T
    BY <1>2, <1>3, SetInduction
  <1> QED BY <1>1, <1>4 DEF T, at

-----------------------------------------------------------------------------
(* The words that arrive.                                                  *)

LEMMA WordsForm ==
    ASSUME NEW w \in Words
    PROVE  WordForm(w)
  <1>1. CASE w = Fill
    BY <1>1, Numbers DEF Fill, WordForm
  <1>2. CASE w # Fill
    <2>1. PICK l \in FrameLength : w \in {FrameWord(l, o, b) : o \in 1 .. l, b \in BodyWord}
      BY <1>2 DEF Words
    <2>2. PICK o \in 1 .. l, b \in BodyWord : w = FrameWord(l, o, b)
      BY <2>1
    <2>3. l \in HEADER .. MAX_LENGTH /\ b \in Nat
      BY FeedbackAssumption
    <2>4. w.off = o /\ w.len = l /\ w.v = IF o = 1 THEN STREAM ELSE IF o = 2 THEN l ELSE b
      BY <2>2 DEF FrameWord
    <2> QED BY <2>3, <2>4, Numbers DEF WordForm, STREAM
  <1> QED BY <1>1, <1>2

LEMMA TagForm ==
    ASSUME NEW w \in Words, NEW z
    PROVE  /\ Tag(w, z) \in TaggedWord /\ WordForm(Tag(w, z))
           /\ Tag(w, z).v = w.v /\ Tag(w, z).off = w.off /\ Tag(w, z).len = w.len
           /\ Tag(w, z).sure <=> z = Recovers
  <1>1. WordForm(w)
    BY WordsForm
  <1>2. w.v \in Nat /\ w.off \in 0 .. MAX_LENGTH /\ w.len \in 0 .. MAX_LENGTH
    BY <1>1, Numbers DEF WordForm
  <1>3. (z = Recovers) \in BOOLEAN
    OBVIOUS
  <1>4. Tag(w, z) \in TaggedWord
    BY <1>2, <1>3 DEF Tag, TaggedWord
  <1>5. /\ Tag(w, z).v = w.v /\ Tag(w, z).off = w.off /\ Tag(w, z).len = w.len
        /\ Tag(w, z).sure <=> z = Recovers
    BY DEF Tag
  <1>6. WordForm(Tag(w, z))
    BY <1>1, <1>5 DEF WordForm
  <1> QED BY <1>4, <1>5, <1>6

\* The last m words, as far as they still wait, are zeros between frames.
EndsInZeros(b, m) == \A n \in 1 .. m : n <= Len(b) => b[Len(b) + 1 - n].off = 0

\* How the count of zeros and the last word on the wire go with the buffer: a
\* count that is not complete is of the last words; once it is, the last word
\* waits and is sure, or was the last zero of the run, or has been drained.
Link(b, w, z) ==
    /\ 0 < z /\ z < Recovers => w.off = 0 /\ EndsInZeros(b, z)
    /\ z = Recovers =>
          \/ Len(b) = 0 /\ w.off >= w.len
          \/ Len(b) >= 1 /\ b[Len(b)].sure /\ w.off = b[Len(b)].off /\ w.len = b[Len(b)].len
          \/ Len(b) >= 1 /\ ~b[Len(b)].sure /\ w.off = 0 /\ EndsInZeros(b, Recovers)

\* One word more.
LEMMA OneWord ==
    ASSUME NEW b, NEW w \in Words, NEW z \in 0 .. Recovers, BufInv(b), Link(b, w, z),
           NEW x \in Words, Follows(x, w),
           NEW c \in Seq(TaggedWord), Len(c) = Len(b) + 1,
           \A j \in 1 .. Len(b) : c[j] = b[j], c[Len(b) + 1] = Tag(x, z)
    PROVE  BufInv(c) /\ Link(c, x, RunOn(z, x))
  <1> DEFINE m == Len(b)
             t == c[m + 1]
  <1>1. m \in Nat /\ Len(c) = m + 1 /\ z \in Nat /\ z <= Recovers
    BY Numbers DEF BufInv
  <1>2. /\ WordForm(t) /\ t.off = x.off /\ t.len = x.len /\ t.v = x.v
        /\ t.sure <=> z = Recovers
    BY TagForm
  <1>3. \A j \in 1 .. m : c[j] = b[j]
    OBVIOUS
  <1>4. WordForm(w) /\ WordForm(x)
    BY WordsForm
  <1> HIDE DEF m
  <1>5. \A k \in 1 .. Len(c) : WordForm(c[k])
    <2> TAKE k \in 1 .. Len(c)
    <2>1. CASE k = m + 1
      BY <1>2, <2>1
    <2>2. CASE k \in 1 .. m
      BY <1>3, <2>2 DEF BufInv, m
    <2> QED BY <1>1, <2>1, <2>2
  <1> HIDE DEF t
  <1>6. ASSUME m >= 1, t.sure PROVE b[m].sure => Follows(t, b[m])
    <2> SUFFICES ASSUME b[m].sure PROVE Follows(t, b[m])
      OBVIOUS
    <2>1. w.off = b[m].off /\ w.len = b[m].len
      BY <1>1, <1>2, <1>6 DEF Link, m
    <2> QED BY <1>2, <2>1 DEF Follows
  <1>7. ASSUME t.sure, m = 0 \/ ~b[m].sure
        PROVE  t.off \in {0, 1} /\ \A n \in 1 .. Recovers : n < m + 1 => b[m + 1 - n].off = 0
    <2>1. \/ m = 0 /\ w.off >= w.len
          \/ w.off = 0 /\ EndsInZeros(b, Recovers)
      BY <1>1, <1>2, <1>7 DEF Link, m
    <2>2. ~(w.off < w.len)
      BY <1>4, <2>1 DEF WordForm
    <2>3. x.off \in {0, 1}
      BY <2>2 DEF Follows
    <2>4. ASSUME NEW n \in 1 .. Recovers, n < m + 1 PROVE b[m + 1 - n].off = 0
      BY <1>1, <2>1, <2>4, Numbers DEF EndsInZeros, m
    <2> QED BY <1>2, <2>3, <2>4
  <1>8. Continues(c)
    <2> SUFFICES ASSUME NEW k \in 2 .. Len(c), c[k].sure, c[k - 1].sure
                 PROVE  Follows(c[k], c[k - 1])
      BY DEF Continues
    <2>1. CASE k = m + 1
      <3>1. m >= 1 /\ k - 1 = m /\ c[m] = b[m]
        <4>1. m >= 1 /\ k - 1 = m /\ m \in 1 .. m
          BY <1>1, <2>1
        <4> QED BY <1>3, <4>1
      <3>2. c[k] = t /\ c[k - 1] = b[m]
        BY <2>1, <3>1 DEF t
      <3>3. Follows(t, b[m])
        BY <1>6, <3>1, <3>2
      <3> QED BY <3>2, <3>3
    <2>2. CASE k \in 2 .. m
      <3>1. c[k] = b[k] /\ c[k - 1] = b[k - 1]
        BY <1>1, <1>3, <2>2
      <3> QED BY <2>2, <3>1 DEF BufInv, Continues, m
    <2> QED BY <1>1, <2>1, <2>2
  <1>9. Regains(c)
    <2> SUFFICES ASSUME NEW k \in 1 .. Len(c), c[k].sure, k = 1 \/ ~c[k - 1].sure
                 PROVE  /\ c[k].off \in {0, 1}
                        /\ \A n \in 1 .. Recovers : n < k => c[k - n].off = 0
      BY DEF Regains
    <2>0. \A n \in 1 .. Recovers : n < k => k - n \in 1 .. m /\ c[k - n] = b[k - n]
      <3> SUFFICES ASSUME NEW n \in 1 .. Recovers, n < k PROVE k - n \in 1 .. m
        BY <1>3
      <3> QED BY <1>1, Numbers
    <2>1. CASE k = m + 1
      <3>1. m = 0 \/ ~b[m].sure
        <4>1. CASE m = 0
          BY <4>1
        <4>2. CASE m # 0
          <5>1. m \in 1 .. m /\ k - 1 = m /\ k # 1
            BY <1>1, <2>1, <4>2
          <5> QED BY <1>3, <5>1
        <4> QED BY <4>1, <4>2
      <3>2. c[k] = t
        BY <2>1 DEF t
      <3>3. t.off \in {0, 1} /\ \A n \in 1 .. Recovers : n < m + 1 => b[m + 1 - n].off = 0
        BY <1>7, <3>1, <3>2
      <3>4. ASSUME NEW n \in 1 .. Recovers, n < k PROVE b[k - n].off = 0
        <4>1. k - n = m + 1 - n /\ n < m + 1
          BY <1>1, <2>1, <3>4, Numbers
        <4> QED BY <3>3, <4>1
      <3> QED BY <2>0, <3>2, <3>3, <3>4
    <2>2. CASE k \in 1 .. m
      <3>1. c[k] = b[k]
        BY <1>3, <2>2
      <3>2. k = 1 \/ ~b[k - 1].sure
        <4>1. k # 1 => k - 1 \in 1 .. m
          BY <1>1, <2>2
        <4> QED BY <1>3, <4>1
      <3>3. b[k].off \in {0, 1} /\ \A n \in 1 .. Recovers : n < k => b[k - n].off = 0
        BY <2>2, <3>1, <3>2 DEF BufInv, Regains, m
      <3> QED BY <2>0, <3>1, <3>3
    <2> QED BY <1>1, <2>1, <2>2
  <1>10. BufInv(c)
    BY <1>5, <1>8, <1>9 DEF BufInv
  <1>11. ASSUME NEW n \in Nat, z = n \/ z = 0, x.off = 0, z < Recovers, n <= Recovers, n = z
         PROVE  EndsInZeros(c, n + 1)
    <2> SUFFICES ASSUME NEW i \in 1 .. (n + 1), i <= m + 1 PROVE c[(m + 1) + 1 - i].off = 0
      BY <1>1 DEF EndsInZeros
    <2>1. CASE i = 1
      <3>1. (m + 1) + 1 - i = m + 1
        BY <1>1, <2>1
      <3> QED BY <1>2, <1>11, <3>1 DEF t
    <2>2. CASE i # 1
      <3>1. i - 1 \in 1 .. z /\ i - 1 <= m /\ (m + 1) + 1 - i = m + 1 - (i - 1)
            /\ m + 1 - (i - 1) \in 1 .. m /\ 0 < z
        BY <1>1, <1>11, <2>2
      <3>2. EndsInZeros(b, z)
        BY <1>11, <3>1 DEF Link
      <3>3. b[m + 1 - (i - 1)].off = 0
        BY <3>1, <3>2 DEF EndsInZeros, m
      <3> QED BY <1>3, <3>1, <3>3
    <2> QED BY <2>1, <2>2
  <1>12. CASE z = Recovers
    <2>1. RunOn(z, x) = Recovers
      BY <1>12 DEF RunOn
    <2>2. Len(c) >= 1 /\ c[Len(c)].sure /\ x.off = c[Len(c)].off /\ x.len = c[Len(c)].len
      BY <1>1, <1>2, <1>12 DEF t
    <2>3. ~(Recovers < Recovers)
      BY Numbers
    <2>4. Link(c, x, Recovers)
      BY <2>2, <2>3 DEF Link
    <2> QED BY <1>10, <2>1, <2>4
  <1>13. CASE z # Recovers /\ x.off = 0
    <2>1. RunOn(z, x) = z + 1 /\ z < Recovers
      BY <1>1, <1>13, Numbers DEF RunOn
    <2>2. EndsInZeros(c, z + 1)
      BY <1>1, <1>11, <1>13, <2>1
    <2>3. ~c[Len(c)].sure /\ Len(c) >= 1
      BY <1>1, <1>2, <1>13 DEF t
    <2>4. CASE z + 1 = Recovers
      BY <1>10, <1>13, <2>1, <2>2, <2>3, <2>4, Numbers DEF Link
    <2>5. CASE z + 1 # Recovers
      BY <1>10, <1>13, <2>1, <2>2, <2>5, Numbers DEF Link
    <2> QED BY <2>4, <2>5
  <1>14. CASE z # Recovers /\ x.off # 0
    <2>1. RunOn(z, x) = 0 /\ 0 # Recovers
      BY <1>14, Numbers DEF RunOn
    <2> QED BY <1>10, <2>1 DEF Link
  <1> QED BY <1>12, <1>13, <1>14

\* The count of zeros by the words of a payload that have arrived.
LEMMA RunDef ==
    ASSUME NEW p \in [1 .. PACKET -> Words], zeros \in 0 .. Recovers
    PROVE  /\ Run(p) \in [0 .. PACKET -> 0 .. Recovers]
           /\ Run(p)[0] = zeros
           /\ \A k \in 1 .. PACKET : Run(p)[k] = RunOn(Run(p)[k - 1], p[k])
  <1> DEFINE S == 0 .. Recovers
             n == PACKET
             step == [k \in 1 .. n |-> [z \in S |-> RunOn(z, p[k])]]
             P(q) == q = [k \in 0 .. n |-> IF k = 0 THEN zeros ELSE RunOn(q[k - 1], p[k])]
  <1>1. Run(p) = CHOOSE q : P(q)
    BY DEF Run
  <1>2. n \in Nat /\ zeros \in S
    BY Numbers
  <1>3. \A z \in S, k \in 1 .. n : RunOn(z, p[k]) \in S
    BY Numbers DEF RunOn
  <1> HIDE DEF n, S
  <1>4. step \in [1 .. n -> [S -> S]]
    BY <1>3
  <1>5. \A k \in 1 .. n, z \in S : step[k][z] = RunOn(z, p[k])
    OBVIOUS
  <1> HIDE DEF step
  <1>6. PICK r \in [0 .. n -> S] : r[0] = zeros /\ \A k \in 1 .. n : r[k] = step[k][r[k - 1]]
    <2>1. Iterates(S, zeros, n, step)
      BY <1>2, <1>4, Iteration
    <2> QED BY <2>1 DEF Iterates
  <1>7. \A k \in 0 .. n : r[k] = IF k = 0 THEN zeros ELSE RunOn(r[k - 1], p[k])
    <2> TAKE k \in 0 .. n
    <2>1. CASE k = 0
      BY <1>6, <2>1
    <2>2. CASE k # 0
      <3>1. k \in 1 .. n /\ k - 1 \in 0 .. n
        BY <1>2, <2>2
      <3>2. r[k - 1] \in S
        BY <3>1
      <3>3. r[k] = RunOn(r[k - 1], p[k])
        BY <1>5, <1>6, <3>1, <3>2
      <3> QED BY <2>2, <3>3
    <2> QED BY <2>1, <2>2
  <1>8. P(r)
    <2>1. r = [k \in 0 .. n |-> r[k]]
      OBVIOUS
    <2> QED BY <1>7, <2>1
  <1>9. ASSUME NEW q, P(q) PROVE q = r
    <2> DEFINE T == {k \in Nat : k \in 0 .. n => q[k] = r[k]}
    <2>1. \A k \in 0 .. n : q[k] = IF k = 0 THEN zeros ELSE RunOn(q[k - 1], p[k])
      BY <1>9
    <2>2. 0 \in T
      BY <1>6, <2>1, <1>2
    <2>3. ASSUME NEW k \in Nat, k \in T PROVE k + 1 \in T
      <3> SUFFICES ASSUME k + 1 \in 0 .. n PROVE q[k + 1] = r[k + 1]
        OBVIOUS
      <3>1. k \in 0 .. n /\ q[k] = r[k]
        BY <1>2, <2>3
      <3>2. q[k + 1] = RunOn(q[k], p[k + 1])
        <4>1. k + 1 # 0 /\ (k + 1) - 1 = k
          OBVIOUS
        <4> QED BY <2>1, <4>1
      <3>3. r[k + 1] = RunOn(r[k], p[k + 1])
        <4>1. k + 1 # 0 /\ (k + 1) - 1 = k
          OBVIOUS
        <4> QED BY <1>7, <4>1
      <3> QED BY <3>1, <3>2, <3>3
    <2> HIDE DEF T
    <2>4. Nat \subseteq T
      BY <2>2, <2>3, SetInduction
    <2>5. \A k \in 0 .. n : q[k] = r[k]
      BY <1>2, <2>4 DEF T
    <2>6. q = [k \in 0 .. n |-> q[k]]
      BY <1>9
    <2>7. r = [k \in 0 .. n |-> r[k]]
      OBVIOUS
    <2> QED BY <2>5, <2>6, <2>7
  <1> HIDE DEF P
  <1>10. P(CHOOSE q : P(q))
    BY <1>8
  <1>11. Run(p) = r
    BY <1>1, <1>9, <1>10
  <1>12. ASSUME NEW k \in 1 .. n PROVE r[k] = RunOn(r[k - 1], p[k])
    <2>1. k \in 0 .. n /\ k # 0
      BY <1>2
    <2> QED BY <1>7, <2>1
  <1> QED BY <1>6, <1>11, <1>12 DEF n, S

\* A whole payload.
LEMMA Payload ==
    ASSUME NEW w \in Words, zeros \in 0 .. Recovers, NEW p \in Payloads[w],
           NEW b, BufInv(b), Link(b, w, zeros)
    PROVE  /\ BufInv(b \o Tagged(p))
           /\ Link(b \o Tagged(p), p[PACKET], Run(p)[PACKET])
           /\ Len(b \o Tagged(p)) = Len(b) + PACKET
           /\ \A j \in 1 .. Len(b) : (b \o Tagged(p))[j] = b[j]
  <1> DEFINE m == Len(b)
             run == Run(p)
             Part(k) == [j \in 1 .. (m + k) |-> IF j <= m THEN b[j] ELSE Tagged(p)[j - m]]
             T == {k \in Nat : k \in 0 .. PACKET =>
                      BufInv(Part(k)) /\ Link(Part(k), IF k = 0 THEN w ELSE p[k], run[k])}
  <1>1. /\ p \in [1 .. PACKET -> Words]
        /\ \A k \in 1 .. PACKET : Follows(p[k], IF k = 1 THEN w ELSE p[k - 1])
    BY DEF Payloads
  <1>2. /\ run \in [0 .. PACKET -> 0 .. Recovers] /\ run[0] = zeros
        /\ \A k \in 1 .. PACKET : run[k] = RunOn(run[k - 1], p[k])
    BY <1>1, RunDef
  <1>3. Tagged(p) = [k \in 1 .. PACKET |-> Tag(p[k], run[k - 1])]
    BY DEF Tagged
  <1> HIDE DEF run
  <1>4. Tagged(p) \in Seq(TaggedWord) /\ Len(Tagged(p)) = PACKET
        /\ \A k \in 1 .. PACKET : Tagged(p)[k] = Tag(p[k], run[k - 1]) /\ Tagged(p)[k] \in TaggedWord
    <2>1. \A k \in 1 .. PACKET : Tagged(p)[k] = Tag(p[k], run[k - 1])
      BY <1>3
    <2>2. \A k \in 1 .. PACKET : Tag(p[k], run[k - 1]) \in TaggedWord
      BY <1>1, TagForm
    <2>3. PACKET \in Nat
      BY Numbers
    <2>4. Tagged(p) \in [1 .. PACKET -> TaggedWord]
      BY <1>3, <2>2
    <2> QED BY <2>1, <2>2, <2>3, <2>4
  <1>5. b \in Seq(TaggedWord) /\ m \in Nat
    BY DEF BufInv
  <1> HIDE DEF m
  <1>6. \A k \in 0 .. PACKET : Part(k) \in Seq(TaggedWord) /\ Len(Part(k)) = m + k
    <2> TAKE k \in 0 .. PACKET
    <2>1. ASSUME NEW j \in 1 .. (m + k) PROVE Part(k)[j] \in TaggedWord
      <3>1. CASE j <= m
        <4>1. j \in 1 .. Len(b)
          BY <1>5, <2>1, <3>1, Numbers DEF m
        <4>2. b[j] \in TaggedWord
          BY <1>5, <4>1
        <4> QED BY <2>1, <3>1, <4>2
      <3>2. CASE ~(j <= m)
        <4>1. j - m \in 1 .. PACKET
          BY <1>5, <2>1, <3>2, Numbers
        <4>2. Tagged(p)[j - m] \in TaggedWord
          BY <1>4, <4>1
        <4> QED BY <2>1, <3>2, <4>2
      <3> QED BY <3>1, <3>2
    <2>2. Part(k) \in [1 .. (m + k) -> TaggedWord] /\ m + k \in Nat
      BY <1>5, <2>1, Numbers
    <2> HIDE DEF Part
    <2> QED BY <2>2
  <1>7. Part(0) = b
    <2>1. Part(0) = [j \in 1 .. m |-> b[j]]
      BY <1>5
    <2>2. b = [j \in 1 .. m |-> b[j]]
      BY <1>5 DEF m
    <2> QED BY <2>1, <2>2
  <1>8. b \o Tagged(p) = Part(PACKET)
    <2> DEFINE t == Tagged(p)
               c == b \o t
    <2>1. t \in Seq(TaggedWord) /\ Len(t) = PACKET
      BY <1>4
    <2> HIDE DEF t
    <2>2. /\ c \in Seq(TaggedWord) /\ Len(c) = m + PACKET
          /\ \A j \in 1 .. (m + PACKET) : c[j] = IF j <= m THEN b[j] ELSE t[j - m]
      BY <1>5, <2>1, ConcatProperties DEF m
    <2> HIDE DEF c
    <2>3. c = [j \in 1 .. (m + PACKET) |-> c[j]]
      BY <2>2
    <2>4. c = [j \in 1 .. (m + PACKET) |-> IF j <= m THEN b[j] ELSE t[j - m]]
      BY <2>2, <2>3
    <2> QED BY <2>4 DEF c, t
  <1>9. \A k \in 0 .. PACKET, j \in 1 .. m : Part(k)[j] = b[j]
    <2> TAKE k \in 0 .. PACKET, j \in 1 .. m
    <2>1. j \in 1 .. (m + k) /\ j <= m
      BY <1>5, Numbers
    <2> QED BY <2>1
  <1>10. 0 \in T
    <2>1. Part(0) = b /\ run[0] = zeros
      BY <1>2, <1>7
    <2> HIDE DEF Part
    <2> QED BY <2>1
  <1>11. ASSUME NEW k \in Nat, k \in T PROVE k + 1 \in T
    <2> SUFFICES ASSUME k + 1 \in 0 .. PACKET
                 PROVE  BufInv(Part(k + 1)) /\ Link(Part(k + 1), p[k + 1], run[k + 1])
      OBVIOUS
    <2> DEFINE x == IF k = 0 THEN w ELSE p[k]
    <2>1. k \in 0 .. PACKET /\ k + 1 \in 1 .. PACKET /\ (k + 1) - 1 = k
      BY Numbers
    <2>2. BufInv(Part(k)) /\ Link(Part(k), x, run[k])
      BY <1>11, <2>1
    <2>3. /\ Len(Part(k)) = m + k /\ Part(k + 1) \in Seq(TaggedWord)
          /\ Len(Part(k + 1)) = Len(Part(k)) + 1
      <3>1. Len(Part(k)) = m + k /\ Part(k + 1) \in Seq(TaggedWord) /\ Len(Part(k + 1)) = m + (k + 1)
        BY <1>6, <2>1
      <3> HIDE DEF Part
      <3> QED BY <1>5, <3>1
    <2>4. \A j \in 1 .. Len(Part(k)) : Part(k + 1)[j] = Part(k)[j]
      <3> SUFFICES ASSUME NEW j \in 1 .. (m + k) PROVE Part(k + 1)[j] = Part(k)[j]
        BY <2>3
      <3>1. j \in 1 .. (m + (k + 1))
        BY <1>5
      <3> QED BY <3>1
    <2>5. Part(k + 1)[Len(Part(k)) + 1] = Tag(p[k + 1], run[k])
      <3>1. /\ m + (k + 1) \in 1 .. (m + (k + 1)) /\ ~(m + (k + 1) <= m)
            /\ (m + (k + 1)) - m = k + 1
        BY <1>5
      <3>2. Part(k + 1)[m + (k + 1)] = Tagged(p)[k + 1]
        BY <3>1
      <3>3. Tagged(p)[k + 1] = Tag(p[k + 1], run[k])
        BY <1>4, <2>1
      <3>4. Len(Part(k)) + 1 = m + (k + 1)
        BY <1>5, <2>3
      <3> HIDE DEF Part
      <3> QED BY <3>2, <3>3, <3>4
    <2>6. x \in Words /\ p[k + 1] \in Words /\ run[k] \in 0 .. Recovers
      <3>1. k # 0 => k \in 1 .. PACKET
        BY <2>1, Numbers
      <3>2. k # 0 => p[k] \in Words
        BY <1>1, <3>1
      <3>3. p[k + 1] \in Words
        BY <1>1, <2>1
      <3>4. run[k] \in 0 .. Recovers
        BY <1>2, <2>1
      <3> QED BY <3>2, <3>3, <3>4
    <2>7. Follows(p[k + 1], x)
      <3>1. k = 0 <=> k + 1 = 1
        OBVIOUS
      <3> QED BY <1>1, <2>1, <3>1
    <2>8. run[k + 1] = RunOn(run[k], p[k + 1])
      BY <1>2, <2>1
    <2> HIDE DEF Part, x
    <2>9. BufInv(Part(k + 1)) /\ Link(Part(k + 1), p[k + 1], RunOn(run[k], p[k + 1]))
      BY <2>2, <2>3, <2>4, <2>5, <2>6, <2>7, OneWord
    <2> QED BY <2>8, <2>9
  <1> HIDE DEF T, Part
  <1>12. PACKET \in T
    <2>1. Nat \subseteq T
      BY <1>10, <1>11, SetInduction
    <2> QED BY <2>1, Numbers
  <1>13. PACKET \in 0 .. PACKET /\ PACKET # 0
    BY Numbers
  <1>14. BufInv(Part(PACKET)) /\ Link(Part(PACKET), p[PACKET], run[PACKET])
    BY <1>12, <1>13 DEF T
  <1>15. Len(Part(PACKET)) = m + PACKET
    BY <1>6, <1>13
  <1>16. \A j \in 1 .. m : Part(PACKET)[j] = b[j]
    BY <1>9, <1>13
  <1> QED BY <1>8, <1>14, <1>15, <1>16 DEF m, run

-----------------------------------------------------------------------------
(* A callback.                                                             *)

LEMMA WindowSees ==
    ASSUME BufInv(buf)
    PROVE  /\ Sees(Window, buf)
           /\ Len(Window) = IF Len(buf) < LINEAR_SIZE THEN Len(buf) ELSE LINEAR_SIZE
  <1> DEFINE n == IF Len(buf) < LINEAR_SIZE THEN Len(buf) ELSE LINEAR_SIZE
  <1>1. buf \in Seq(TaggedWord) /\ n \in Nat /\ n <= Len(buf) /\ n <= LINEAR_SIZE /\ Len(buf) \in Nat
    BY Numbers DEF BufInv
  <1>2. \A i \in 1 .. n : i \in 1 .. Len(buf) /\ buf[i] \in TaggedWord /\ 1 + i - 1 = i
    <2> TAKE i \in 1 .. n
    <2>1. i \in 1 .. Len(buf)
      BY <1>1
    <2> QED BY <1>1, <2>1
  <1>3. Window = SubSeq(buf, 1, n)
    BY DEF Window
  <1> HIDE DEF n
  <1>4. /\ SubSeq(buf, 1, n) \in Seq(TaggedWord)
        /\ Len(SubSeq(buf, 1, n)) = n
        /\ \A i \in 1 .. n : SubSeq(buf, 1, n)[i] = buf[i]
    <2>1. 1 \in Int /\ n \in Int /\ \A i \in 1 .. n : buf[i] \in TaggedWord
      BY <1>1, <1>2
    <2>2. /\ SubSeq(buf, 1, n) \in Seq(TaggedWord)
          /\ Len(SubSeq(buf, 1, n)) = IF 1 <= n THEN n - 1 + 1 ELSE 0
          /\ \A i \in 1 .. n - 1 + 1 : SubSeq(buf, 1, n)[i] = buf[1 + i - 1]
      BY <2>1, SubSeqProperties
    <2>3. n - 1 + 1 = n /\ (IF 1 <= n THEN n - 1 + 1 ELSE 0) = n
      BY <1>1
    <2>4. ASSUME NEW i \in 1 .. n PROVE SubSeq(buf, 1, n)[i] = buf[i]
      BY <1>2, <2>2, <2>3
    <2> QED BY <2>2, <2>3, <2>4
  <1> QED BY <1>1, <1>3, <1>4 DEF Sees, n

\* The rest of the buffer after a drain that ends between frames.
LEMMA Drain ==
    ASSUME NEW b, BufInv(b), NEW c \in 0 .. Len(b), Between(b, c)
    PROVE  /\ BufInv(SubSeq(b, c + 1, Len(b)))
           /\ Len(SubSeq(b, c + 1, Len(b))) = Len(b) - c
           /\ \A j \in 1 .. Len(b) - c : SubSeq(b, c + 1, Len(b))[j] = b[c + j]
  <1> DEFINE d == SubSeq(b, c + 1, Len(b))
             m == Len(b) - c
  <1>1. b \in Seq(TaggedWord) /\ Len(b) \in Nat /\ m \in Nat /\ c \in Nat
    BY DEF BufInv
  <1>2. d \in Seq(TaggedWord) /\ Len(d) = m /\ \A j \in 1 .. m : d[j] = b[c + j]
    <2> DEFINE n == Len(b)
               e == c + 1
    <2>1. e \in Int /\ n \in Int /\ \A i \in e .. n : b[i] \in TaggedWord
      <3>1. \A i \in e .. n : i \in 1 .. Len(b)
        BY <1>1
      <3> QED BY <1>1, <3>1
    <2>2. n - e + 1 = m /\ (IF e <= n THEN n - e + 1 ELSE 0) = m
      BY <1>1
    <2>3. \A j \in 1 .. m : e + j - 1 = c + j
      BY <1>1
    <2> HIDE DEF n, e, m
    <2>4. /\ SubSeq(b, e, n) \in Seq(TaggedWord)
          /\ Len(SubSeq(b, e, n)) = IF e <= n THEN n - e + 1 ELSE 0
          /\ \A i \in 1 .. n - e + 1 : SubSeq(b, e, n)[i] = b[e + i - 1]
      BY <2>1, SubSeqProperties
    <2>5. Len(SubSeq(b, e, n)) = m /\ \A j \in 1 .. m : SubSeq(b, e, n)[j] = b[c + j]
      BY <2>2, <2>3, <2>4
    <2> QED BY <2>4, <2>5 DEF n, e
  <1>3. \A j \in 1 .. m : c + j \in 1 .. Len(b)
    BY <1>1
  <1> HIDE DEF d
  <1>4. \A k \in 1 .. Len(d) : WordForm(d[k])
    BY <1>2, <1>3 DEF BufInv
  <1>5. Continues(d)
    <2> SUFFICES ASSUME NEW k \in 2 .. Len(d), d[k].sure, d[k - 1].sure
                 PROVE  Follows(d[k], d[k - 1])
      BY DEF Continues
    <2>1. k \in 1 .. m /\ k - 1 \in 1 .. m /\ c + k \in 2 .. Len(b) /\ (c + k) - 1 = c + (k - 1)
      BY <1>1, <1>2
    <2>2. d[k] = b[c + k] /\ d[k - 1] = b[(c + k) - 1]
      BY <1>2, <2>1
    <2>3. Follows(b[c + k], b[(c + k) - 1])
      BY <2>1, <2>2 DEF BufInv, Continues
    <2> QED BY <2>2, <2>3
  <1>6. Regains(d)
    <2> SUFFICES ASSUME NEW k \in 1 .. Len(d), d[k].sure, k = 1 \/ ~d[k - 1].sure
                 PROVE  /\ d[k].off \in {0, 1}
                        /\ \A n \in 1 .. Recovers : n < k => d[k - n].off = 0
      BY DEF Regains
    <2>1. k \in 1 .. m /\ d[k] = b[c + k] /\ c + k \in 1 .. Len(b)
      BY <1>2, <1>3
    <2>2. CASE k = 1
      <3>1. c < Len(b) /\ b[c + 1].sure
        BY <1>1, <2>1, <2>2
      <3>2. d[k].off \in {0, 1}
        BY <2>1, <2>2, <3>1 DEF Between
      <3>3. \A n \in 1 .. Recovers : ~(n < k)
        BY <2>2, Numbers
      <3> QED BY <3>2, <3>3
    <2>3. CASE k # 1
      <3>1. k - 1 \in 1 .. m /\ (c + k) - 1 = c + (k - 1)
        BY <1>1, <2>1, <2>3
      <3>2. ~b[(c + k) - 1].sure
        BY <1>2, <2>3, <3>1
      <3>3. b[c + k].off \in {0, 1} /\ \A n \in 1 .. Recovers : n < c + k => b[c + k - n].off = 0
        BY <2>1, <3>2 DEF BufInv, Regains
      <3>4. ASSUME NEW n \in 1 .. Recovers, n < k PROVE d[k - n].off = 0
        <4>1. k - n \in 1 .. m /\ c + k - n = c + (k - n) /\ n < c + k
          BY <1>1, <2>1, <3>4, Numbers
        <4> QED BY <1>2, <3>3, <4>1
      <3> QED BY <2>1, <3>3, <3>4
    <2> QED BY <2>2, <2>3
  <1>7. BufInv(d)
    BY <1>2, <1>4, <1>5, <1>6 DEF BufInv
  <1> QED BY <1>2, <1>7 DEF d

\* The loop reaches the end of its window only over a zero.
LEMMA LastTurn ==
    ASSUME NEW b, BufInv(b), NEW win, Sees(win, b), Parse(win).consumed = Len(win), Len(win) >= 1
    PROVE  b[Len(win)].v = 0 /\ Between(b, Len(win) - 1)
  <1> DEFINE N == Len(win)
             x == N - 1
  <1>1. win \in Seq(TaggedWord) /\ N \in Nat /\ x \in Nat /\ x < Parse(win).consumed /\ N >= 1
        /\ N <= Len(b)
    BY DEF Sees
  <1>2. PICK k \in 0 .. N - 1 : Index(win)[k] <= x /\ x < After(win)[Index(win)[k]]
    BY <1>1, Crossing
  <1> DEFINE i == Index(win)[k]
  <1>3. k \in 0 .. N /\ i \in 0 .. N
    BY <1>1, IndexDef
  <1>4. Between(b, i)
    BY <1>3, Path
  <1> HIDE DEF i
  <1>5. i <= x /\ x < After(win)[i]
    BY <1>2 DEF i
  <1>6. After(win)[i] \in 0 .. N /\ After(win)[i] # i
    BY <1>1, <1>3, <1>5, Turn
  <1>7. After(win)[i] = N
    BY <1>1, <1>5, <1>6
  <1> DEFINE w == win[i + 2].v
  <1>8. /\ i < N
        /\ \/ After(win)[i] = i + 1 /\ win[i + 1].v = 0
           \/ After(win)[i] = i + 1 /\ (i + 1) + HEADER <= N
           \/ w \in HEADER .. N - (i + 1) /\ After(win)[i] = i + w
    BY <1>1, <1>3, <1>6, Turn
  <1> HIDE DEF w, N, x
  <1>9. ~(After(win)[i] = i + 1 /\ (i + 1) + HEADER <= N)
    BY <1>3, <1>1, <1>7, Numbers
  <1>10. ~(w \in HEADER .. N - (i + 1) /\ After(win)[i] = i + w)
    BY <1>3, <1>1, <1>7, Numbers
  <1>11. i + 1 = N /\ win[i + 1].v = 0 /\ i = N - 1
    BY <1>1, <1>3, <1>7, <1>8, <1>9, <1>10
  <1>12. N \in 1 .. N /\ win[N] = b[N]
    BY <1>1 DEF Sees, N
  <1> QED BY <1>4, <1>11, <1>12 DEF N

\* A callback leaves the count of zeros in line with the buffer.
LEMMA DrainLink ==
    ASSUME NEW w \in Words, NEW z \in 0 .. Recovers, BufInv(buf), Link(buf, w, z)
    PROVE  /\ Parse(Window).consumed \in 0 .. Len(buf)
           /\ Between(buf, Parse(Window).consumed)
           /\ Link(SubSeq(buf, Parse(Window).consumed + 1, Len(buf)), w, z)
  <1> DEFINE win == Window
             c == Parse(win).consumed
             d == SubSeq(buf, c + 1, Len(buf))
             m == Len(buf)
  <1>1. Sees(win, buf) /\ Len(win) = IF m < LINEAR_SIZE THEN m ELSE LINEAR_SIZE
    BY WindowSees
  <1> HIDE DEF win
  <1>2. win \in Seq(TaggedWord) /\ Len(win) \in Nat /\ Len(win) <= m /\ m \in Nat
    BY <1>1 DEF Sees, BufInv
  <1>3. c \in 0 .. Len(win) /\ c = Index(win)[Len(win)]
    BY <1>2, Consumes
  <1>4. c \in 0 .. m
    BY <1>2, <1>3
  <1>5. Between(buf, c)
    <2>1. Len(win) \in 0 .. Len(win)
      BY <1>2
    <2>2. Between(buf, Index(win)[Len(win)])
      BY <1>1, <2>1, Path
    <2> QED BY <1>3, <2>2, Zenon
  <1> HIDE DEF c
  <1>6. Len(d) = m - c /\ \A j \in 1 .. m - c : d[j] = buf[c + j]
    BY <1>4, <1>5, Drain
  <1> HIDE DEF d
  <1>7. \A i \in 0 .. Recovers : EndsInZeros(buf, i) => EndsInZeros(d, i)
    <2> SUFFICES ASSUME NEW i \in 0 .. Recovers, EndsInZeros(buf, i), NEW n \in 1 .. i, n <= m - c
                 PROVE  d[m - c + 1 - n].off = 0
      BY <1>6 DEF EndsInZeros
    <2>1. /\ m - c + 1 - n \in 1 .. m - c /\ c + (m - c + 1 - n) = m + 1 - n
          /\ n <= m
      BY <1>2, <1>4, Numbers
    <2>2. buf[m + 1 - n].off = 0
      BY <2>1 DEF EndsInZeros
    <2> QED BY <1>6, <2>1, <2>2
  <1>8. ASSUME 0 < z, z < Recovers PROVE w.off = 0 /\ EndsInZeros(d, z)
    BY <1>7, <1>8 DEF Link
  <1>9. ASSUME z = Recovers
        PROVE  \/ Len(d) = 0 /\ w.off >= w.len
               \/ Len(d) >= 1 /\ d[Len(d)].sure /\ w.off = d[Len(d)].off /\ w.len = d[Len(d)].len
               \/ Len(d) >= 1 /\ ~d[Len(d)].sure /\ w.off = 0 /\ EndsInZeros(d, Recovers)
    <2>0. WordForm(w) /\ Recovers \in 0 .. Recovers
      BY WordsForm, Numbers
    <2>1. \/ m = 0 /\ w.off >= w.len
          \/ m >= 1 /\ buf[m].sure /\ w.off = buf[m].off /\ w.len = buf[m].len
          \/ m >= 1 /\ ~buf[m].sure /\ w.off = 0 /\ EndsInZeros(buf, Recovers)
      BY <1>9 DEF Link
    <2>2. CASE c = m
      <3>1. Len(d) = 0
        BY <1>2, <1>6, <2>2
      <3>2. w.off >= w.len
        <4>1. CASE m = 0 \/ w.off = 0
          BY <1>2, <2>0, <2>1, <4>1 DEF WordForm
        <4>2. CASE m >= 1 /\ buf[m].sure /\ w.off = buf[m].off /\ w.len = buf[m].len
          <5>1. Len(win) = m /\ Parse(win).consumed = Len(win)
            BY <1>2, <1>3, <2>2 DEF c
          <5>2. buf[m].v = 0 /\ Between(buf, m - 1)
            BY <1>1, <4>2, <5>1, LastTurn
          <5>3. m - 1 < m /\ (m - 1) + 1 = m /\ m \in 1 .. m
            BY <1>2, <4>2
          <5>4. buf[m].off \in {0, 1}
            BY <4>2, <5>2, <5>3 DEF Between
          <5>5. WordForm(buf[m])
            BY <5>3 DEF BufInv
          <5> QED BY <4>2, <5>2, <5>4, <5>5 DEF WordForm, STREAM
        <4> QED BY <2>1, <4>1, <4>2
      <3> QED BY <3>1, <3>2
    <2>3. CASE c # m
      <3>1. m >= 1 /\ Len(d) >= 1 /\ Len(d) \in 1 .. m - c /\ c + Len(d) = m
        <4>1. Len(d) = m - c
          BY <1>6
        <4> HIDE DEF m
        <4>2. c \in Nat /\ c < m
          BY <1>2, <1>4, <2>3
        <4>3. Len(d) \in Nat /\ Len(d) >= 1 /\ c + Len(d) = m /\ m >= 1
          BY <1>2, <4>1, <4>2
        <4> QED BY <4>1, <4>3
      <3>2. d[Len(d)] = buf[m]
        BY <1>6, <3>1
      <3>3. CASE buf[m].sure
        BY <1>2, <2>1, <3>1, <3>2, <3>3
      <3>4. CASE ~buf[m].sure
        <4>1. w.off = 0 /\ EndsInZeros(buf, Recovers)
          BY <1>2, <2>1, <3>1, <3>4
        <4>2. EndsInZeros(d, Recovers)
          BY <1>7, <2>0, <4>1
        <4> QED BY <3>1, <3>2, <3>4, <4>1, <4>2
      <3> QED BY <3>3, <3>4
    <2> QED BY <2>2, <2>3
  <1>10. Link(d, w, z)
    BY <1>8, <1>9 DEF Link
  <1>11. c = Parse(Window).consumed /\ d = SubSeq(buf, Parse(Window).consumed + 1, Len(buf))
    BY DEF c, d, win
  <1> QED BY <1>4, <1>5, <1>10, <1>11, Zenon

\* What handleParsedFrame is given: a frame the loop accepted, of the length it
\* claims, and that begins between frames.
LEMMA Handed ==
    ASSUME BufInv(buf), NEW i \in Parse(Window).frames
    PROVE  /\ i \in Nat /\ buf[i + 2].v \in HEADER .. LINEAR_SIZE - 1
           /\ i + buf[i + 2].v <= Len(buf)
           /\ Between(buf, i) /\ buf[i + 1].v = STREAM
           /\ SubSeq(buf, i + 1, i + buf[i + 2].v) \in Seq(TaggedWord)
           /\ Len(SubSeq(buf, i + 1, i + buf[i + 2].v)) = buf[i + 2].v
           /\ \A j \in 1 .. buf[i + 2].v : SubSeq(buf, i + 1, i + buf[i + 2].v)[j] = buf[i + j]
  <1> DEFINE win == Window
             w == win[i + 2].v
  <1>1. Sees(win, buf)
    BY WindowSees
  <1>2. PICK k \in 0 .. Len(win) : i = Index(win)[k] /\ Accepts(win, i)
    BY DEF Parse
  <1> HIDE DEF win
  <1>3. /\ win \in Seq(TaggedWord) /\ Len(win) \in Nat /\ Len(win) <= Len(buf)
        /\ Len(win) <= LINEAR_SIZE /\ Len(buf) \in Nat /\ buf \in Seq(TaggedWord)
    BY <1>1 DEF Sees, BufInv
  <1>4. i \in 0 .. Len(win)
    BY <1>2, <1>3, IndexDef
  <1>5. Between(buf, i)
    <2>1. Between(buf, Index(win)[k])
      BY <1>1, Path
    <2> QED BY <1>2, <2>1, Zenon
  <1>6. w \in HEADER .. Len(win) - (i + 1) /\ win[i + 1].v = STREAM
    <2>1. After(win)[i] # i
      BY <1>2, <1>3, <1>4, Turn
    <2>2. ~IsError(win, i) /\ win[i + 1].v # 0
      BY <1>2 DEF Accepts
    <2> QED BY <1>3, <1>4, <2>1, <2>2, Turn
  <1>7. buf[i + 2].v = w /\ buf[i + 1].v = STREAM
    <2> HIDE DEF w
    <2>1. i + 1 \in 1 .. Len(win) /\ i + 2 \in 1 .. Len(win)
      <3>1. w \in HEADER .. Len(win) - (i + 1)
        BY <1>6
      <3>2. i \in Nat /\ w \in Int /\ w >= 2 /\ w <= Len(win) - (i + 1)
        BY <1>3, <1>4, <3>1, Numbers
      <3> QED BY <1>3, <3>2
    <2>2. win[i + 1] = buf[i + 1] /\ win[i + 2] = buf[i + 2]
      BY <1>1, <2>1 DEF Sees
    <2> QED BY <1>6, <2>2 DEF w
  <1> HIDE DEF w
  <1>8. i \in Nat /\ w \in HEADER .. LINEAR_SIZE - 1 /\ w \in Nat /\ w >= 2 /\ i + w <= Len(buf)
    BY <1>3, <1>4, <1>6, Numbers
  <1> DEFINE e == i + 1
             n == i + w
             f == SubSeq(buf, e, n)
  <1>9. f \in Seq(TaggedWord) /\ Len(f) = w /\ \A j \in 1 .. w : f[j] = buf[i + j]
    <2>1. e \in Int /\ n \in Int /\ \A j \in e .. n : buf[j] \in TaggedWord
      <3>1. \A j \in e .. n : j \in 1 .. Len(buf)
        BY <1>3, <1>8
      <3> QED BY <1>3, <1>8, <3>1
    <2>2. n - e + 1 = w /\ (IF e <= n THEN n - e + 1 ELSE 0) = w
      BY <1>8
    <2>3. \A j \in 1 .. w : e + j - 1 = i + j
      BY <1>8
    <2> HIDE DEF n, e
    <2>4. /\ SubSeq(buf, e, n) \in Seq(TaggedWord)
          /\ Len(SubSeq(buf, e, n)) = IF e <= n THEN n - e + 1 ELSE 0
          /\ \A j \in 1 .. n - e + 1 : SubSeq(buf, e, n)[j] = buf[e + j - 1]
      BY <2>1, SubSeqProperties
    <2> QED BY <2>2, <2>3, <2>4
  <1>10. f = SubSeq(buf, i + 1, i + buf[i + 2].v)
    BY <1>7
  <1> HIDE DEF f
  <1> QED BY <1>5, <1>7, <1>8, <1>9, <1>10

-----------------------------------------------------------------------------
(* The length of the buffer.                                               *)

\* The header at the head of b is of a frame of at least LINEAR_SIZE - c words.
Claims(b, c) ==
    /\ Len(b) >= 2 /\ b[1].v = STREAM /\ b[2].v >= HEADER
    /\ b[2].v >= LINEAR_SIZE - c

\* A callback that drains only c words of a full window, fewer than a packet
\* brings, leaves a frame at the head that the next one drains with all but c
\* words of its window.
Bounded ==
    LET most == MaxBacklog + PACKET
    IN \/ Stuck /\ Len(buf) <= most + PACKET
       \/ due /\ Len(buf) <= most
       \/ ~due /\ Len(buf) <= MaxBacklog
       \/ \E c \in 1 .. PACKET - 1 :
             /\ Claims(buf, c)
             /\ Len(buf) <= (most - c) + IF due THEN PACKET ELSE 0

IInv ==
    /\ BufInv(buf)
    /\ due \in BOOLEAN
    /\ wire \in Words
    /\ zeros \in 0 .. Recovers
    /\ lost \in 0 .. MaxLost
    /\ parsed \subseteq {s \in Seq(TaggedWord) : Len(s) \in HEADER .. LINEAR_SIZE - 1}
    /\ ~Stuck => Link(buf, wire, zeros)
    /\ Bounded

LEMMA BoundedLength ==
    ASSUME BufInv(buf), Bounded
    PROVE  Len(buf) <= MaxBacklog + 2 * PACKET
  <1>1. Len(buf) \in Nat
    BY DEF BufInv
  <1>2. CASE \E c \in 1 .. PACKET - 1 :
             /\ Claims(buf, c)
             /\ Len(buf) <= ((MaxBacklog + PACKET) - c) + IF due THEN PACKET ELSE 0
    BY <1>1, <1>2, Numbers
  <1> QED BY <1>1, <1>2, Numbers DEF Bounded

LEMMA StuckStays ==
    ASSUME buf' = buf, Stuck
    PROVE  Stuck'
  BY DEF Stuck, Window

\* What a callback leaves, by what it found.
LEMMA Shrinks ==
    ASSUME BufInv(buf), Bounded, due, ~Stuck
    PROVE  LET left == Len(buf) - Parse(Window).consumed
               rest == SubSeq(buf, Parse(Window).consumed + 1, Len(buf))
           IN \/ left <= MaxBacklog
              \/ \E c \in 1 .. PACKET - 1 : Claims(rest, c) /\ left <= (MaxBacklog + PACKET) - c
  <1> DEFINE win == Window
             r == Parse(win).consumed
             n == Len(buf)
             rest == SubSeq(buf, r + 1, n)
  <1>1. Sees(win, buf) /\ Len(win) = IF n < LINEAR_SIZE THEN n ELSE LINEAR_SIZE
    BY WindowSees
  <1>2. ~(n >= LINEAR_SIZE /\ r = 0)
    BY DEF Stuck
  <1> HIDE DEF win
  <1>3. win \in Seq(TaggedWord) /\ Len(win) \in Nat /\ n \in Nat /\ Len(win) <= n
    BY <1>1 DEF Sees, BufInv
  <1>4. /\ r \in 0 .. Len(win) /\ (r = Len(win) \/ Beyond(win, r))
        /\ r # 0 => After(win)[0] # 0 /\ r >= After(win)[0]
        /\ r = Index(win)[Len(win)]
    BY <1>3, Consumes
  <1> HIDE DEF r
  <1>5. Between(buf, r)
    <2>1. Between(buf, Index(win)[Len(win)])
      BY <1>1, <1>3, Path
    <2> QED BY <1>4, <2>1, Zenon
  <1>6. /\ r \in 0 .. n
        /\ Len(rest) = n - r /\ \A j \in 1 .. n - r : rest[j] = buf[r + j]
    <2>1. r \in 0 .. n
      BY <1>3, <1>4
    <2> QED BY <1>5, <2>1, Drain
  <1> HIDE DEF rest
  <1>7. CASE n < LINEAR_SIZE
    BY <1>3, <1>6, <1>7, Numbers DEF r, win
  <1>8. CASE n >= LINEAR_SIZE
    <2>1. r \in Nat /\ r >= 1 /\ r <= LINEAR_SIZE /\ Len(win) = LINEAR_SIZE
      BY <1>1, <1>2, <1>3, <1>4, <1>8, Numbers
    <2>2. CASE n <= MaxBacklog + PACKET
      <3>1. CASE r >= PACKET
        BY <1>3, <2>1, <2>2, <3>1, Numbers DEF r, win
      <3>2. CASE r < PACKET
        <4>1. r # Len(win) /\ Beyond(win, r)
          BY <1>4, <2>1, <3>2, Numbers
        <4>2. /\ r + 1 \in 1 .. Len(win) /\ r + 2 \in 1 .. Len(win)
              /\ 1 \in 1 .. n - r /\ 2 \in 1 .. n - r /\ ~((r + 1) + HEADER > Len(win))
          BY <1>3, <1>8, <2>1, <3>2, Numbers
        <4>3. win[r + 1] = buf[r + 1] /\ win[r + 2] = buf[r + 2] /\ rest[1] = buf[r + 1]
              /\ rest[2] = buf[r + 2]
          BY <1>1, <1>6, <4>2 DEF Sees
        <4>4. ~IsError(win, r) /\ (r + 1) + win[r + 2].v > Len(win)
          BY <4>1, <4>2 DEF Beyond
        <4>5. win[r + 2].v \in Nat
          <5>1. win[r + 2] \in TaggedWord
            BY <1>3, <4>2
          <5> QED BY <5>1 DEF TaggedWord
        <4>6. rest[1].v = STREAM /\ rest[2].v >= HEADER /\ rest[2].v \in Nat
              /\ (r + 1) + rest[2].v > LINEAR_SIZE
          BY <2>1, <4>3, <4>4, <4>5 DEF IsError
        <4>7. Claims(rest, r)
          <5>1. rest[2].v >= LINEAR_SIZE - r
            BY <2>1, <4>6, Numbers
          <5>2. Len(rest) >= 2
            BY <1>3, <1>6, <2>1, <4>2
          <5> QED BY <4>6, <5>1, <5>2 DEF Claims
        <4>8. r \in 1 .. PACKET - 1 /\ n - r <= (MaxBacklog + PACKET) - r
          BY <1>3, <2>1, <2>2, <3>2, Numbers
        <4> QED BY <4>7, <4>8 DEF r, rest, win
      <3> QED BY <2>1, <3>1, <3>2, Numbers
    <2>3. CASE \E c \in 1 .. PACKET - 1 : Claims(buf, c) /\ n <= ((MaxBacklog + PACKET) - c) + PACKET
      <3>1. PICK c \in 1 .. PACKET - 1 : Claims(buf, c) /\ n <= ((MaxBacklog + PACKET) - c) + PACKET
        BY <2>3
      <3>2. 1 \in 1 .. Len(win) /\ 2 \in 1 .. Len(win)
        BY <2>1, Numbers
      <3>3. win[1] = buf[1] /\ win[2] = buf[2]
        BY <1>1, <3>2 DEF Sees
      <3>4. win[0 + 1].v = STREAM /\ win[0 + 2].v >= HEADER /\ win[0 + 2].v >= LINEAR_SIZE - c
        BY <3>1, <3>3 DEF Claims
      <3>5. After(win)[0] # 0 /\ r >= After(win)[0]
        BY <1>4, <2>1
      <3>6. 0 \in 0 .. Len(win) /\ ~IsError(win, 0) /\ win[0 + 1].v # 0
        BY <1>3, <3>4 DEF IsError, STREAM
      <3>7. After(win)[0] = 0 + win[0 + 2].v /\ win[0 + 2].v \in HEADER .. Len(win) - (0 + 1)
        BY <1>3, <3>5, <3>6, Turn
      <3>8. win[0 + 2].v \in Nat /\ r >= LINEAR_SIZE - c
        BY <2>1, <3>4, <3>5, <3>7, Numbers
      <3>9. n - r <= MaxBacklog
        BY <1>3, <2>1, <3>1, <3>8, Numbers
      <3> QED BY <3>9 DEF r, win
    <2> QED BY <2>2, <2>3 DEF Bounded
  <1> QED BY <1>3, <1>7, <1>8, Numbers

-----------------------------------------------------------------------------
(* The invariant.                                                          *)

LEMMA Initially == Init => IInv
  <1> SUFFICES ASSUME Init PROVE IInv
    OBVIOUS
  <1>1. buf = <<>> /\ Len(buf) = 0 /\ due = FALSE /\ parsed = {} /\ lost = 0
    BY DEF Init
  <1>2. BufInv(buf)
    <2>1. buf \in Seq(TaggedWord)
      BY <1>1
    <2> QED BY <1>1, <2>1 DEF BufInv, Continues, Regains
  <1>3. wire \in Words /\ zeros \in 0 .. Recovers
    <2>1. Fill \in Words
      BY DEF Words
    <2> QED BY <2>1, Numbers DEF Init
  <1>4. Link(buf, wire, zeros)
    <2>1. CASE wire = Fill /\ zeros = Recovers
      <3>1. wire.off = 0 /\ wire.len = 0
        BY <2>1 DEF Fill
      <3>2. wire.off >= wire.len
        BY <3>1
      <3>3. ~(zeros < Recovers)
        BY <2>1, Numbers
      <3> QED BY <1>1, <3>2, <3>3 DEF Link
    <2>2. CASE zeros = 0
      <3>1. ~(0 < zeros) /\ zeros # Recovers
        BY <2>2, Numbers
      <3> QED BY <3>1 DEF Link
    <2> QED BY <2>1, <2>2 DEF Init
  <1>5. Bounded
    BY <1>1, Numbers DEF Bounded
  <1>6. lost \in 0 .. MaxLost
    BY <1>1, Numbers
  <1>7. due \in BOOLEAN
    BY <1>1
  <1>8. parsed \subseteq {s \in Seq(TaggedWord) : Len(s) \in HEADER .. LINEAR_SIZE - 1}
    BY <1>1
  <1> QED BY <1>2, <1>3, <1>4, <1>5, <1>6, <1>7, <1>8 DEF IInv

LEMMA DeliverKeeps ==
    ASSUME IInv, Deliver
    PROVE  IInv'
  <1>1. PICK p \in Payloads[wire] :
            /\ due => Len(buf) + PACKET <= MaxBacklog
            /\ buf' = IF Stuck THEN buf ELSE buf \o Tagged(p)
            /\ due' = (due \/ Len(buf') >= LOWATER)
            /\ wire' = p[PACKET]
            /\ zeros' = Run(p)[PACKET]
            /\ parsed' = {}
            /\ lost' = lost
    BY DEF Deliver
  <1>2. /\ BufInv(buf) /\ due \in BOOLEAN /\ wire \in Words /\ zeros \in 0 .. Recovers
        /\ lost \in 0 .. MaxLost /\ (~Stuck => Link(buf, wire, zeros)) /\ Bounded
        /\ Len(buf) \in Nat
    BY DEF IInv, BufInv
  <1>3. p \in [1 .. PACKET -> Words] /\ PACKET \in 1 .. PACKET
    BY <1>2, Numbers DEF Payloads
  <1>4. wire' \in Words /\ zeros' \in 0 .. Recovers /\ lost' \in 0 .. MaxLost /\ due' \in BOOLEAN
    <2>1. Run(p) \in [0 .. PACKET -> 0 .. Recovers] /\ PACKET \in 0 .. PACKET
      BY <1>2, <1>3, RunDef, Numbers
    <2> QED BY <1>1, <1>2, <1>3, <2>1
  <1>5. parsed' \subseteq {s \in Seq(TaggedWord) : Len(s) \in HEADER .. LINEAR_SIZE - 1}
    BY <1>1
  <1>6. CASE Stuck
    <2>1. buf' = buf /\ Stuck'
      BY <1>1, <1>6, StuckStays
    <2>2. BufInv(buf')
      BY <1>2, <2>1
    <2>3. Bounded'
      <3>1. Len(buf') <= MaxBacklog + PACKET + PACKET
        <4>1. Len(buf) <= MaxBacklog + 2 * PACKET
          BY <1>2, BoundedLength
        <4> QED BY <1>2, <2>1, <4>1, Numbers
      <3> QED BY <2>1, <3>1 DEF Bounded
    <2> QED BY <1>4, <1>5, <2>1, <2>2, <2>3 DEF IInv
  <1>7. CASE ~Stuck
    <2> DEFINE c == buf \o Tagged(p)
    <2>1. /\ BufInv(c) /\ Link(c, p[PACKET], Run(p)[PACKET]) /\ Len(c) = Len(buf) + PACKET
          /\ \A j \in 1 .. Len(buf) : c[j] = buf[j]
      BY <1>2, <1>7, Payload
    <2> HIDE DEF c
    <2>2. buf' = c
      BY <1>1, <1>7 DEF c
    <2>3. BufInv(buf') /\ Link(buf', wire', zeros') /\ Len(buf') = Len(buf) + PACKET
      BY <1>1, <2>1, <2>2
    <2>4. Bounded'
      <3>0. (due => due') /\ (~due' => ~(Len(buf') >= LOWATER))
        BY <1>1, Zenon
      <3>1. CASE due
        <4>1. due' /\ Len(buf') <= MaxBacklog + PACKET
          <5>1. Len(buf) + PACKET <= MaxBacklog
            BY <1>1, <3>1
          <5>2. Len(buf') <= MaxBacklog + PACKET
            BY <1>2, <2>3, <5>1, Numbers
          <5> QED BY <3>0, <3>1, <5>2
        <4> QED BY <4>1 DEF Bounded
      <3>2. CASE ~due /\ ~due'
        <4>1. Len(buf') <= MaxBacklog
          <5>1. ~(Len(buf') >= LOWATER)
            BY <3>0, <3>2
          <5> QED BY <1>2, <2>3, <5>1, Numbers
        <4> QED BY <3>2, <4>1 DEF Bounded
      <3>3. CASE ~due /\ due'
        <4>1. CASE Len(buf) <= MaxBacklog
          <5>1. Len(buf') <= MaxBacklog + PACKET
            BY <1>2, <2>3, <4>1, Numbers
          <5> QED BY <3>3, <5>1 DEF Bounded
        <4>2. CASE ~(Len(buf) <= MaxBacklog)
          <5>1. PICK d \in 1 .. PACKET - 1 :
                   Claims(buf, d) /\ Len(buf) <= (MaxBacklog + PACKET) - d
            <6>1. PICK d \in 1 .. PACKET - 1 :
                     Claims(buf, d) /\ Len(buf) <= ((MaxBacklog + PACKET) - d) + 0
              BY <1>2, <1>7, <3>3, <4>2 DEF Bounded
            <6>2. Len(buf) <= (MaxBacklog + PACKET) - d
              BY <1>2, <6>1, Numbers
            <6> QED BY <6>1, <6>2
          <5>2. Len(buf') <= ((MaxBacklog + PACKET) - d) + PACKET
            BY <1>2, <2>3, <5>1, Numbers
          <5>3. Claims(buf', d)
            <6>1. Len(buf) >= 2
              BY <5>1 DEF Claims
            <6>2. 1 \in 1 .. Len(buf) /\ 2 \in 1 .. Len(buf) /\ Len(buf') >= 2
              BY <1>2, <2>3, <6>1, Numbers
            <6>3. buf'[1] = buf[1] /\ buf'[2] = buf[2]
              BY <2>1, <2>2, <6>2
            <6> QED BY <5>1, <6>2, <6>3 DEF Claims
          <5> QED BY <3>3, <5>2, <5>3 DEF Bounded
        <4> QED BY <4>1, <4>2
      <3> QED BY <3>1, <3>2, <3>3
    <2> QED BY <1>4, <1>5, <2>3, <2>4 DEF IInv
  <1> QED BY <1>6, <1>7

LEMMA LoseKeeps ==
    ASSUME IInv, Lose
    PROVE  IInv'
  <1>1. /\ BufInv(buf) /\ due \in BOOLEAN /\ wire \in Words /\ lost \in 0 .. MaxLost
        /\ lost < MaxLost /\ lost' = lost + 1 /\ zeros' = 0 /\ parsed' = {} /\ buf' = buf /\ due' = due
        /\ Bounded
    BY DEF IInv, Lose
  <1>2. wire' \in Words
    <2>1. PICK p \in Payloads[wire] : wire' = p[PACKET]
      BY DEF Lose
    <2>2. p \in [1 .. PACKET -> Words] /\ PACKET \in 1 .. PACKET
      BY <1>1, Numbers DEF Payloads
    <2> QED BY <2>1, <2>2
  <1>3. zeros' \in 0 .. Recovers /\ lost' \in 0 .. MaxLost
    BY <1>1, Numbers
  <1>4. Link(buf', wire', zeros')
    <2>1. ~(0 < zeros') /\ zeros' # Recovers
      BY <1>1, Numbers
    <2> QED BY <2>1 DEF Link
  <1>5. Bounded'
    <2>1. Stuck => Stuck'
      BY <1>1, StuckStays
    <2> QED BY <1>1, <2>1 DEF Bounded
  <1>6. BufInv(buf')
    BY <1>1
  <1> QED BY <1>1, <1>2, <1>3, <1>4, <1>5, <1>6 DEF IInv

LEMMA CallbackKeeps ==
    ASSUME IInv, Callback
    PROVE  IInv'
  <1> DEFINE r == Parse(Window).consumed
             d == SubSeq(buf, r + 1, Len(buf))
  <1>1. /\ BufInv(buf) /\ wire \in Words /\ zeros \in 0 .. Recovers
        /\ lost \in 0 .. MaxLost /\ (~Stuck => Link(buf, wire, zeros)) /\ Bounded
        /\ Len(buf) \in Nat /\ buf \in Seq(TaggedWord)
    BY DEF IInv, BufInv
  <1>2. /\ due /\ due' = FALSE /\ buf' = d /\ wire' = wire /\ zeros' = zeros /\ lost' = lost
        /\ parsed' = {SubSeq(buf, i + 1, i + buf[i + 2].v) : i \in Parse(Window).frames}
    BY DEF Callback
  <1>3. parsed' \subseteq {s \in Seq(TaggedWord) : Len(s) \in HEADER .. LINEAR_SIZE - 1}
    <2>1. ASSUME NEW s \in parsed'
          PROVE  s \in Seq(TaggedWord) /\ Len(s) \in HEADER .. LINEAR_SIZE - 1
      <3>1. PICK i \in Parse(Window).frames : s = SubSeq(buf, i + 1, i + buf[i + 2].v)
        BY <1>2
      <3> QED BY <1>1, <3>1, Handed
    <2> QED BY <2>1
  <1>4. CASE Stuck
    <2>1. r = 0
      BY <1>4 DEF Stuck
    <2>2. d = buf
      <3>1. d = SubSeq(buf, 1, Len(buf))
        BY <2>1
      <3> QED BY <1>1, <3>1, SubSeqFull
    <2>3. buf' = buf /\ Stuck'
      BY <1>2, <1>4, <2>2, StuckStays
    <2>4. Bounded'
      <3>1. Len(buf) <= MaxBacklog + 2 * PACKET
        BY <1>1, BoundedLength
      <3>2. Len(buf') <= MaxBacklog + PACKET + PACKET
        BY <1>1, <2>3, <3>1, Numbers
      <3> QED BY <2>3, <3>2 DEF Bounded
    <2>5. BufInv(buf')
      BY <1>1, <2>3
    <2> QED BY <1>1, <1>2, <1>3, <2>3, <2>4, <2>5 DEF IInv
  <1>5. CASE ~Stuck
    <2>1. r \in 0 .. Len(buf) /\ Between(buf, r) /\ Link(d, wire, zeros)
      BY <1>1, <1>5, DrainLink
    <2>2. \/ Len(buf) - r <= MaxBacklog
          \/ \E c \in 1 .. PACKET - 1 : Claims(d, c) /\ Len(buf) - r <= (MaxBacklog + PACKET) - c
      BY <1>1, <1>2, <1>5, Shrinks
    <2> HIDE DEF r
    <2>3. BufInv(d) /\ Len(d) = Len(buf) - r
      BY <1>1, <2>1, Drain
    <2> HIDE DEF d
    <2>4. BufInv(buf') /\ Link(buf', wire', zeros') /\ Len(buf') = Len(buf) - r
      BY <1>2, <2>1, <2>3
    <2>5. Bounded'
      <3>1. CASE Len(buf) - r <= MaxBacklog
        BY <1>2, <2>4, <3>1 DEF Bounded
      <3>2. CASE \E c \in 1 .. PACKET - 1 : Claims(d, c) /\ Len(buf) - r <= (MaxBacklog + PACKET) - c
        <4>1. PICK c \in 1 .. PACKET - 1 : Claims(d, c) /\ Len(buf) - r <= (MaxBacklog + PACKET) - c
          BY <3>2
        <4>2. Claims(buf', c)
          BY <1>2, <4>1
        <4>3. Len(buf') <= ((MaxBacklog + PACKET) - c) + 0
          <5>1. Len(buf) - r \in Int
            BY <1>1, <2>1
          <5> QED BY <2>4, <4>1, <5>1, Numbers
        <4> QED BY <1>2, <4>2, <4>3 DEF Bounded
      <3> QED BY <2>2, <3>1, <3>2
    <2> QED BY <1>1, <1>2, <1>3, <2>4, <2>5 DEF IInv
  <1> QED BY <1>4, <1>5

LEMMA StutterKeeps ==
    ASSUME IInv, UNCHANGED vars
    PROVE  IInv'
  <1>1. /\ buf' = buf /\ due' = due /\ parsed' = parsed /\ wire' = wire /\ zeros' = zeros /\ lost' = lost
    BY DEF vars
  <1>2. Stuck => Stuck'
    BY <1>1, StuckStays
  <1>3. Bounded'
    BY <1>1, <1>2 DEF IInv, Bounded
  <1>4. BufInv(buf')
    BY <1>1 DEF IInv
  <1>5. ~Stuck' => Link(buf', wire', zeros')
    BY <1>1, <1>2 DEF IInv
  <1> QED BY <1>1, <1>3, <1>4, <1>5 DEF IInv

\* The inductive invariant holds in every state.
THEOREM Invariance == Spec => []IInv
  <1>1. Init => IInv
    BY Initially
  <1>2. IInv /\ [Next]_vars => IInv'
    BY DeliverKeeps, LoseKeeps, CallbackKeeps, StutterKeeps DEF Next
  <1> QED BY <1>1, <1>2, PTL DEF Spec

\* Every variable keeps its type, what handleParsedFrame is given has a header
\* and is in the window, and a backlog does not grow as long as each packet
\* leads to a callback, for any sizes of the window, the packets and the frames.
THEOREM TypeCorrect == Spec => []TypeOK
  <1>1. IInv => TypeOK
    <2> SUFFICES ASSUME IInv PROVE TypeOK
      OBVIOUS
    <2>1. BufInv(buf) /\ Bounded /\ buf \in Seq(TaggedWord)
      BY DEF IInv, BufInv
    <2>2. Len(buf) <= MaxBacklog + 2 * PACKET
      BY <2>1, BoundedLength
    <2> QED BY <2>1, <2>2 DEF IInv, TypeOK
  <1> QED BY <1>1, Invariance, PTL

\* parseFeedbackBuffer is in step from a run of zeros on: the head of the buffer
\* is not inside a frame, and a header it cannot pass is not of that part of the
\* stream, however the stream is cut and whatever was lost before.
THEOREM InStepHolds == Spec => []InStep
  <1>1. IInv => InStep
    <2> SUFFICES ASSUME IInv PROVE InStep
      OBVIOUS
    <2>1. BufInv(buf) /\ buf \in Seq(TaggedWord) /\ Len(buf) \in Nat
      BY DEF IInv, BufInv
    <2>2. ASSUME buf # <<>>, buf[1].sure PROVE buf[1].off \in {0, 1}
      <3>1. 1 \in 1 .. Len(buf)
        BY <2>1, <2>2
      <3> QED BY <2>1, <2>2, <3>1 DEF BufInv, Regains
    <2>3. ASSUME Wedged, buf[2].sure PROVE FALSE
      <3>1. Len(buf) >= 2 /\ buf[1].v = STREAM /\ buf[2].v >= LINEAR_SIZE
        BY <2>3 DEF Wedged
      <3>2. /\ 1 \in 1 .. Len(buf) /\ 2 \in 1 .. Len(buf) /\ 2 \in 2 .. Len(buf)
            /\ 2 - 1 = 1 /\ 1 \in 1 .. Recovers
        BY <2>1, <3>1, Numbers
      <3>3. WordForm(buf[1]) /\ WordForm(buf[2])
        BY <2>1, <3>2 DEF BufInv
      <3>4. CASE ~buf[1].sure
        <4>1. buf[2 - 1].off = 0
          BY <2>1, <2>3, <3>2, <3>4 DEF BufInv, Regains
        <4> QED BY <3>1, <3>2, <3>3, <4>1 DEF WordForm, STREAM
      <3>5. CASE buf[1].sure
        <4>1. buf[1].off \in {0, 1}
          BY <2>1, <3>2, <3>5 DEF BufInv, Regains
        <4>2. buf[1].off = 1 /\ buf[1].len >= HEADER /\ buf[1].len \in Nat
          BY <3>1, <3>3, <4>1 DEF WordForm, STREAM
        <4>3. Follows(buf[2], buf[1])
          BY <2>1, <2>3, <3>2, <3>5 DEF BufInv, Continues
        <4>4. buf[2].off = 2
          BY <4>2, <4>3, Numbers DEF Follows
        <4> QED BY <3>1, <3>3, <4>4, Numbers DEF WordForm
      <3> QED BY <3>4, <3>5
    <2> QED BY <2>2, <2>3 DEF InStep
  <1> QED BY <1>1, Invariance, PTL

-----------------------------------------------------------------------------
(* The frames that are handed out.                                         *)

\* A frame that is all there and sure is not jumped over: the loop has a turn
\* at its first word and accepts it.
LEMMA Found ==
    ASSUME BufInv(buf), NEW x \in Nat, x < Parse(Window).consumed, NEW l \in FrameLength,
           x + l <= Len(buf),
           \A j \in 1 .. l : buf[x + j].off = j /\ buf[x + j].len = l /\ buf[x + j].sure
    PROVE  x \in Parse(Window).frames /\ buf[x + 2].v = l
  <1> DEFINE win == Window
  <1>1. Sees(win, buf)
    BY WindowSees
  <1>2. Parse(win).frames = {i \in {Index(win)[k] : k \in 0 .. Len(win)} : Accepts(win, i)}
    BY DEF Parse
  <1> HIDE DEF win
  <1>3. /\ win \in Seq(TaggedWord) /\ Len(win) \in Nat /\ Len(win) <= Len(buf)
        /\ Len(win) <= LINEAR_SIZE /\ Len(buf) \in Nat /\ x < Parse(win).consumed
    BY <1>1 DEF Sees, BufInv, win
  <1>4. l \in Nat /\ l >= HEADER /\ l >= 2 /\ 1 \in 1 .. l /\ 2 \in 1 .. l
    BY FeedbackAssumption, Numbers
  <1>5. /\ buf[x + 1].off = 1 /\ buf[x + 1].sure /\ buf[x + 2].off = 2 /\ buf[x + 2].len = l
        /\ x + 1 \in 1 .. Len(buf) /\ x + 2 \in 1 .. Len(buf)
    BY <1>3, <1>4
  <1>6. buf[x + 1].v = STREAM /\ buf[x + 2].v = l
    <2>1. WordForm(buf[x + 1]) /\ WordForm(buf[x + 2])
      BY <1>5 DEF BufInv
    <2> QED BY <1>5, <2>1 DEF WordForm
  <1>7. PICK k \in 0 .. Len(win) - 1 : Index(win)[k] <= x /\ x < After(win)[Index(win)[k]]
    BY <1>3, Crossing
  <1> DEFINE y == Index(win)[k]
  <1>8. k \in 0 .. Len(win) /\ y \in 0 .. Len(win)
    BY <1>3, IndexDef
  <1>9. Between(buf, y)
    BY <1>1, <1>8, Path
  <1>10. y <= x /\ x < After(win)[y]
    BY <1>7
  <1> HIDE DEF y
  <1> DEFINE w == win[y + 2].v
  <1>11. After(win)[y] # y /\ After(win)[y] \in 0 .. Len(win)
    BY <1>3, <1>8, <1>10, Turn
  <1>12. /\ y < Len(win)
         /\ \/ After(win)[y] = y + 1 /\ win[y + 1].v = 0
            \/ After(win)[y] = y + 1 /\ (y + 1) + HEADER <= Len(win) /\ IsError(win, y)
            \/ /\ Accepts(win, y) /\ w \in HEADER .. Len(win) - (y + 1)
               /\ After(win)[y] = y + w
    BY <1>3, <1>8, <1>11, Turn
  <1>13. CASE y = x
    <2>1. x + 1 \in 1 .. Len(win) /\ win[x + 1].v = STREAM
      <3>1. x + 1 \in 1 .. Len(win)
        BY <1>3, <1>12, <1>13
      <3> QED BY <1>1, <1>6, <3>1 DEF Sees
    <2>2. ~(After(win)[y] = y + 1 /\ win[y + 1].v = 0)
      BY <1>13, <2>1 DEF STREAM
    <2>3. ~((y + 1) + HEADER <= Len(win) /\ IsError(win, y))
      <3> SUFFICES ASSUME (x + 1) + HEADER <= Len(win) PROVE ~IsError(win, x)
        BY <1>13
      <3>1. x + 2 \in 1 .. Len(win)
        BY <1>3, Numbers
      <3>2. win[x + 2].v = l
        BY <1>1, <1>6, <3>1 DEF Sees
      <3> QED BY <1>4, <2>1, <3>2 DEF IsError
    <2>4. Accepts(win, x)
      BY <1>12, <1>13, <2>2, <2>3
    <2>5. x = Index(win)[k]
      BY <1>13 DEF y
    <2>6. x \in Parse(win).frames
      BY <1>2, <1>8, <2>4, <2>5
    <2> QED BY <1>6, <2>6 DEF win
  <1>14. CASE y # x
    <2>1. y < x /\ y \in Nat
      BY <1>3, <1>8, <1>10, <1>14
    <2>2. After(win)[y] # y + 1
      BY <1>3, <1>8, <1>10, <1>11, <2>1
    <2>3. Accepts(win, y) /\ w \in HEADER .. Len(win) - (y + 1) /\ After(win)[y] = y + w
      BY <1>12, <2>2
    <2> DEFINE j == x + 1 - y
    <2>4. j \in 1 .. w /\ y + j = x + 1 /\ j # 1
      <3> HIDE DEF w
      <3>1. w \in Int /\ x < y + w
        BY <1>3, <1>10, <2>1, <2>3, Numbers
      <3> QED BY <2>1, <3>1
    <2> HIDE DEF j
    <2>5. buf[y + j].sure
      BY <1>5, <2>4
    <2>6. buf[y + j].off = j
      BY <1>1, <1>8, <1>9, <2>3, <2>4, <2>5, OneFrame
    <2> QED BY <1>5, <2>4, <2>6
  <1> QED BY <1>13, <1>14

\* A callback hands out every frame that is all there, and from a run of zeros
\* on nothing else.
LEMMA CallbackFinds ==
    ASSUME BufInv(buf), Callback
    PROVE  /\ \A s \in parsed' : s[1].sure => s[1].off = 1
           /\ \A i \in 1 .. Drained, l \in FrameLength :
                 i + l - 1 <= Len(buf) /\ IsFrame(SubSeq(buf, i, i + l - 1))
                    => SubSeq(buf, i, i + l - 1) \in parsed'
  <1> DEFINE r == Parse(Window).consumed
  <1>1. /\ buf' = SubSeq(buf, r + 1, Len(buf))
        /\ parsed' = {SubSeq(buf, i + 1, i + buf[i + 2].v) : i \in Parse(Window).frames}
    BY DEF Callback
  <1>2. Len(buf) \in Nat /\ buf \in Seq(TaggedWord)
    BY DEF BufInv
  <1>3. ASSUME NEW s \in parsed', s[1].sure PROVE s[1].off = 1
    <2>1. PICK i \in Parse(Window).frames : s = SubSeq(buf, i + 1, i + buf[i + 2].v)
      BY <1>1
    <2> DEFINE w == buf[i + 2].v
    <2>2. /\ i \in Nat /\ w \in HEADER .. LINEAR_SIZE - 1 /\ i + w <= Len(buf)
          /\ Between(buf, i) /\ buf[i + 1].v = STREAM /\ \A j \in 1 .. w : s[j] = buf[i + j]
      BY <2>1, Handed
    <2> HIDE DEF w
    <2>3. 1 \in 1 .. w /\ i + 1 \in 1 .. Len(buf) /\ i < Len(buf)
      BY <1>2, <2>2, Numbers
    <2>4. s[1] = buf[i + 1]
      BY <2>2, <2>3
    <2>5. buf[i + 1].off \in {0, 1}
      BY <1>3, <2>2, <2>3, <2>4 DEF Between
    <2>6. WordForm(buf[i + 1])
      BY <2>3 DEF BufInv
    <2> QED BY <2>2, <2>4, <2>5, <2>6 DEF WordForm, STREAM
  <1>4. r \in 0 .. Len(buf) /\ Drained = r
    <2> DEFINE win == Window
               c == Parse(win).consumed
    <2>1. Sees(win, buf)
      BY WindowSees
    <2> HIDE DEF win
    <2>2. win \in Seq(TaggedWord) /\ Len(win) \in Nat /\ Len(win) <= Len(buf)
      BY <2>1 DEF Sees
    <2>3. c \in 0 .. Len(win) /\ c = Index(win)[Len(win)] /\ Len(win) \in 0 .. Len(win)
      BY <2>2, Consumes
    <2>4. Between(buf, c)
      <3>1. Between(buf, Index(win)[Len(win)])
        BY <2>1, <2>3, Path
      <3> QED BY <2>3, <3>1, Zenon
    <2> HIDE DEF c
    <2>5. c \in 0 .. Len(buf)
      BY <1>2, <2>2, <2>3
    <2>6. Len(SubSeq(buf, c + 1, Len(buf))) = Len(buf) - c
      BY <2>4, <2>5, Drain
    <2>7. c = r
      BY DEF c, win
    <2> HIDE DEF r
    <2>8. Len(buf') = Len(buf) - c
      BY <1>1, <2>6, <2>7
    <2> QED BY <1>2, <2>5, <2>7, <2>8 DEF Drained
  <1>5. ASSUME NEW i \in 1 .. Drained, NEW l \in FrameLength,
               i + l - 1 <= Len(buf), IsFrame(SubSeq(buf, i, i + l - 1))
        PROVE  SubSeq(buf, i, i + l - 1) \in parsed'
    <2> DEFINE x == i - 1
               n == i + l - 1
               f == SubSeq(buf, i, n)
    <2>1. x \in Nat /\ x < r /\ l \in Nat /\ i \in Nat /\ x + 1 = i /\ x + l = n /\ n <= Len(buf)
          /\ n \in Nat
      <3> HIDE DEF r
      <3>1. l \in Nat
        BY FeedbackAssumption
      <3>2. i \in Nat /\ i >= 1 /\ i <= r
        BY <1>4
      <3> QED BY <1>2, <1>4, <1>5, <3>1, <3>2
    <2>2. Len(f) = l /\ \A j \in 1 .. l : f[j] = buf[x + j]
      <3>1. i \in Int /\ n \in Int /\ \A j \in i .. n : buf[j] \in TaggedWord
        <4>1. \A j \in i .. n : j \in 1 .. Len(buf)
          BY <1>2, <2>1
        <4> QED BY <1>2, <2>1, <4>1
      <3>2. n - i + 1 = l /\ (IF i <= n THEN n - i + 1 ELSE 0) = l
        BY <2>1
      <3>3. \A j \in 1 .. l : i + j - 1 = x + j
        BY <2>1
      <3> HIDE DEF n, x
      <3>4. /\ Len(SubSeq(buf, i, n)) = IF i <= n THEN n - i + 1 ELSE 0
            /\ \A j \in 1 .. n - i + 1 : SubSeq(buf, i, n)[j] = buf[i + j - 1]
        BY <3>1, SubSeqProperties
      <3> QED BY <3>2, <3>3, <3>4
    <2>3. IsFrame(f)
      BY <1>5
    <2> HIDE DEF f, x, n, r
    <2>4. \A j \in 1 .. l : buf[x + j].off = j /\ buf[x + j].len = l /\ buf[x + j].sure
      BY <2>2, <2>3 DEF IsFrame
    <2>5. x \in Parse(Window).frames /\ buf[x + 2].v = l
      <3>1. x < Parse(Window).consumed /\ x + l <= Len(buf)
        BY <2>1 DEF r
      <3> QED BY <2>1, <2>4, <3>1, Found
    <2>6. SubSeq(buf, x + 1, x + buf[x + 2].v) \in parsed'
      BY <1>1, <2>5
    <2>7. SubSeq(buf, i, n) \in parsed'
      BY <2>1, <2>5, <2>6
    <2> QED BY <2>7 DEF n
  <1> QED BY <1>3, <1>5

\* A callback hands out each frame that is all there and, from a run of zeros
\* on, from no place where none begins; no other step hands out anything.
THEOREM FramesAreFound == Spec => FramesFound
  <1> DEFINE A == /\ \A s \in parsed' : s[1].sure => s[1].off = 1
                  /\ \A i \in 1 .. Drained, l \in FrameLength :
                        i + l - 1 <= Len(buf) /\ IsFrame(SubSeq(buf, i, i + l - 1))
                           => SubSeq(buf, i, i + l - 1) \in parsed'
  <1>1. ASSUME IInv, Next PROVE A
    <2>1. BufInv(buf) /\ wire \in Words /\ zeros \in 0 .. Recovers /\ Len(buf) \in Nat
          /\ (~Stuck => Link(buf, wire, zeros))
      BY <1>1 DEF IInv, BufInv
    <2>2. ASSUME parsed' = {}, Len(buf') \in Nat, Len(buf') >= Len(buf) PROVE A
      <3>1. \A i \in 1 .. Drained : FALSE
        BY <2>1, <2>2 DEF Drained
      <3>2. \A s \in parsed' : FALSE
        BY <2>2
      <3> QED BY <3>1, <3>2
    <2>3. CASE Deliver
      <3>1. PICK p \in Payloads[wire] :
                buf' = (IF Stuck THEN buf ELSE buf \o Tagged(p)) /\ parsed' = {}
        BY <2>3 DEF Deliver
      <3>2. CASE Stuck
        BY <2>1, <2>2, <3>1, <3>2
      <3>3. CASE ~Stuck
        <4>1. Len(buf \o Tagged(p)) = Len(buf) + PACKET
          BY <2>1, <3>3, Payload
        <4>2. Len(buf') = Len(buf) + PACKET
          BY <3>1, <3>3, <4>1
        <4> QED BY <2>1, <2>2, <3>1, <4>2, Numbers
      <3> QED BY <3>2, <3>3
    <2>4. CASE Lose
      BY <2>1, <2>2, <2>4 DEF Lose
    <2>5. CASE Callback
      BY <2>1, <2>5, CallbackFinds
    <2> QED BY <1>1, <2>3, <2>4, <2>5 DEF Next
  <1>2. IInv /\ [Next]_vars => [A]_vars
    BY <1>1
  <1> HIDE DEF A
  <1>3. Spec => [][A]_vars
    BY <1>2, Invariance, PTL DEF Spec
  <1> QED BY <1>3 DEF A, FramesFound
=============================================================================
