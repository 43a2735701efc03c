---------------------------- MODULE FineSyncProofs ----------------------------
(***************************************************************************)
(* Theorems about the synchronisation loop, for windows, chunks, offsets,  *)
(* backlogs and stalls of any size: the attached radio's machine leaves    *)
(* CFO_0 only with the carrier corrected, and while the HiggsFineSync      *)
(* thread keeps up no correction makes the carrier worse.                  *)
(*                                                                         *)
(* The argument counts samples.  All samples on their way to the attached  *)
(* radio's estimator stand in one line; the newest of them, those taken    *)
(* since the last correction landed, show what is left to correct.  What   *)
(* the machine has seen says how many of the others there can still be.    *)
(***************************************************************************)
EXTENDS FineSync, Induction, TLAPS

-----------------------------------------------------------------------------
(* Sequences, least and greatest elements, multiples.                      *)

LEMMA ConcatIs ==
    ASSUME NEW s \in Seq(Int), NEW t \in Seq(Int)
    PROVE  /\ s \o t \in Seq(Int) /\ Len(s \o t) = Len(s) + Len(t)
           /\ \A i \in 1..Len(s) : (s \o t)[i] = s[i]
           /\ \A i \in (Len(s) + 1)..(Len(s) + Len(t)) : (s \o t)[i] = t[i - Len(s)]
  OBVIOUS

LEMMA AppendIs ==
    ASSUME NEW s \in Seq(Int), NEW x \in Int
    PROVE  /\ Append(s, x) \in Seq(Int) /\ Len(Append(s, x)) = Len(s) + 1
           /\ \A i \in 1..Len(s) : Append(s, x)[i] = s[i]
           /\ Append(s, x)[Len(s) + 1] = x
  OBVIOUS

\* What is left when the first n entries are taken, and what is taken.
LEMMA CutIs ==
    ASSUME NEW s \in Seq(Int), NEW n \in Nat, n <= Len(s)
    PROVE  /\ SubSeq(s, n + 1, Len(s)) \in Seq(Int) /\ Len(SubSeq(s, n + 1, Len(s))) = Len(s) - n
           /\ \A i \in 1..(Len(s) - n) : SubSeq(s, n + 1, Len(s))[i] = s[n + i]
           /\ SubSeq(s, 1, n) \in Seq(Int) /\ Len(SubSeq(s, 1, n)) = n
           /\ \A i \in 1..n : SubSeq(s, 1, n)[i] = s[i]
  <1>1. Len(s) \in Nat
    OBVIOUS
  <1>2. /\ SubSeq(s, n + 1, Len(s)) \in Seq(Int) /\ Len(SubSeq(s, n + 1, Len(s))) = Len(s) - n
        /\ \A i \in 1..(Len(s) - n) : SubSeq(s, n + 1, Len(s))[i] = s[n + i]
    BY <1>1
  <1>3. /\ SubSeq(s, 1, n) \in Seq(Int) /\ Len(SubSeq(s, 1, n)) = n
        /\ \A i \in 1..n : SubSeq(s, 1, n)[i] = s[i]
    BY <1>1
  <1> QED BY <1>2, <1>3

\* The least and the greatest of the numbers in a sequence are two of them.
LEMMA SequenceMin ==
    ASSUME NEW s \in Seq(Int), Len(s) > 0
    PROVE  \E i \in 1..Len(s) : \A j \in 1..Len(s) : s[i] <= s[j]
  <1> DEFINE T == {n \in Nat : n <= Len(s) /\ n > 0 =>
                        \E i \in 1..n : \A j \in 1..n : s[i] <= s[j]}
  <1>0. Len(s) \in Nat /\ \A i \in 1..Len(s) : s[i] \in Int
    OBVIOUS
  <1>1. 0 \in T
    OBVIOUS
  <1>2. ASSUME NEW n \in Nat, n \in T PROVE n + 1 \in T
    <2> SUFFICES ASSUME n + 1 <= Len(s)
                 PROVE  \E i \in 1..(n + 1) : \A j \in 1..(n + 1) : s[i] <= s[j]
      OBVIOUS
    <2>1. CASE n = 0
      <3>1. 1 \in 1..(n + 1) /\ \A j \in 1..(n + 1) : s[1] <= s[j]
        BY <1>0, <2>1
      <3> QED BY <3>1
    <2>2. CASE n > 0
      <3>1. PICK i \in 1..n : \A j \in 1..n : s[i] <= s[j]
        BY <1>0, <1>2, <2>2
      <3>2. CASE s[i] <= s[n + 1]
        <4>1. ASSUME NEW j \in 1..(n + 1) PROVE s[i] <= s[j]
          <5>1. j \in 1..n \/ j = n + 1
            OBVIOUS
          <5>2. j \in 1..n => s[i] <= s[j]
            BY <3>1
          <5> QED BY <3>2, <5>1, <5>2
        <4> QED BY <4>1
      <3>3. CASE s[n + 1] <= s[i]
        <4>1. ASSUME NEW j \in 1..(n + 1) PROVE s[n + 1] <= s[j]
          <5>1. j \in 1..n \/ j = n + 1
            OBVIOUS
          <5>2. s[i] \in Int /\ s[n + 1] \in Int /\ s[j] \in Int
            BY <1>0
          <5>3. j \in 1..n => s[i] <= s[j]
            BY <3>1
          <5>4. j = n + 1 => s[j] = s[n + 1]
            OBVIOUS
          <5> QED BY <3>3, <5>1, <5>2, <5>3, <5>4
        <4> QED BY <4>1
      <3>4. s[i] \in Int /\ s[n + 1] \in Int
        BY <1>0
      <3>5. s[i] <= s[n + 1] \/ s[n + 1] <= s[i]
        BY <3>4
      <3> QED BY <3>2, <3>3, <3>5, Zenon
    <2> QED BY <2>1, <2>2
  <1> HIDE DEF T
  <1>3. Len(s) \in T
    BY <1>0, <1>1, <1>2, SetInduction
  <1> QED BY <1>0, <1>3 DEF T

LEMMA SequenceMax ==
    ASSUME NEW s \in Seq(Int), Len(s) > 0
    PROVE  \E i \in 1..Len(s) : \A j \in 1..Len(s) : s[i] >= s[j]
  <1> DEFINE t == [i \in 1..Len(s) |-> -s[i]]
  <1>1. Len(s) \in Nat /\ \A i \in 1..Len(s) : s[i] \in Int
    OBVIOUS
  <1>2. t \in Seq(Int) /\ Len(t) = Len(s) /\ \A i \in 1..Len(s) : t[i] = -s[i]
    BY <1>1
  <1> HIDE DEF t
  <1>3. PICK i \in 1..Len(s) : \A j \in 1..Len(s) : t[i] <= t[j]
    BY <1>2, SequenceMin
  <1>4. \A j \in 1..Len(s) : s[i] >= s[j]
    BY <1>1, <1>2, <1>3
  <1> QED BY <1>4

\* An estimate over a window is a number, and it is the only sample there is
\* when all samples are the same.
LEMMA MeasuredIs ==
    ASSUME NEW s \in Seq(Int), Len(s) > 0
    PROVE  /\ Measured(s) \subseteq Int
           /\ \A x \in Int : (\A i \in 1..Len(s) : s[i] = x) => Measured(s) = {x}
  <1>1. \A x : x \in ToSet(s) <=> \E i \in 1..Len(s) : x = s[i]
    BY DEF ToSet
  <1>2. Min(ToSet(s)) \in ToSet(s)
    <2>1. PICK i \in 1..Len(s) : \A j \in 1..Len(s) : s[i] <= s[j]
      BY SequenceMin
    <2>2. s[i] \in ToSet(s) /\ \A y \in ToSet(s) : s[i] <= y
      BY <1>1, <2>1
    <2> QED BY <2>2 DEF Min
  <1>3. Max(ToSet(s)) \in ToSet(s)
    <2>1. PICK i \in 1..Len(s) : \A j \in 1..Len(s) : s[i] >= s[j]
      BY SequenceMax
    <2>2. s[i] \in ToSet(s) /\ \A y \in ToSet(s) : s[i] >= y
      BY <1>1, <2>1
    <2> QED BY <2>2 DEF Max
  <1>4. \A x \in ToSet(s) : x \in Int
    BY <1>1
  <1> DEFINE a == Min(ToSet(s))
             b == Max(ToSet(s))
  <1>5. a \in Int /\ b \in Int
    BY <1>2, <1>3, <1>4
  <1>6. ASSUME NEW x \in Int, \A i \in 1..Len(s) : s[i] = x PROVE a = x /\ b = x
    BY <1>1, <1>2, <1>3, <1>6
  <1>7. Measured(s) = a..b
    BY DEF Measured
  <1> HIDE DEF a, b
  <1>8. Measured(s) \subseteq Int
    BY <1>5, <1>7
  <1>9. ASSUME NEW x \in Int, \A i \in 1..Len(s) : s[i] = x PROVE Measured(s) = {x}
    <2>1. a = x /\ b = x
      BY <1>6, <1>9
    <2>2. x..x = {x}
      OBVIOUS
    <2> QED BY <1>7, <2>1, <2>2
  <1> QED BY <1>8, <1>9

\* The greatest of three numbers.
LEMMA MaxOfThree ==
    ASSUME NEW f \in [Radio -> Nat]
    PROVE  /\ Max({f[r] : r \in Radio}) \in Nat
           /\ \A r \in Radio : f[r] <= Max({f[r1] : r1 \in Radio})
  <1>1. \E r \in Radio : \A q \in Radio : f[r] >= f[q]
    BY DEF Radio
  <1>2. PICK r \in Radio : \A q \in Radio : f[r] >= f[q]
    BY <1>1
  <1> DEFINE V == {f[q] : q \in Radio}
  <1>3. f[r] \in V /\ \A y \in V : f[r] >= y
    BY <1>2
  <1>4. Max(V) \in V /\ \A y \in V : Max(V) >= y
    BY <1>3 DEF Max
  <1> QED BY <1>4
\* A window is a number of chunks.  A multiple of the chunk that is less than a
\* window leaves room for a chunk, and one that is more than a chunk short of a
\* window does not complete it.
LEMMA ChunksOfWindow ==
    ASSUME NEW n \in Nat, n % CHUNK = 0
    PROVE  /\ CHUNK <= WINDOW
           /\ n < WINDOW => n + CHUNK <= WINDOW
           /\ (n + CHUNK) % CHUNK = 0
  <1>1. CHUNK \in Nat \ {0} /\ WINDOW \in Nat \ {0} /\ WINDOW % CHUNK = 0
    BY WindowAssumption
  <1> DEFINE k == n \div CHUNK
             l == WINDOW \div CHUNK
  <1>2. k \in Int /\ l \in Int /\ n = CHUNK * k /\ WINDOW = CHUNK * l
    BY <1>1
  <1> HIDE DEF k, l
  <1>3. WINDOW - n = CHUNK * (l - k)
    <2>1. CHUNK * (l - k) = CHUNK * l - CHUNK * k
      BY <1>1, <1>2
    <2> QED BY <2>1, <1>2
  <1>4. l - k >= 1 => CHUNK * (l - k) >= CHUNK
    BY <1>1, <1>2
  <1>5. l - k <= 0 => CHUNK * (l - k) <= 0
    BY <1>1, <1>2
  <1>6. l >= 1 => CHUNK * l >= CHUNK
    BY <1>1, <1>2
  <1>7. l <= 0 => CHUNK * l <= 0
    BY <1>1, <1>2
  <1>8. (n + CHUNK) % CHUNK = 0
    <2>1. n + CHUNK = CHUNK * (k + 1)
      BY <1>1, <1>2
    <2>2. (CHUNK * (k + 1)) % CHUNK = 0
      BY <1>1, <1>2
    <2> QED BY <2>1, <2>2
  <1>9. CHUNK <= WINDOW
    BY <1>1, <1>2, <1>6, <1>7
  <1>10. n < WINDOW => n + CHUNK <= WINDOW
    BY <1>1, <1>2, <1>3, <1>4, <1>5
  <1> QED BY <1>8, <1>9, <1>10

-----------------------------------------------------------------------------
(* Types.  The values are any numbers: their bounds stay with the runs.    *)

\* An accumulator never holds a whole window when the timer is done.
AccumulatorFits == \A r \in Radio : Len(cfo_buf_accumulate[r]) < WINDOW

Shapes ==
    /\ sfo_buf \in [Radio -> Seq(Int)] /\ cfo_buf \in [Radio -> Seq(Int)]
    /\ cfo_buf_accumulate \in [Radio -> Seq(Int)] /\ AccumulatorFits
    /\ sfo_estimated \in [Radio -> Int] /\ cfo_estimated \in [Radio -> Int]
    /\ sto_illegal \in BOOLEAN
    /\ new_sfo \in -1..3 /\ new_sto \in 0..3 /\ new_cfo \in 0..3
    /\ radio_state \in States /\ most_recent_event \in {"none", "REQUEST_FINE_SYNC_EV"}
    /\ cfo_estimated_sent \in Int
    /\ role \in {"rx", "tx"} /\ offset \in Int /\ taking \in Int
    /\ sfo_cfo_buf \in Seq(Int)
    /\ process_sfo_timer \in BOOLEAN /\ process_cfo_timer \in BOOLEAN
    /\ last \in Radio /\ running \in Radio \cup {None}
    /\ polled \in BOOLEAN /\ stalls \in 0..MaxStalls /\ illegals \in 0..MaxIllegal

\* What every leaf about numbers needs of the constants.
LEMMA ConstantsAre ==
    /\ CHUNK \in Nat \ {0} /\ WINDOW \in Nat \ {0} /\ CHUNK <= WINDOW
    /\ MaxStalls \in Nat /\ MaxBacklog \in Nat /\ MaxBacklog < WINDOW
    /\ MaxIllegal \in Nat
  <1>1. CHUNK <= WINDOW
    <2>1. 0 \in Nat /\ 0 % CHUNK = 0
      BY WindowAssumption
    <2> QED BY <2>1, ChunksOfWindow
  <1> QED BY <1>1, WindowAssumption, FineSyncAssumption

LEMMA ShapesInit == Init => Shapes
  <1> SUFFICES ASSUME Init PROVE Shapes
    OBVIOUS
  <1>1. <<>> \in Seq(Int) /\ Len(<<>>) = 0
    OBVIOUS
  <1>2. offset \in Int
    BY FineSyncAssumption, WindowAssumption DEF Init
  <1>3. /\ sfo_buf \in [Radio -> Seq(Int)] /\ cfo_buf \in [Radio -> Seq(Int)]
        /\ cfo_buf_accumulate \in [Radio -> Seq(Int)] /\ AccumulatorFits
    BY <1>1, ConstantsAre DEF Init, EstimateInit, AccumulatorFits
  <1>4. role \in {"rx", "tx"}
    BY FineSyncAssumption DEF Init
  <1>5. /\ sfo_estimated \in [Radio -> Int] /\ cfo_estimated \in [Radio -> Int]
        /\ new_sfo \in -1..3 /\ new_sto \in 0..3 /\ new_cfo \in 0..3
        /\ cfo_estimated_sent \in Int
    BY DEF Init, EstimateInit
  <1>6. /\ sto_illegal \in BOOLEAN /\ radio_state \in States
        /\ most_recent_event \in {"none", "REQUEST_FINE_SYNC_EV"}
    BY DEF Init, EstimateInit, States
  <1>7. /\ sfo_cfo_buf \in Seq(Int) /\ taking \in Int
        /\ process_sfo_timer \in BOOLEAN /\ process_cfo_timer \in BOOLEAN
    BY <1>1, <1>2 DEF Init
  <1>8. /\ last \in Radio /\ running \in Radio \cup {None} /\ polled \in BOOLEAN
        /\ stalls \in 0..MaxStalls /\ illegals \in 0..MaxIllegal
    BY ConstantsAre DEF Init, Radio
  <1> QED BY <1>2, <1>3, <1>4, <1>5, <1>6, <1>7, <1>8 DEF Shapes

\* CountUp stays within what the machine tells apart.
LEMMA CountUpIs ==
    ASSUME NEW n \in -1..3
    PROVE  CountUp(n) = IF n = 3 THEN 3 ELSE n + 1
  <1>1. \A x \in Int : x <= 3 => Min({x, 3}) = x
    BY DEF Min
  <1>2. \A x \in Int : x >= 3 => Min({x, 3}) = 3
    BY DEF Min
  <1> QED BY <1>1, <1>2 DEF CountUp

\* What the cfo timer finds in an accumulator, by lengths and entries.
LEMMA AccumulatedIs ==
    ASSUME Shapes, NEW r \in Radio
    PROVE  /\ Accumulated(r) \in Seq(Int)
           /\ Takes(r) => /\ Len(Accumulated(r)) = Len(cfo_buf_accumulate[r]) + CHUNK
                          /\ \A i \in 1..Len(cfo_buf_accumulate[r]) :
                                Accumulated(r)[i] = cfo_buf_accumulate[r][i]
                          /\ \A i \in 1..CHUNK :
                                Accumulated(r)[Len(cfo_buf_accumulate[r]) + i] = cfo_buf[r][i]
           /\ ~Takes(r) => Accumulated(r) = cfo_buf_accumulate[r]
  <1> DEFINE a == cfo_buf_accumulate[r]
             c == cfo_buf[r]
             h == SubSeq(c, 1, CHUNK)
  <1>1. a \in Seq(Int) /\ c \in Seq(Int) /\ CHUNK \in Nat
    BY ConstantsAre DEF Shapes
  <1>2. CASE Takes(r)
    <2>1. CHUNK <= Len(c)
      BY <1>2 DEF Takes
    <2> HIDE DEF a, c
    <2>2. h \in Seq(Int) /\ Len(h) = CHUNK /\ \A i \in 1..CHUNK : h[i] = c[i]
      BY <1>1, <2>1, CutIs
    <2>3. Accumulated(r) = a \o h
      BY <1>2 DEF Accumulated, a, c
    <2> HIDE DEF h
    <2>4. /\ a \o h \in Seq(Int) /\ Len(a \o h) = Len(a) + CHUNK
          /\ \A i \in 1..Len(a) : (a \o h)[i] = a[i]
          /\ \A i \in (Len(a) + 1)..(Len(a) + CHUNK) : (a \o h)[i] = h[i - Len(a)]
      <3>0. a \in Seq(Int) /\ h \in Seq(Int)
        BY <1>1, <2>2
      <3>1. /\ a \o h \in Seq(Int) /\ Len(a \o h) = Len(a) + Len(h)
            /\ \A i \in 1..Len(a) : (a \o h)[i] = a[i]
            /\ \A i \in (Len(a) + 1)..(Len(a) + Len(h)) : (a \o h)[i] = h[i - Len(a)]
        BY <3>0, ConcatIs
      <3> QED BY <2>2, <3>1
    <2>5. ASSUME NEW i \in 1..CHUNK PROVE (a \o h)[Len(a) + i] = c[i]
      <3>1. Len(a) + i \in (Len(a) + 1)..(Len(a) + CHUNK) /\ Len(a) + i - Len(a) = i
        BY <1>1
      <3> QED BY <2>2, <2>4, <3>1
    <2> QED BY <1>2, <2>3, <2>4, <2>5 DEF a, c
  <1>3. CASE ~Takes(r)
    <2>1. Accumulated(r) = a
      BY <1>1, <1>3 DEF Accumulated
    <2> QED BY <1>1, <1>3, <2>1
  <1> QED BY <1>2, <1>3

LEMMA ShapesCapture ==
    ASSUME Shapes, Capture
    PROVE  Shapes'
  <1>1. sfo_cfo_buf' \in Seq(Int)
    BY AppendIs DEF Shapes, Capture
  <1>2. taking' \in Int
    BY DEF Shapes, Capture
  <1>3. stalls' \in 0..MaxStalls
    BY ConstantsAre DEF Shapes, Capture
  <1> QED BY <1>1, <1>2, <1>3
          DEF Shapes, Capture, AccumulatorFits, samples, estimates, news, machine

\* The queues of a radio after the callback.
LEMMA CallbackFeeds ==
    ASSUME Shapes, Callback, NEW r \in Radio
    PROVE  /\ sfo_buf'[r] \in Seq(Int) /\ cfo_buf'[r] \in Seq(Int)
           /\ r \in Injected => /\ sfo_buf'[r] = sfo_buf[r] \o sfo_cfo_buf
                                /\ cfo_buf'[r] = cfo_buf[r] \o sfo_cfo_buf
           /\ r \notin Injected => /\ sfo_buf'[r] = sfo_buf[r]
                                   /\ cfo_buf'[r] = cfo_buf[r]
  <1>1. sfo_buf[r] \in Seq(Int) /\ cfo_buf[r] \in Seq(Int) /\ sfo_cfo_buf \in Seq(Int)
    BY DEF Shapes
  <1> DEFINE more == IF r \in Injected THEN sfo_cfo_buf ELSE <<>>
  <1>2. sfo_buf'[r] = sfo_buf[r] \o more /\ cfo_buf'[r] = cfo_buf[r] \o more
    BY DEF Callback
  <1>3. more \in Seq(Int)
    BY <1>1
  <1>4. sfo_buf[r] \o more \in Seq(Int) /\ cfo_buf[r] \o more \in Seq(Int)
    BY <1>1, <1>3, ConcatIs
  <1>5. r \notin Injected => sfo_buf[r] \o more = sfo_buf[r] /\ cfo_buf[r] \o more = cfo_buf[r]
    BY <1>1
  <1> QED BY <1>2, <1>4, <1>5

LEMMA ShapesCallback ==
    ASSUME Shapes, Callback
    PROVE  Shapes'
  <1>1. sfo_buf' \in [Radio -> Seq(Int)]
    <2>1. sfo_buf' = [r \in Radio |-> sfo_buf'[r]]
      BY DEF Callback
    <2> QED BY <2>1, CallbackFeeds
  <1>2. cfo_buf' \in [Radio -> Seq(Int)]
    <2>1. cfo_buf' = [r \in Radio |-> cfo_buf'[r]]
      BY DEF Callback
    <2> QED BY <2>1, CallbackFeeds
  <1>3. process_sfo_timer' \in BOOLEAN /\ process_cfo_timer' \in BOOLEAN
    BY DEF Shapes, Callback
  <1>4. sfo_cfo_buf' \in Seq(Int)
    BY DEF Callback
  <1> QED BY <1>1, <1>2, <1>3, <1>4
          DEF Shapes, Callback, AccumulatorFits, estimates, news, machine, hardware, bounds

LEMMA TurnIs ==
    ASSUME Shapes
    PROVE  Turn \in Radio /\ (role = "tx" => Turn = Attached)
  <1> DEFINE a == (last + 1) % 3
             b == (last + 2) % 3
  <1>1. last \in 0..2
    BY DEF Shapes, Radio
  <1>2. a \in 0..2 /\ b \in 0..2 /\ (a = 2 \/ b = 2 \/ last = 2)
    BY <1>1
  <1>3. Turn = IF a \in Injected THEN a ELSE IF b \in Injected THEN b ELSE last
    BY DEF Turn
  <1> HIDE DEF a, b
  <1>4. Turn \in Radio
    BY <1>1, <1>2, <1>3 DEF Radio
  <1>5. ASSUME role = "tx" PROVE Turn = Attached
    <2>1. Injected = {2}
      BY <1>5 DEF Injected, Attached
    <2> QED BY <1>2, <1>3, <2>1 DEF Attached
  <1> QED BY <1>4, <1>5

\* The sfo queue whose turn it is loses a window, or nothing happens to it.
LEMMA CountSfoIs ==
    ASSUME Shapes, CountSfo(last), Len(sfo_buf[last]) >= WINDOW
    PROVE  /\ sfo_buf' \in [Radio -> Seq(Int)]
           /\ \A r \in Radio : r # last => sfo_buf'[r] = sfo_buf[r]
           /\ Len(sfo_buf'[last]) = Len(sfo_buf[last]) - WINDOW
           /\ new_sfo' = IF last = Attached THEN CountUp(new_sfo) ELSE new_sfo
           /\ new_sto' = IF last = Attached THEN CountUp(new_sto) ELSE new_sto
           /\ new_cfo' = new_cfo
  <1>1. last \in Radio /\ sfo_buf \in [Radio -> Seq(Int)] /\ WINDOW \in Nat
    BY ConstantsAre DEF Shapes
  <1> DEFINE s == sfo_buf[last]
             rest == SubSeq(s, WINDOW + 1, Len(s))
  <1>2. s \in Seq(Int)
    BY <1>1
  <1>3. rest \in Seq(Int) /\ Len(rest) = Len(s) - WINDOW
    <2>1. WINDOW <= Len(s)
      BY <1>1, <1>2
    <2> HIDE DEF s
    <2> QED BY <1>1, <1>2, <2>1, CutIs
  <1>4. sfo_buf' = [sfo_buf EXCEPT ![last] = rest]
    BY DEF CountSfo
  <1> HIDE DEF rest
  <1> QED BY <1>1, <1>3, <1>4 DEF CountSfo

LEMMA ShapesSfoTimer ==
    ASSUME Shapes, SfoTimer
    PROVE  Shapes'
  <1>1. last' \in Radio
    BY TurnIs DEF SfoTimer
  <1>2. process_sfo_timer' \in BOOLEAN
    BY DEF SfoTimer, NextIsFull
  <1>3. CASE /\ Len(sfo_buf[last]) >= WINDOW
             /\ running' = last
             /\ CountSfo(last)
             /\ polled' = (polled /\ last # Attached)
    <2>1. /\ sfo_buf' \in [Radio -> Seq(Int)]
          /\ new_sfo' \in {new_sfo, CountUp(new_sfo)} /\ new_sto' \in {new_sto, CountUp(new_sto)}
          /\ new_cfo' = new_cfo
      BY <1>3, CountSfoIs
    <2>2. CountUp(new_sfo) \in -1..3 /\ CountUp(new_sto) \in 0..3
      <3>1. new_sfo \in -1..3 /\ new_sto \in -1..3 /\ new_sto \in 0..3
        BY DEF Shapes
      <3> QED BY <3>1, CountUpIs
    <2>3. new_sfo' \in -1..3 /\ new_sto' \in 0..3
      BY <2>1, <2>2 DEF Shapes
    <2>4. polled' \in BOOLEAN /\ running' \in Radio \cup {None}
      BY <1>3 DEF Shapes
    <2> QED BY <1>1, <1>2, <2>1, <2>3, <2>4
            DEF Shapes, SfoTimer, AccumulatorFits, estimates, machine, hardware
  <1>4. CASE /\ Len(sfo_buf[last]) < WINDOW
             /\ UNCHANGED <<running, sfo_buf, news, polled>>
    BY <1>1, <1>2, <1>4
       DEF Shapes, SfoTimer, AccumulatorFits, estimates, machine, hardware, news
  <1> QED BY <1>3, <1>4 DEF SfoTimer

LEMMA ShapesSfoWrites ==
    ASSUME Shapes, SfoWrites
    PROVE  Shapes'
  <1>1. PICK illegal \in BOOLEAN : /\ illegal => illegals > 0
                                   /\ illegals' = illegals - (IF illegal THEN 1 ELSE 0)
                                   /\ WriteSfo(running, illegal)
    BY DEF SfoWrites
  <1>2. running \in Radio
    BY DEF Shapes, SfoWrites, Idle
  <1>3. sfo_estimated' \in [Radio -> Int]
    BY <1>1, <1>2 DEF Shapes, WriteSfo
  <1>4. sto_illegal' \in BOOLEAN /\ cfo_estimated' = cfo_estimated
    BY <1>1 DEF Shapes, WriteSfo
  <1>5. illegals' \in 0..MaxIllegal
    BY <1>1, ConstantsAre DEF Shapes
  <1>6. running' \in Radio \cup {None}
    BY DEF SfoWrites
  <1> QED BY <1>3, <1>4, <1>5, <1>6
          DEF Shapes, SfoWrites, AccumulatorFits, samples, news, machine, hardware

\* The queue, the accumulator and the estimate of a radio after the cfo timer.
LEMMA RunCfoIs ==
    ASSUME Shapes, RunCfo, NEW r \in Radio
    PROVE  /\ cfo_buf'[r] \in Seq(Int) /\ cfo_buf_accumulate'[r] \in Seq(Int)
           /\ Len(cfo_buf_accumulate'[r]) < WINDOW
           /\ cfo_estimated'[r] \in Int /\ cfo_estimated'[r] \in Estimates(r)
           /\ Full(r) => Takes(r)
  <1>1. /\ cfo_buf[r] \in Seq(Int) /\ cfo_buf_accumulate[r] \in Seq(Int)
        /\ Len(cfo_buf_accumulate[r]) < WINDOW /\ cfo_estimated[r] \in Int
    BY DEF Shapes, AccumulatorFits
  <1>2. Accumulated(r) \in Seq(Int)
    BY AccumulatedIs
  <1>3. cfo_buf'[r] \in Seq(Int)
    <2>1. CASE Takes(r)
      <3>1. CHUNK \in Nat /\ CHUNK <= Len(cfo_buf[r])
        BY <2>1, ConstantsAre DEF Takes
      <3>2. SubSeq(cfo_buf[r], CHUNK + 1, Len(cfo_buf[r])) \in Seq(Int)
        BY <1>1, <3>1, CutIs
      <3> QED BY <2>1, <3>2 DEF RunCfo
    <2> QED BY <1>1, <2>1 DEF RunCfo
  <1>4. cfo_buf_accumulate'[r] \in Seq(Int) /\ Len(cfo_buf_accumulate'[r]) < WINDOW
    <2>1. cfo_buf_accumulate'[r] = IF Full(r) THEN <<>> ELSE Accumulated(r)
      BY DEF RunCfo
    <2>2. CASE Full(r)
      <3>1. <<>> \in Seq(Int) /\ Len(<<>>) = 0
        OBVIOUS
      <3> QED BY <2>1, <2>2, <3>1, ConstantsAre
    <2>3. CASE ~Full(r)
      <3>1. Len(Accumulated(r)) < WINDOW
        BY <1>2, <2>3, ConstantsAre DEF Full
      <3> QED BY <1>2, <2>1, <2>3, <3>1
    <2> QED BY <2>2, <2>3
  <1>5. cfo_estimated'[r] \in Estimates(r)
    BY DEF RunCfo
  <1>6. cfo_estimated'[r] \in Int
    <2>1. CASE Full(r)
      <3>1. Len(Accumulated(r)) > 0
        BY <1>2, <2>1, ConstantsAre DEF Full
      <3>2. Measured(Accumulated(r)) \subseteq Int
        BY <1>2, <3>1, MeasuredIs
      <3> QED BY <1>5, <2>1, <3>2 DEF Estimates
    <2>2. CASE ~Full(r)
      BY <1>1, <1>5, <2>2 DEF Estimates
    <2> QED BY <2>1, <2>2
  <1>7. Full(r) => Takes(r)
    <2>1. SUFFICES ASSUME ~Takes(r) PROVE ~Full(r)
      OBVIOUS
    <2>2. Accumulated(r) = cfo_buf_accumulate[r]
      BY <2>1, AccumulatedIs
    <2> QED BY <1>1, <2>2, ConstantsAre DEF Full
  <1> QED BY <1>3, <1>4, <1>5, <1>6, <1>7

LEMMA ShapesCfoTimer ==
    ASSUME Shapes, CfoTimer
    PROVE  Shapes'
  <1>1. RunCfo
    BY DEF CfoTimer
  <1>2. cfo_buf' \in [Radio -> Seq(Int)]
    <2>1. cfo_buf' = [r \in Radio |-> cfo_buf'[r]]
      BY <1>1 DEF RunCfo
    <2> QED BY <1>1, <2>1, RunCfoIs
  <1>3. cfo_buf_accumulate' \in [Radio -> Seq(Int)] /\ AccumulatorFits'
    <2>1. cfo_buf_accumulate' = [r \in Radio |-> cfo_buf_accumulate'[r]]
      BY <1>1 DEF RunCfo
    <2> QED BY <1>1, <2>1, RunCfoIs DEF AccumulatorFits
  <1>4. cfo_estimated' \in [Radio -> Int]
    <2>1. cfo_estimated' = [r \in Radio |-> cfo_estimated'[r]]
      BY <1>1 DEF RunCfo
    <2> QED BY <1>1, <2>1, RunCfoIs
  <1>5. new_cfo' \in 0..3
    <2>1. new_cfo \in -1..3 /\ new_cfo \in 0..3
      BY DEF Shapes
    <2>2. CountUp(new_cfo) \in 0..3
      BY <2>1, CountUpIs
    <2> QED BY <1>1, <2>1, <2>2 DEF RunCfo
  <1>6. polled' \in BOOLEAN /\ process_cfo_timer' \in BOOLEAN
    BY DEF CfoTimer, Shapes
  <1>7. UNCHANGED <<sfo_buf, new_sfo, new_sto, sfo_estimated, sto_illegal>>
    BY <1>1 DEF RunCfo
  <1> QED BY <1>2, <1>3, <1>4, <1>5, <1>6, <1>7 DEF Shapes, CfoTimer, machine, hardware

\* What a tick may do to what was sent.
LEMMA SentBy ==
    ASSUME Shapes, Tick
    PROVE  cfo_estimated_sent' \in {cfo_estimated_sent,
                                    cfo_estimated_sent + cfo_estimated[Attached]}
BY DEF Tick, TickLocalFsm, TickDidBoot, TickPreSfo, TickSfo, TickSto, TickStoEq, TickCfo,
       TickBackground, TickReFineSync, TickWaits, UpdatePartnerCfo, machine

\* What a tick may do to the counters and the state.
LEMMA TickCounts ==
    ASSUME Tick
    PROVE  /\ new_sfo' \in {new_sfo, 0, -1} /\ new_sto' \in {new_sto, 0}
           /\ new_cfo' \in {new_cfo, 0}
           /\ radio_state' \in States \cup {radio_state}
           /\ most_recent_event' = most_recent_event
  <1>1. TickLocalFsm
    BY DEF Tick
  <1>2. CASE TickDidBoot
    BY <1>2 DEF TickDidBoot, news, States
  <1>3. CASE TickPreSfo
    BY <1>3 DEF TickPreSfo, States
  <1>4. CASE TickSfo
    BY <1>4 DEF TickSfo, States
  <1>5. CASE TickSto
    BY <1>5 DEF TickSto, States
  <1>6. CASE TickStoEq
    BY <1>6 DEF TickStoEq, States
  <1>7. CASE TickCfo
    BY <1>7 DEF TickCfo, States
  <1>8. CASE TickBackground
    BY <1>8 DEF TickBackground, news, States
  <1>9. CASE TickReFineSync
    BY <1>9 DEF TickReFineSync, news
  <1>10. CASE TickWaits
    BY <1>10 DEF TickWaits, news, machine
  <1> QED BY <1>1, <1>2, <1>3, <1>4, <1>5, <1>6, <1>7, <1>8, <1>9, <1>10 DEF TickLocalFsm

LEMMA ShapesTick ==
    ASSUME Shapes, Tick
    PROVE  Shapes'
  <1>1. cfo_estimated_sent' \in Int
    <2>1. cfo_estimated_sent \in Int /\ cfo_estimated[Attached] \in Int
      BY DEF Shapes, Radio, Attached
    <2>2. CASE cfo_estimated_sent' = cfo_estimated_sent
      BY <2>1, <2>2
    <2>3. CASE cfo_estimated_sent' = cfo_estimated_sent + cfo_estimated[Attached]
      BY <2>1, <2>3
    <2> QED BY <2>2, <2>3, SentBy
  <1>2. new_sfo' \in -1..3 /\ new_sto' \in 0..3 /\ new_cfo' \in 0..3
    <2>1. new_sfo' \in {new_sfo, 0, -1} /\ new_sto' \in {new_sto, 0} /\ new_cfo' \in {new_cfo, 0}
      BY TickCounts
    <2> QED BY <2>1 DEF Shapes
  <1>3. radio_state' \in States /\ most_recent_event' = most_recent_event
    BY TickCounts DEF Shapes
  <1>4. polled' \in BOOLEAN /\ UNCHANGED <<samples, estimates, hardware, thread, stalls, illegals>>
    BY DEF Tick
  <1> QED BY <1>1, <1>2, <1>3, <1>4
          DEF Shapes, AccumulatorFits, samples, estimates, hardware, thread

LEMMA ShapesNext ==
    ASSUME Shapes, [Next]_vars
    PROVE  Shapes'
  <1>1. CASE Event
    BY <1>1 DEF Event, RequestFineSync, Shapes, AccumulatorFits, samples, estimates, news,
                hardware, thread, bounds
  <1>2. CASE UNCHANGED vars
    BY <1>2 DEF vars, Shapes, AccumulatorFits, samples, estimates, news, machine, hardware,
                thread, bounds
  <1> QED BY <1>1, <1>2, ShapesCapture, ShapesCallback, ShapesSfoTimer, ShapesSfoWrites,
             ShapesCfoTimer, ShapesTick DEF Next

-----------------------------------------------------------------------------
(* The line of samples before the attached radio's estimators.             *)

Sfo == sfo_buf[Attached]
Cfo == cfo_buf[Attached]
Acc == cfo_buf_accumulate[Attached]

Res == offset - cfo_estimated_sent      \* what is left to correct
Est == cfo_estimated[Attached]

Behind == Len(sfo_cfo_buf) + 1          \* samples not in the queues yet
Held == Len(Acc) + Len(Cfo)
InLine == Held + Behind                 \* the whole line

LEMMA LineIs ==
    ASSUME Shapes
    PROVE  /\ Sfo \in Seq(Int) /\ Cfo \in Seq(Int) /\ Acc \in Seq(Int)
           /\ Len(Sfo) \in Nat /\ Len(Cfo) \in Nat /\ Len(Acc) \in Nat /\ Len(Acc) < WINDOW
           /\ sfo_cfo_buf \in Seq(Int) /\ Len(sfo_cfo_buf) \in Nat
           /\ Behind \in Nat \ {0} /\ Held \in Nat /\ InLine \in Nat
           /\ Res \in Int /\ Est \in Int
  <1>1. /\ Sfo \in Seq(Int) /\ Cfo \in Seq(Int) /\ Acc \in Seq(Int) /\ Len(Acc) < WINDOW
        /\ sfo_cfo_buf \in Seq(Int)
    BY DEF Shapes, AccumulatorFits, Radio, Attached, Sfo, Cfo, Acc
  <1>2. Len(Sfo) \in Nat /\ Len(Cfo) \in Nat /\ Len(Acc) \in Nat /\ Len(sfo_cfo_buf) \in Nat
    BY <1>1
  <1>3. Res \in Int /\ Est \in Int
    BY DEF Shapes, Radio, Attached, Res, Est
  <1> QED BY <1>1, <1>2, <1>3 DEF Behind, Held, InLine

\* How long the line can get: a sample that does not find the thread caught up
\* finds a backlog of less than a window.
CfoFits ==
    /\ Len(sfo_cfo_buf) + Len(Cfo) <= WINDOW
    /\ ~process_cfo_timer => Len(Cfo) < WINDOW

\* Before its first turn the attached radio cannot have missed one.
FirstTurn ==
    role = "tx" /\ last # Attached /\ Len(Sfo) >= WINDOW => process_sfo_timer

\* The receiver's machine is never asked for a fine sync.
ReceiverWaits == role = "rx" => radio_state = "DID_BOOT" /\ most_recent_event = "none"

Lengths == CfoFits /\ FirstTurn /\ ReceiverWaits

LEMMA LengthsInit == Init => Lengths
  <1> SUFFICES ASSUME Init PROVE Lengths
    OBVIOUS
  <1>1. Shapes
    BY ShapesInit
  <1>2. Sfo = <<>> /\ Cfo = <<>> /\ sfo_cfo_buf = <<>>
    BY DEF Init, EstimateInit, Radio, Attached, Sfo, Cfo
  <1>3. CfoFits /\ FirstTurn
    BY <1>2, ConstantsAre DEF CfoFits, FirstTurn
  <1>4. ReceiverWaits
    BY DEF ReceiverWaits, Init, EstimateInit
  <1> QED BY <1>3, <1>4 DEF Lengths

\* A sample is captured: the line grows by one.
LEMMA CaptureIs ==
    ASSUME Shapes, Capture
    PROVE  /\ UNCHANGED <<Sfo, Cfo, Acc, Est, Res>>
           /\ Len(sfo_cfo_buf') = Len(sfo_cfo_buf) + 1
           /\ \A i \in 1..Len(sfo_cfo_buf) : sfo_cfo_buf'[i] = sfo_cfo_buf[i]
           /\ sfo_cfo_buf'[Len(sfo_cfo_buf) + 1] = taking /\ taking' = Res
           /\ \/ Len(sfo_cfo_buf) = 0 /\ CaughtUp /\ stalls' = stalls
              \/ /\ stalls > 0 /\ stalls' = stalls - 1
                 /\ Len(sfo_cfo_buf) + Len(Cfo) < WINDOW
  <1>1. UNCHANGED <<Sfo, Cfo, Acc, Est, Res>>
    BY DEF Capture, samples, estimates, machine, Sfo, Cfo, Acc, Est, Res
  <1>2. sfo_cfo_buf' = Append(sfo_cfo_buf, taking) /\ sfo_cfo_buf \in Seq(Int) /\ taking \in Int
    BY DEF Capture, Shapes
  <1>3. taking' = Res
    BY DEF Capture, Res
  <1>4. CASE CaughtUp /\ UNCHANGED stalls
    BY <1>1, <1>2, <1>3, <1>4, AppendIs DEF CaughtUp
  <1>5. CASE ~CaughtUp /\ stalls > 0 /\ Backlog < MaxBacklog /\ stalls' = stalls - 1
    <2> DEFINE f == [r \in Radio |-> Len(cfo_buf[r])]
    <2>1. f \in [Radio -> Nat]
      BY DEF Shapes
    <2>2. {Len(cfo_buf[r]) : r \in Radio} = {f[r] : r \in Radio}
      OBVIOUS
    <2>3. Attached \in Radio /\ f[Attached] = Len(Cfo)
      BY DEF Radio, Attached, Cfo
    <2> HIDE DEF f
    <2> DEFINE m == Max({f[r] : r \in Radio})
    <2>4. m \in Nat /\ Len(Cfo) <= m
      BY <2>1, <2>3, MaxOfThree
    <2>5. Backlog = Len(sfo_cfo_buf) + m
      BY <2>2 DEF Backlog
    <2> HIDE DEF m
    <2>6. Len(sfo_cfo_buf) + Len(Cfo) < WINDOW
      BY <1>5, <2>4, <2>5, LineIs, ConstantsAre
    <2> QED BY <1>1, <1>2, <1>3, <1>5, <2>6, AppendIs
  <1> QED BY <1>4, <1>5 DEF Capture

LEMMA LengthsCapture ==
    ASSUME Shapes, Lengths, Capture
    PROVE  Lengths'
  <1> DEFINE b == Len(sfo_cfo_buf)
             c == Len(Cfo)
  <1>1. Len(sfo_cfo_buf)' = b + 1 /\ Len(Cfo)' = c /\ Sfo' = Sfo /\ b \in Nat /\ c \in Nat
    BY CaptureIs, LineIs
  <1>2. (b = 0 /\ CaughtUp) \/ b + c < WINDOW
    BY CaptureIs
  <1>3. CaughtUp => ~process_cfo_timer
    BY DEF CaughtUp
  <1>4. UNCHANGED <<role, last, process_sfo_timer, process_cfo_timer, radio_state,
                    most_recent_event>>
    BY DEF Capture, machine
  <1> HIDE DEF b, c
  <1>5. CfoFits'
    <2>1. b + c <= WINDOW /\ (~process_cfo_timer => c < WINDOW)
      BY DEF Lengths, CfoFits, b, c
    <2>2. b + 1 + c <= WINDOW
      BY <1>1, <1>2, <1>3, <2>1, ConstantsAre
    <2> QED BY <1>1, <1>4, <2>1, <2>2 DEF CfoFits
  <1>6. FirstTurn' /\ ReceiverWaits'
    BY <1>1, <1>4 DEF Lengths, FirstTurn, ReceiverWaits, Attached
  <1> QED BY <1>5, <1>6 DEF Lengths

\* The callback moves the samples on; the line stays as long as it was.
LEMMA CallbackIs ==
    ASSUME Shapes, Callback, role = "tx"
    PROVE  /\ Cfo' = Cfo \o sfo_cfo_buf /\ sfo_cfo_buf' = <<>>
           /\ Len(Cfo') = Len(Cfo) + Len(sfo_cfo_buf)
           /\ Len(Sfo') = Len(Sfo) + Len(sfo_cfo_buf) /\ Len(sfo_cfo_buf') = 0
           /\ Len(sfo_cfo_buf) > 0 /\ Idle
           /\ Len(Sfo') >= WINDOW => process_sfo_timer'
           /\ process_sfo_timer => process_sfo_timer'
           /\ process_cfo_timer'
           /\ UNCHANGED <<Acc, Est, Res, taking, last, stalls, polled, news, machine>>
  <1>1. Attached \in Radio /\ Attached \in Injected
    BY DEF Radio, Attached, Injected
  <1>2. Cfo' = Cfo \o sfo_cfo_buf /\ Sfo' = Sfo \o sfo_cfo_buf
    BY <1>1, CallbackFeeds DEF Cfo, Sfo
  <1>3. Len(Cfo') = Len(Cfo) + Len(sfo_cfo_buf) /\ Len(Sfo') = Len(Sfo) + Len(sfo_cfo_buf)
    BY <1>2, LineIs, ConcatIs
  <1>4. sfo_cfo_buf' = <<>> /\ Len(sfo_cfo_buf') = 0
    BY DEF Callback
  <1>5. Len(sfo_cfo_buf) > 0 /\ Idle
    BY LineIs DEF Callback
  <1>6. Len(Sfo') >= WINDOW => process_sfo_timer'
    BY <1>1 DEF Callback, Sfo
  <1>7. (process_sfo_timer => process_sfo_timer') /\ process_cfo_timer'
    BY DEF Callback
  <1>8. UNCHANGED <<Acc, Est, Res, taking, last, stalls, polled, news, machine>>
    BY DEF Callback, estimates, machine, hardware, bounds, Acc, Est, Res
  <1> QED BY <1>2, <1>3, <1>4, <1>5, <1>6, <1>7, <1>8

LEMMA LengthsCallback ==
    ASSUME Shapes, Lengths, Callback
    PROVE  Lengths'
  <1>1. Len(sfo_cfo_buf) \in Nat /\ Len(Cfo) \in Nat /\ WINDOW \in Nat
    BY LineIs, ConstantsAre
  <1>2. ReceiverWaits'
    BY DEF Lengths, ReceiverWaits, Callback, hardware, machine
  <1>3. CASE role = "tx"
    <2>1. Len(Cfo)' = Len(Cfo) + Len(sfo_cfo_buf) /\ Len(sfo_cfo_buf)' = 0
      BY <1>3, CallbackIs
    <2>2. CfoFits'
      <3>1. Len(sfo_cfo_buf) + Len(Cfo) <= WINDOW
        BY DEF Lengths, CfoFits
      <3> QED BY <1>1, <1>3, <2>1, <3>1, CallbackIs DEF CfoFits
    <2>3. FirstTurn'
      BY <1>3, CallbackIs DEF FirstTurn
    <2> QED BY <1>2, <2>2, <2>3 DEF Lengths
  <1>4. CASE role = "rx"
    <2>1. role' = "rx"
      BY <1>4 DEF Callback, hardware
    <2>2. Cfo' = Cfo
      <3>1. Attached \in Radio /\ Attached \notin Injected
        BY <1>4 DEF Radio, Attached, Injected
      <3> QED BY <3>1, CallbackFeeds DEF Cfo
    <2>3. Len(sfo_cfo_buf)' = 0 /\ process_cfo_timer'
      BY DEF Callback
    <2>4. CfoFits'
      BY <1>1, <2>2, <2>3 DEF Lengths, CfoFits
    <2> QED BY <1>2, <2>1, <2>4 DEF Lengths, FirstTurn
  <1> QED BY <1>3, <1>4 DEF Shapes

\* The sfo timer takes a window from the attached radio's queue, or nothing.
SfoTakes == last = Attached /\ Len(Sfo) >= WINDOW

LEMMA SfoTimerIs ==
    ASSUME Shapes, SfoTimer, role = "tx"
    PROVE  /\ Idle /\ process_sfo_timer /\ ~process_cfo_timer
           /\ ~process_sfo_timer' /\ last' = Attached
           /\ SfoTakes => /\ Len(Sfo') = Len(Sfo) - WINDOW /\ ~polled' /\ MayEstimate(Attached)
                          /\ new_sfo' = CountUp(new_sfo) /\ new_sto' = CountUp(new_sto)
           /\ ~SfoTakes => /\ Len(Sfo') = Len(Sfo)
                           /\ polled' = polled /\ new_sfo' = new_sfo /\ new_sto' = new_sto
           /\ new_cfo' = new_cfo
           /\ UNCHANGED <<Cfo, Acc, Est, Res, taking, sfo_cfo_buf, process_cfo_timer, stalls,
                          machine>>
  <1>1. last \in Radio /\ Attached \in Radio /\ Len(Sfo) \in Nat /\ WINDOW \in Nat
    BY LineIs, ConstantsAre DEF Shapes, Radio, Attached
  <1>2. Idle /\ process_sfo_timer /\ ~process_cfo_timer /\ MayEstimate(last)
    BY DEF SfoTimer
  <1>3. ~process_sfo_timer' /\ last' = Attached
    <2>1. Injected \cap {0, 1} = {}
      BY DEF Injected, Attached
    <2> QED BY <2>1, TurnIs DEF SfoTimer, NextIsFull
  <1>4. UNCHANGED <<Cfo, Acc, Est, Res, taking, sfo_cfo_buf, process_cfo_timer, stalls, machine>>
    BY DEF SfoTimer, estimates, machine, hardware, Cfo, Acc, Est, Res
  <1>5. CASE Len(sfo_buf[last]) >= WINDOW
    <2>0. Len(sfo_buf[last]) \in Nat
      BY <1>1 DEF Shapes
    <2>1. CountSfo(last) /\ polled' = (polled /\ last # Attached)
      BY <1>1, <1>5, <2>0 DEF SfoTimer
    <2>2. /\ \A r \in Radio : r # last => sfo_buf'[r] = sfo_buf[r]
          /\ Len(sfo_buf'[last]) = Len(sfo_buf[last]) - WINDOW
          /\ new_sfo' = IF last = Attached THEN CountUp(new_sfo) ELSE new_sfo
          /\ new_sto' = IF last = Attached THEN CountUp(new_sto) ELSE new_sto
          /\ new_cfo' = new_cfo
      BY <1>5, <2>1, CountSfoIs
    <2>3. CASE last = Attached
      <3>1. SfoTakes
        BY <1>5, <2>3 DEF SfoTakes, Sfo
      <3>2. Len(Sfo') = Len(Sfo) - WINDOW
        BY <2>2, <2>3 DEF Sfo
      <3>3. /\ new_sfo' = CountUp(new_sfo) /\ new_sto' = CountUp(new_sto) /\ new_cfo' = new_cfo
            /\ ~polled' /\ MayEstimate(Attached)
        BY <1>2, <2>1, <2>2, <2>3
      <3> QED BY <1>2, <1>3, <1>4, <3>1, <3>2, <3>3
    <2>4. CASE last # Attached
      <3>1. ~SfoTakes
        BY <2>4 DEF SfoTakes
      <3>2. Sfo' = Sfo /\ new_sfo' = new_sfo /\ new_sto' = new_sto /\ new_cfo' = new_cfo
        BY <1>1, <2>2, <2>4 DEF Sfo
      <3>3. polled' = polled
        BY <2>1, <2>4 DEF Shapes
      <3> QED BY <1>2, <1>3, <1>4, <3>1, <3>2, <3>3
    <2> QED BY <2>3, <2>4
  <1>6. CASE ~(Len(sfo_buf[last]) >= WINDOW)
    <2>1. UNCHANGED <<running, sfo_buf, news, polled>>
      BY <1>6 DEF SfoTimer
    <2>2. ~SfoTakes
      BY <1>6 DEF SfoTakes, Sfo
    <2>3. Sfo' = Sfo /\ new_sfo' = new_sfo /\ new_sto' = new_sto /\ new_cfo' = new_cfo
      BY <2>1 DEF Sfo, news
    <2> QED BY <1>2, <1>3, <1>4, <2>1, <2>2, <2>3
  <1> QED BY <1>5, <1>6

LEMMA LengthsSfoTimer ==
    ASSUME Shapes, Lengths, SfoTimer
    PROVE  Lengths'
  <1>1. CfoFits' /\ ReceiverWaits'
    BY DEF Lengths, CfoFits, ReceiverWaits, SfoTimer, hardware, machine, Cfo
  <1>2. FirstTurn'
    <2>1. role = "tx" => last' = Attached
      BY SfoTimerIs
    <2>2. role' = role
      BY DEF SfoTimer, hardware
    <2> QED BY <2>1, <2>2 DEF FirstTurn, Attached
  <1> QED BY <1>1, <1>2 DEF Lengths

\* The cfo timer moves a chunk of the attached radio's queue to its
\* accumulator, or nothing; a full accumulator leaves the line.
LEMMA CfoTimerIs ==
    ASSUME Shapes, CfoTimer
    PROVE  /\ Takes(Attached) => /\ Len(Cfo) >= CHUNK /\ Len(Cfo') = Len(Cfo) - CHUNK
                                 /\ \A i \in 1..(Len(Cfo) - CHUNK) : Cfo'[i] = Cfo[CHUNK + i]
           /\ ~Takes(Attached) => Len(Cfo) < CHUNK /\ Cfo' = Cfo
           /\ Full(Attached) => /\ Takes(Attached) /\ Len(Acc) + CHUNK >= WINDOW
                                /\ Len(Acc') = 0 /\ ~polled' /\ MayEstimate(Attached)
                                /\ Est' \in Measured(Accumulated(Attached))
                                /\ new_cfo' = CountUp(new_cfo)
           /\ ~Full(Attached) => /\ Acc' = Accumulated(Attached) /\ Est' = Est
                                 /\ new_cfo' = new_cfo /\ polled' = polled
           /\ Idle /\ process_cfo_timer /\ ~process_cfo_timer'
           /\ UNCHANGED <<Sfo, Res, taking, sfo_cfo_buf, process_sfo_timer, last, running,
                          stalls, new_sfo, new_sto, machine>>
  <1>1. RunCfo /\ Attached \in Radio
    BY DEF CfoTimer, Radio, Attached
  <1>2. /\ Cfo \in Seq(Int) /\ Acc \in Seq(Int) /\ Len(Cfo) \in Nat /\ Len(Acc) \in Nat
        /\ Len(Acc) < WINDOW /\ CHUNK \in Nat /\ WINDOW \in Nat
    BY LineIs, ConstantsAre
  <1>3. /\ Takes(Attached) <=> Len(Cfo) >= CHUNK
        /\ Full(Attached) <=> Len(Accumulated(Attached)) >= WINDOW
    BY DEF Takes, Full, Cfo
  <1>4. ASSUME Takes(Attached)
        PROVE  /\ Len(Cfo) >= CHUNK /\ Len(Cfo') = Len(Cfo) - CHUNK
               /\ \A i \in 1..(Len(Cfo) - CHUNK) : Cfo'[i] = Cfo[CHUNK + i]
    <2>1. Cfo' = SubSeq(Cfo, CHUNK + 1, Len(Cfo))
      BY <1>1, <1>4 DEF RunCfo, Cfo
    <2>2. CHUNK <= Len(Cfo)
      BY <1>2, <1>3, <1>4
    <2> QED BY <1>2, <2>1, <2>2, CutIs
  <1>5. ~Takes(Attached) => Len(Cfo) < CHUNK /\ Cfo' = Cfo
    BY <1>1, <1>2, <1>3 DEF RunCfo, Cfo
  <1>6. ASSUME Full(Attached)
        PROVE  /\ Takes(Attached) /\ Len(Acc) + CHUNK >= WINDOW
               /\ Len(Acc') = 0 /\ ~polled' /\ MayEstimate(Attached)
               /\ Est' \in Measured(Accumulated(Attached))
               /\ new_cfo' = CountUp(new_cfo)
    <2>1. Takes(Attached)
      BY <1>1, <1>6, RunCfoIs
    <2>2. Len(Accumulated(Attached)) = Len(Acc) + CHUNK
      BY <1>1, <2>1, AccumulatedIs DEF Acc
    <2>3. Acc' = <<>> /\ new_cfo' = CountUp(new_cfo)
      BY <1>1, <1>6 DEF RunCfo, Acc
    <2>4. Est' \in Measured(Accumulated(Attached))
      BY <1>1, <1>6, RunCfoIs DEF Estimates, Est
    <2>5. ~polled' /\ MayEstimate(Attached)
      BY <1>6 DEF CfoTimer
    <2> QED BY <1>3, <1>6, <2>1, <2>2, <2>3, <2>4, <2>5
  <1>7. ASSUME ~Full(Attached)
        PROVE  /\ Acc' = Accumulated(Attached) /\ Est' = Est
               /\ new_cfo' = new_cfo /\ polled' = polled
    <2>1. Acc' = Accumulated(Attached) /\ new_cfo' = new_cfo
      BY <1>1, <1>7 DEF RunCfo, Acc
    <2>2. Est' = Est
      BY <1>1, <1>7, RunCfoIs DEF Estimates, Est
    <2>3. polled' = polled
      BY <1>7 DEF CfoTimer, Shapes
    <2> QED BY <2>1, <2>2, <2>3
  <1>8. /\ Idle /\ process_cfo_timer /\ ~process_cfo_timer'
        /\ UNCHANGED <<Sfo, Res, taking, sfo_cfo_buf, process_sfo_timer, last, running,
                       stalls, new_sfo, new_sto, machine>>
    BY <1>1 DEF CfoTimer, RunCfo, hardware, machine, Sfo, Res
  <1> QED BY <1>4, <1>5, <1>6, <1>7, <1>8

LEMMA LengthsCfoTimer ==
    ASSUME Shapes, Lengths, CfoTimer
    PROVE  Lengths'
  <1>1. /\ Len(sfo_cfo_buf) \in Nat /\ Len(Cfo) \in Nat /\ WINDOW \in Nat
        /\ CHUNK \in Nat \ {0} /\ CHUNK <= WINDOW
    BY LineIs, ConstantsAre
  <1>2. UNCHANGED <<role, Sfo, sfo_cfo_buf, process_sfo_timer, last, radio_state,
                    most_recent_event>>
    BY CfoTimerIs DEF CfoTimer, hardware, machine
  <1>3. CfoFits'
    <2>1. Len(Cfo)' <= Len(Cfo) /\ Len(Cfo)' < WINDOW /\ Len(Cfo)' \in Nat
      <3>1. Len(Cfo) <= WINDOW
        BY <1>1 DEF Lengths, CfoFits
      <3>2. Takes(Attached) => Len(Cfo) >= CHUNK /\ Len(Cfo)' = Len(Cfo) - CHUNK
        BY CfoTimerIs
      <3>3. ~Takes(Attached) => Len(Cfo) < CHUNK /\ Len(Cfo)' = Len(Cfo)
        BY CfoTimerIs
      <3> QED BY <1>1, <3>1, <3>2, <3>3
    <2>2. Len(sfo_cfo_buf) + Len(Cfo) <= WINDOW
      BY DEF Lengths, CfoFits
    <2> QED BY <1>1, <1>2, <2>1, <2>2 DEF CfoFits
  <1>4. FirstTurn' /\ ReceiverWaits'
    BY <1>2 DEF Lengths, FirstTurn, ReceiverWaits, Attached
  <1> QED BY <1>3, <1>4 DEF Lengths

\* The other steps leave the line alone.
LEMMA LengthsRest ==
    ASSUME Shapes, Lengths, SfoWrites \/ Event \/ Tick \/ UNCHANGED vars
    PROVE  Lengths'
  <1>1. UNCHANGED <<role, Sfo, Cfo, sfo_cfo_buf, process_sfo_timer, process_cfo_timer, last>>
    BY DEF SfoWrites, Event, Tick, vars, samples, hardware, thread, Sfo, Cfo
  <1>2. CfoFits' /\ FirstTurn'
    BY <1>1 DEF Lengths, CfoFits, FirstTurn, Attached
  <1>3. ReceiverWaits'
    <2>1. CASE SfoWrites \/ UNCHANGED vars
      BY <2>1 DEF Lengths, ReceiverWaits, SfoWrites, vars, machine, hardware
    <2>2. CASE Event
      BY <2>2 DEF ReceiverWaits, Event, hardware
    <2>3. CASE Tick
      <3>1. role = "rx" => radio_state = "DID_BOOT" /\ most_recent_event = "none"
        BY DEF Lengths, ReceiverWaits
      <3>2. ~(radio_state = "DID_BOOT" /\ most_recent_event = "none")
        BY <2>3 DEF Tick, TickLocalFsm, TickDidBoot, TickPreSfo, TickSfo, TickSto, TickStoEq,
                    TickCfo, TickBackground, TickReFineSync, TickWaits
      <3> QED BY <1>1, <3>1, <3>2 DEF ReceiverWaits
    <2> QED BY <2>1, <2>2, <2>3
  <1> QED BY <1>2, <1>3 DEF Lengths

LEMMA LengthsNext ==
    ASSUME Shapes, Lengths, [Next]_vars
    PROVE  Lengths'
BY LengthsCapture, LengthsCallback, LengthsSfoTimer, LengthsCfoTimer, LengthsRest DEF Next

-----------------------------------------------------------------------------
(* The newest samples of the line.                                         *)

\* The newest f samples of a line that show up in q all show x, when the line
\* has b samples that are newer than those of q.
Shows(q, b, f, x) == \A i \in 1..Len(q) : b + Len(q) + 1 - i <= f => q[i] = x

LEMMA ShowsConcat ==
    ASSUME NEW s \in Seq(Int), NEW t \in Seq(Int), NEW b \in Nat, NEW f \in Nat, NEW x \in Int,
           Shows(s, b + Len(t), f, x), Shows(t, b, f, x)
    PROVE  Shows(s \o t, b, f, x)
  <1>1. Len(s) \in Nat /\ Len(t) \in Nat
    OBVIOUS
  <1>2. /\ Len(s \o t) = Len(s) + Len(t)
        /\ \A i \in 1..Len(s) : (s \o t)[i] = s[i]
        /\ \A i \in (Len(s) + 1)..(Len(s) + Len(t)) : (s \o t)[i] = t[i - Len(s)]
    BY ConcatIs
  <1>3. ASSUME NEW i \in 1..(Len(s) + Len(t)), b + (Len(s) + Len(t)) + 1 - i <= f
        PROVE  (s \o t)[i] = x
    <2>1. CASE i \in 1..Len(s)
      <3>1. b + Len(t) + Len(s) + 1 - i <= f
        BY <1>1, <1>3
      <3> QED BY <1>2, <2>1, <3>1 DEF Shows
    <2>2. CASE i \in (Len(s) + 1)..(Len(s) + Len(t))
      <3>1. i - Len(s) \in 1..Len(t) /\ b + Len(t) + 1 - (i - Len(s)) <= f
        BY <1>1, <1>3, <2>2
      <3> QED BY <1>2, <2>2, <3>1 DEF Shows
    <2> QED BY <1>1, <1>3, <2>1, <2>2
  <1> QED BY <1>2, <1>3 DEF Shows

LEMMA ShowsCut ==
    ASSUME NEW s \in Seq(Int), NEW t \in Seq(Int), NEW n \in Nat, n <= Len(s),
           Len(t) = Len(s) - n, \A i \in 1..(Len(s) - n) : t[i] = s[n + i],
           NEW b \in Nat, NEW f \in Nat, NEW x \in Int, Shows(s, b, f, x)
    PROVE  Shows(t, b, f, x)
  <1>1. Len(s) \in Nat
    OBVIOUS
  <1>2. ASSUME NEW i \in 1..(Len(s) - n), b + (Len(s) - n) + 1 - i <= f
        PROVE  t[i] = x
    <2>1. n + i \in 1..Len(s) /\ b + Len(s) + 1 - (n + i) <= f
      BY <1>1, <1>2
    <2>2. s[n + i] = x
      BY <2>1 DEF Shows
    <2> QED BY <2>2
  <1> QED BY <1>2 DEF Shows

\* One more sample at the end of the line makes all others older.
LEMMA ShowsShift ==
    ASSUME NEW s \in Seq(Int), NEW b \in Nat, NEW f \in Nat, NEW x \in Int, Shows(s, b, f, x)
    PROVE  Shows(s, b + 1, f + 1, x)
  <1>1. Len(s) \in Nat
    OBVIOUS
  <1>2. ASSUME NEW i \in 1..Len(s), b + 1 + Len(s) + 1 - i <= f + 1
        PROVE  s[i] = x
    <2>1. b + Len(s) + 1 - i <= f
      BY <1>1, <1>2
    <2> QED BY <2>1 DEF Shows
  <1> QED BY <1>2 DEF Shows

LEMMA ShowsNone ==
    ASSUME NEW s \in Seq(Int), NEW b \in Nat, NEW x \in Int
    PROVE  Shows(s, b, 0, x)
  <1>1. Len(s) \in Nat
    OBVIOUS
  <1> QED BY <1>1 DEF Shows

\* When all of the line is new, all of q shows x.
LEMMA ShowsAll ==
    ASSUME NEW s \in Seq(Int), NEW b \in Nat, NEW f \in Nat, NEW x \in Int, Shows(s, b, f, x),
           b + Len(s) <= f
    PROVE  \A i \in 1..Len(s) : s[i] = x
  <1>1. Len(s) \in Nat
    OBVIOUS
  <1>2. ASSUME NEW i \in 1..Len(s) PROVE b + Len(s) + 1 - i <= f
    BY <1>1
  <1> QED BY <1>2 DEF Shows

\* The newest f samples of the line, the one being taken first, show what is
\* left to correct.
Fresh(f) ==
    /\ f >= 1 => taking = Res
    /\ Shows(sfo_cfo_buf, 1, f, Res)
    /\ Shows(Cfo, Behind, f, Res)
    /\ Shows(Acc, Behind + Len(Cfo), f, Res)

LEMMA FreshNone ==
    ASSUME Shapes
    PROVE  Fresh(0)
  <1>1. Behind + Len(Cfo) \in Nat /\ Behind \in Nat
    BY LineIs
  <1> QED BY <1>1, LineIs, ShowsNone DEF Fresh

\* After a correction no sample need be fresh.
LEMMA FreshNoneAfter ==
    ASSUME Shapes'
    PROVE  Fresh(0)'
  <1>1. /\ Sfo' \in Seq(Int) /\ Cfo' \in Seq(Int) /\ Acc' \in Seq(Int) /\ sfo_cfo_buf' \in Seq(Int)
        /\ Res' \in Int
    BY DEF Shapes, Radio, Attached, Sfo, Cfo, Acc, Res
  <1>2. Len(sfo_cfo_buf') \in Nat /\ Len(Cfo') \in Nat
    BY <1>1
  <1>3. Behind' \in Nat /\ Behind' + Len(Cfo') \in Nat
    BY <1>2 DEF Behind
  <1>4. Shows(sfo_cfo_buf', 1, 0, Res') /\ Shows(Cfo', Behind', 0, Res')
        /\ Shows(Acc', Behind' + Len(Cfo'), 0, Res')
    BY <1>1, <1>3, ShowsNone
  <1> QED BY <1>4 DEF Fresh

\* A step that leaves the line and the correction alone.
LEMMA FreshStutters ==
    ASSUME NEW f, Fresh(f), UNCHANGED <<taking, sfo_cfo_buf, Cfo, Acc, Res>>
    PROVE  Fresh(f)'
BY DEF Fresh, Shows, Behind

LEMMA FreshCapture ==
    ASSUME Shapes, Capture, NEW f \in Nat, Fresh(f)
    PROVE  Fresh(f + 1)'
  <1> DEFINE s == sfo_cfo_buf
             t == sfo_cfo_buf'
             b == Behind
             d == Behind + Len(Cfo)
  <1>1. UNCHANGED <<Cfo, Acc, Res>> /\ Behind' = b + 1 /\ taking' = Res
    BY CaptureIs, LineIs DEF Behind
  <1>2. /\ b \in Nat /\ d \in Nat /\ Cfo \in Seq(Int) /\ Acc \in Seq(Int) /\ Res \in Int
        /\ Behind' + Len(Cfo) = d + 1
    <2>1. /\ Behind \in Nat /\ Len(Cfo) \in Nat /\ Cfo \in Seq(Int) /\ Acc \in Seq(Int)
          /\ Res \in Int
      BY LineIs
    <2>2. Behind' = Behind + 1
      BY <1>1
    <2> QED BY <2>1, <2>2
  <1>3. Shows(Cfo, b, f, Res) /\ Shows(Acc, d, f, Res)
    BY DEF Fresh
  <1> HIDE DEF b, d
  <1>4. Shows(Cfo, b + 1, f + 1, Res) /\ Shows(Acc, d + 1, f + 1, Res)
    BY <1>2, <1>3, ShowsShift
  <1>5. Shows(t, 1, f + 1, Res)
    <2>1. /\ s \in Seq(Int) /\ Len(s) \in Nat /\ Len(t) = Len(s) + 1
          /\ \A i \in 1..Len(s) : t[i] = s[i]
          /\ t[Len(s) + 1] = taking
      BY CaptureIs, LineIs
    <2>2. (f >= 1 => taking = Res) /\ Shows(s, 1, f, Res)
      BY DEF Fresh
    <2> HIDE DEF s, t
    <2>3. ASSUME NEW i \in 1..(Len(s) + 1), 1 + (Len(s) + 1) + 1 - i <= f + 1
          PROVE  t[i] = Res
      <3>1. CASE i \in 1..Len(s)
        <4>1. 1 + Len(s) + 1 - i <= f
          BY <2>1, <2>3
        <4>2. s[i] = Res
          BY <2>2, <3>1, <4>1 DEF Shows
        <4> QED BY <2>1, <3>1, <4>2
      <3>2. CASE i = Len(s) + 1
        <4>1. f >= 1
          BY <2>1, <2>3, <3>2
        <4> QED BY <2>1, <2>2, <3>2, <4>1
      <3> QED BY <2>1, <2>3, <3>1, <3>2
    <2> QED BY <2>1, <2>3 DEF Shows
  <1>6. Shows(sfo_cfo_buf', 1, f + 1, Res')
    BY <1>1, <1>5 DEF t
  <1>7. Shows(Cfo', Behind', f + 1, Res')
    BY <1>1, <1>4
  <1>8. Shows(Acc', Behind' + Len(Cfo'), f + 1, Res')
    BY <1>1, <1>2, <1>4
  <1> QED BY <1>1, <1>6, <1>7, <1>8 DEF Fresh

LEMMA FreshCallback ==
    ASSUME Shapes, Callback, role = "tx", NEW f \in Nat, Fresh(f)
    PROVE  Fresh(f)'
  <1>1. /\ Cfo' = Cfo \o sfo_cfo_buf /\ sfo_cfo_buf' = <<>> /\ Len(sfo_cfo_buf') = 0
        /\ Len(Cfo') = Len(Cfo) + Len(sfo_cfo_buf)
        /\ UNCHANGED <<Acc, Res, taking>>
    BY CallbackIs
  <1>2. /\ Cfo \in Seq(Int) /\ sfo_cfo_buf \in Seq(Int) /\ Res \in Int
        /\ Len(Cfo) \in Nat /\ Len(sfo_cfo_buf) \in Nat
    BY LineIs
  <1>3. Behind = 1 + Len(sfo_cfo_buf) /\ Behind' = 1
    BY <1>1, <1>2 DEF Behind
  <1>4. Shows(Cfo \o sfo_cfo_buf, 1, f, Res)
    <2>1. Shows(Cfo, 1 + Len(sfo_cfo_buf), f, Res) /\ Shows(sfo_cfo_buf, 1, f, Res)
      BY <1>3 DEF Fresh
    <2> QED BY <1>2, <2>1, ShowsConcat
  <1>5. Shows(Cfo', Behind', f, Res')
    BY <1>1, <1>3, <1>4
  <1>6. Shows(sfo_cfo_buf', 1, f, Res')
    BY <1>1 DEF Shows
  <1>7. Shows(Acc', Behind' + Len(Cfo'), f, Res')
    <2>1. Behind' + Len(Cfo') = Behind + Len(Cfo)
      BY <1>1, <1>2, <1>3
    <2> QED BY <1>1, <2>1 DEF Fresh
  <1>8. f >= 1 => taking' = Res'
    BY <1>1 DEF Fresh
  <1> QED BY <1>5, <1>6, <1>7, <1>8 DEF Fresh

\* What the cfo timer finds in the accumulator is the end of the line.
LEMMA FreshAccumulated ==
    ASSUME Shapes, NEW f \in Nat, Fresh(f)
    PROVE  Shows(Accumulated(Attached),
                 Behind + (IF Takes(Attached) THEN Len(Cfo) - CHUNK ELSE Len(Cfo)), f, Res)
  <1> DEFINE a == Accumulated(Attached)
  <1>1. /\ Cfo \in Seq(Int) /\ Acc \in Seq(Int) /\ Res \in Int /\ Behind \in Nat
        /\ Len(Cfo) \in Nat /\ Len(Acc) \in Nat /\ CHUNK \in Nat
    BY LineIs, ConstantsAre
  <1>2. Shows(Cfo, Behind, f, Res) /\ Shows(Acc, Behind + Len(Cfo), f, Res)
    BY DEF Fresh
  <1>3. Attached \in Radio
    BY DEF Radio, Attached
  <1>4. CASE Takes(Attached)
    <2>1. CHUNK <= Len(Cfo)
      BY <1>4 DEF Takes, Cfo
    <2>2. /\ Len(a) = Len(Acc) + CHUNK
          /\ \A i \in 1..Len(Acc) : a[i] = Acc[i]
          /\ \A i \in 1..CHUNK : a[Len(Acc) + i] = Cfo[i]
      BY <1>3, <1>4, AccumulatedIs DEF Acc, Cfo
    <2> HIDE DEF a
    <2>3. ASSUME NEW i \in 1..(Len(Acc) + CHUNK),
                 Behind + (Len(Cfo) - CHUNK) + (Len(Acc) + CHUNK) + 1 - i <= f
          PROVE  a[i] = Res
      <3>1. CASE i \in 1..Len(Acc)
        <4>1. Behind + Len(Cfo) + Len(Acc) + 1 - i <= f
          BY <1>1, <2>3
        <4> QED BY <1>2, <2>2, <3>1, <4>1 DEF Shows
      <3>2. CASE i \in (Len(Acc) + 1)..(Len(Acc) + CHUNK)
        <4> DEFINE k == i - Len(Acc)
        <4>1. k \in 1..CHUNK /\ k \in 1..Len(Cfo) /\ Behind + Len(Cfo) + 1 - k <= f /\ i = Len(Acc) + k
          BY <1>1, <2>1, <2>3, <3>2
        <4> HIDE DEF k
        <4>2. Cfo[k] = Res
          BY <1>2, <4>1 DEF Shows
        <4> QED BY <2>2, <4>1, <4>2
      <3> QED BY <1>1, <2>3, <3>1, <3>2
    <2>4. Shows(a, Behind + (Len(Cfo) - CHUNK), f, Res)
      BY <2>2, <2>3 DEF Shows
    <2> QED BY <1>4, <2>4 DEF a
  <1>5. CASE ~Takes(Attached)
    <2>1. a = Acc
      BY <1>3, <1>5, AccumulatedIs DEF Acc
    <2> QED BY <1>2, <1>5, <2>1
  <1> QED BY <1>4, <1>5

LEMMA FreshCfoTimer ==
    ASSUME Shapes, CfoTimer, NEW f \in Nat, Fresh(f)
    PROVE  Fresh(f)'
  <1>1. /\ Cfo \in Seq(Int) /\ Acc \in Seq(Int) /\ Res \in Int /\ Behind \in Nat
        /\ Len(Cfo) \in Nat /\ CHUNK \in Nat
    BY LineIs, ConstantsAre
  <1>2. UNCHANGED <<Res, taking, sfo_cfo_buf, Behind>>
    BY CfoTimerIs DEF Behind
  <1>3. Shows(Cfo, Behind, f, Res)
    BY DEF Fresh
  <1>4. Shows(Cfo', Behind, f, Res)
    <2>1. CASE Takes(Attached)
      <3>1. /\ CHUNK <= Len(Cfo) /\ Len(Cfo') = Len(Cfo) - CHUNK
            /\ \A i \in 1..(Len(Cfo) - CHUNK) : Cfo'[i] = Cfo[CHUNK + i]
        BY <1>1, <2>1, CfoTimerIs
      <3>2. Cfo' \in Seq(Int)
        BY ShapesCfoTimer DEF Shapes, Cfo, Radio, Attached
      <3> QED BY <1>1, <1>3, <3>1, <3>2, ShowsCut
    <2>2. CASE ~Takes(Attached)
      BY <1>3, <2>2, CfoTimerIs
    <2> QED BY <2>1, <2>2
  <1>5. Shows(Acc', Behind + Len(Cfo'), f, Res)
    <2>1. CASE Full(Attached)
      <3>1. Len(Acc') = 0
        BY <2>1, CfoTimerIs
      <3> QED BY <3>1 DEF Shows
    <2>2. CASE ~Full(Attached)
      <3>1. Acc' = Accumulated(Attached)
        BY <2>2, CfoTimerIs
      <3>2. Len(Cfo') = IF Takes(Attached) THEN Len(Cfo) - CHUNK ELSE Len(Cfo)
        BY CfoTimerIs
      <3> QED BY <3>1, <3>2, FreshAccumulated
    <2> QED BY <2>1, <2>2
  <1> QED BY <1>2, <1>4, <1>5 DEF Fresh

\* An estimate over fresh samples is what is left to correct.
LEMMA FreshEstimate ==
    ASSUME Shapes, CfoTimer, Full(Attached), NEW f \in Nat, Fresh(f), InLine <= f
    PROVE  Est' = Res
  <1> DEFINE a == Accumulated(Attached)
             b == Behind + (Len(Cfo) - CHUNK)
  <1>1. /\ Res \in Int /\ Behind \in Nat /\ Len(Cfo) \in Nat /\ Len(Acc) \in Nat
        /\ CHUNK \in Nat /\ WINDOW \in Nat \ {0} /\ Attached \in Radio
    BY LineIs, ConstantsAre DEF Radio, Attached
  <1>2. Takes(Attached) /\ CHUNK <= Len(Cfo) /\ Est' \in Measured(a)
    BY <1>1, CfoTimerIs
  <1>3. a \in Seq(Int) /\ Len(a) = Len(Acc) + CHUNK /\ Len(a) >= WINDOW
    BY <1>1, <1>2, AccumulatedIs DEF Acc, Full
  <1>4. Shows(a, b, f, Res)
    BY <1>2, FreshAccumulated
  <1>5. b \in Nat /\ b + Len(a) <= f
    BY <1>1, <1>2, <1>3 DEF InLine, Held
  <1> HIDE DEF a, b
  <1>6. \A i \in 1..Len(a) : a[i] = Res
    BY <1>1, <1>3, <1>4, <1>5, ShowsAll
  <1>7. Len(a) > 0
    BY <1>1, <1>3
  <1>8. Measured(a) = {Res}
    BY <1>1, <1>3, <1>6, <1>7, MeasuredIs
  <1> QED BY <1>2, <1>8

-----------------------------------------------------------------------------
(* How much of the line is old, by what the machine has seen.              *)

BeforeCfo == {"DID_BOOT", "PRE_SFO_STATE_0", "SFO_STATE_0", "STO_0", "STO_EQ_0"}

\* Up to CFO_0 at most a window of the line is old.  A correction makes all of
\* it old, but then both estimates are those that were corrected: the machine
\* stays in SFO_STATE_0 until the sfo's is a copy of a new one, and that has
\* taken a window out of the line.
SfoAge(f) ==
    radio_state \in BeforeCfo =>
        \/ InLine <= f + WINDOW
        \/ radio_state = "SFO_STATE_0" /\ Est # 0 /\ SfoFails

\* In CFO_0 the first estimate takes the old samples out of the line, and the
\* second is what is left to correct.
CfoAge(f) ==
    radio_state = "CFO_0" =>
        /\ new_cfo \in 0..2
        /\ new_cfo = 0 => InLine <= f + WINDOW
        /\ new_cfo > 0 => InLine <= f
        /\ new_cfo = 2 => ~polled /\ Est = Res /\ InLine <= WINDOW

\* After it nothing is left to correct, and no estimate will say otherwise.
LockedAge(f) ==
    radio_state \in {"BACKGROUND_SYNC", "RE_FINESYNC"} => Res = 0 /\ Est = 0 /\ InLine <= f

AgesOf(f) == SfoAge(f) /\ CfoAge(f) /\ LockedAge(f)
AgesHold == role = "tx" => \E f \in Nat : Fresh(f) /\ AgesOf(f)

LEMMA AgesInit == Init => AgesHold
  <1> SUFFICES ASSUME Init PROVE AgesHold
    OBVIOUS
  <1>1. Shapes /\ radio_state = "DID_BOOT"
    BY ShapesInit DEF Init, EstimateInit
  <1>2. sfo_cfo_buf = <<>> /\ Cfo = <<>> /\ Acc = <<>>
    BY DEF Init, EstimateInit, Radio, Attached, Cfo, Acc
  <1>3. InLine = 1 /\ WINDOW \in Nat \ {0}
    BY <1>2, ConstantsAre DEF InLine, Held, Behind
  <1>4. AgesOf(0)
    BY <1>1, <1>3 DEF AgesOf, SfoAge, CfoAge, LockedAge
  <1> QED BY <1>1, <1>4, FreshNone DEF AgesHold

\* A step that changes nothing the ages speak of.
LEMMA AgesSame ==
    ASSUME NEW f \in Nat, AgesOf(f),
           UNCHANGED <<InLine, Est, Res, new_cfo, radio_state, sfo_estimated>>, polled' => polled
    PROVE  AgesOf(f)'
  <1>1. SfoAge(f)'
    BY DEF AgesOf, SfoAge, SfoFails
  <1>2. CfoAge(f)' /\ LockedAge(f)'
    BY DEF AgesOf, CfoAge, LockedAge
  <1> QED BY <1>1, <1>2 DEF AgesOf

LEMMA AgesCapture ==
    ASSUME Shapes, NEW f \in Nat, Fresh(f), AgesOf(f), Capture
    PROVE  Fresh(f + 1)' /\ AgesOf(f + 1)'
  <1>1. Fresh(f + 1)'
    BY FreshCapture
  <1>2. InLine' = InLine + 1
    <2>1. Len(sfo_cfo_buf)' = Len(sfo_cfo_buf) + 1 /\ UNCHANGED <<Cfo, Acc>>
      BY CaptureIs
    <2>2. Len(Cfo) \in Nat /\ Len(Acc) \in Nat /\ Len(sfo_cfo_buf) \in Nat
      BY LineIs
    <2> QED BY <2>1, <2>2 DEF InLine, Held, Behind
  <1>3. UNCHANGED <<Res, Est, new_cfo, radio_state, polled, sfo_estimated>>
    BY CaptureIs DEF Capture, news, machine, estimates
  <1>4. InLine \in Nat /\ WINDOW \in Nat
    BY LineIs, ConstantsAre
  <1>5. SfoAge(f + 1)'
    <2>1. SfoFails' = SfoFails
      BY <1>3 DEF SfoFails
    <2> QED BY <1>2, <1>3, <1>4, <2>1 DEF AgesOf, SfoAge
  <1>6. CfoAge(f + 1)'
    <2>1. radio_state = "CFO_0" => new_cfo # 2
      BY DEF AgesOf, CfoAge, Capture, Polling
    <2>2. radio_state = "CFO_0" => /\ new_cfo \in 0..2
                                   /\ new_cfo = 0 => InLine <= f + WINDOW
                                   /\ new_cfo > 0 => InLine <= f
      BY DEF AgesOf, CfoAge
    <2> QED BY <1>2, <1>3, <1>4, <2>1, <2>2 DEF CfoAge
  <1>7. LockedAge(f + 1)'
    BY <1>2, <1>3, <1>4 DEF AgesOf, LockedAge
  <1> QED BY <1>1, <1>5, <1>6, <1>7 DEF AgesOf

LEMMA AgesCallback ==
    ASSUME Shapes, NEW f \in Nat, Fresh(f), AgesOf(f), Callback, role = "tx"
    PROVE  Fresh(f)' /\ AgesOf(f)'
  <1>1. Fresh(f)'
    BY FreshCallback
  <1>2. InLine' = InLine
    <2>1. Len(Cfo)' = Len(Cfo) + Len(sfo_cfo_buf) /\ Len(sfo_cfo_buf)' = 0 /\ Acc' = Acc
      BY CallbackIs
    <2>2. Len(Cfo) \in Nat /\ Len(Acc) \in Nat /\ Len(sfo_cfo_buf) \in Nat
      BY LineIs
    <2> QED BY <2>1, <2>2 DEF InLine, Held, Behind
  <1>3. UNCHANGED <<Res, Est, new_cfo, radio_state, polled, sfo_estimated>>
    BY CallbackIs DEF Callback, news, machine, estimates
  <1> QED BY <1>1, <1>2, <1>3, AgesSame

LEMMA AgesSfoTimer ==
    ASSUME Shapes, NEW f \in Nat, Fresh(f), AgesOf(f), SfoTimer, role = "tx"
    PROVE  Fresh(f)' /\ AgesOf(f)'
  <1>1. /\ UNCHANGED <<Cfo, Acc, Est, Res, taking, sfo_cfo_buf, machine>> /\ new_cfo' = new_cfo
        /\ polled' => polled
    BY SfoTimerIs
  <1>2. Fresh(f)'
    BY <1>1, FreshStutters
  <1>3. UNCHANGED <<InLine, radio_state, sfo_estimated>>
    BY <1>1 DEF InLine, Held, Behind, machine, SfoTimer, estimates
  <1> QED BY <1>1, <1>2, <1>3, AgesSame

\* The copy of an estimate that is not 0 is not 0.
LEMMA AgesSfoWrites ==
    ASSUME Shapes, NEW f \in Nat, Fresh(f), AgesOf(f), SfoWrites
    PROVE  Fresh(f)' /\ AgesOf(f)'
  <1>1. \E illegal \in BOOLEAN : WriteSfo(running, illegal)
    BY DEF SfoWrites
  <1>2. /\ UNCHANGED <<taking, sfo_cfo_buf, Cfo, Acc, Est, Res, InLine, new_cfo, radio_state>>
        /\ polled' = polled
    BY <1>1 DEF SfoWrites, WriteSfo, samples, news, machine, hardware, Cfo, Acc, Est, Res, InLine,
                Held, Behind
  <1>3. Fresh(f)'
    BY <1>2, FreshStutters
  <1>4. SfoFails /\ Est # 0 => SfoFails'
    <2>1. sfo_estimated' = [sfo_estimated EXCEPT ![running] = cfo_estimated[running]]
      BY <1>1 DEF WriteSfo
    <2>2. sfo_estimated \in [Radio -> Int] /\ Attached \in Radio
      BY DEF Shapes, Radio, Attached
    <2> QED BY <2>1, <2>2 DEF SfoFails, Est
  <1>5. SfoAge(f)'
    BY <1>2, <1>4 DEF AgesOf, SfoAge
  <1>6. CfoAge(f)' /\ LockedAge(f)'
    BY <1>2 DEF AgesOf, CfoAge, LockedAge
  <1> QED BY <1>3, <1>5, <1>6 DEF AgesOf

\* As long as the accumulator is not full the chunk stays in the line.
LEMMA CfoTimerHolds ==
    ASSUME Shapes, CfoTimer, ~Full(Attached)
    PROVE  Held' = Held
  <1>1. Acc' = Accumulated(Attached) /\ Attached \in Radio
    BY CfoTimerIs DEF Radio, Attached
  <1>2. Len(Acc) \in Nat /\ Len(Cfo) \in Nat /\ CHUNK \in Nat
    BY LineIs, ConstantsAre
  <1>3. CASE Takes(Attached)
    <2>1. Len(Acc)' = Len(Acc) + CHUNK
      BY <1>1, <1>3, AccumulatedIs DEF Acc
    <2>2. Len(Cfo)' = Len(Cfo) - CHUNK
      BY <1>3, CfoTimerIs
    <2> QED BY <1>2, <2>1, <2>2 DEF Held
  <1>4. CASE ~Takes(Attached)
    <2>1. Acc' = Acc
      BY <1>1, <1>4, AccumulatedIs DEF Acc
    <2>2. Cfo' = Cfo
      BY <1>4, CfoTimerIs
    <2> QED BY <2>1, <2>2 DEF Held
  <1> QED BY <1>3, <1>4

LEMMA AgesCfoTimer ==
    ASSUME Shapes, Lengths, NEW f \in Nat, Fresh(f), AgesOf(f), CfoTimer
    PROVE  Fresh(f)' /\ AgesOf(f)'
  <1>1. Fresh(f)'
    BY FreshCfoTimer
  <1>2. UNCHANGED <<Res, sfo_cfo_buf, radio_state, sfo_estimated>>
    BY CfoTimerIs DEF CfoTimer, RunCfo, machine
  <1>3. /\ Len(Acc) \in Nat /\ Len(Cfo) \in Nat /\ Len(sfo_cfo_buf) \in Nat
        /\ CHUNK \in Nat \ {0} /\ WINDOW \in Nat \ {0}
        /\ Held = Len(Acc) + Len(Cfo) /\ Behind = Len(sfo_cfo_buf) + 1 /\ InLine = Held + Behind
    BY LineIs, ConstantsAre DEF Held, Behind, InLine
  <1>4. CASE ~Full(Attached)
    <2>1. UNCHANGED <<Est, new_cfo, polled>>
      BY <1>4, CfoTimerIs
    <2>2. InLine' = InLine
      BY <1>2, <1>4, CfoTimerHolds DEF InLine, Behind
    <2> QED BY <1>1, <1>2, <2>1, <2>2, AgesSame
  <1>5. CASE Full(Attached)
    <2>1. /\ Len(Cfo) >= CHUNK /\ Len(Cfo)' = Len(Cfo) - CHUNK /\ Len(Acc) + CHUNK >= WINDOW
          /\ Len(Acc)' = 0 /\ ~polled' /\ MayEstimate(Attached) /\ new_cfo' = CountUp(new_cfo)
      BY <1>5, CfoTimerIs
    <2>2. InLine' = Len(Cfo)' + Len(sfo_cfo_buf) + 1
      <3>1. Held' = Len(Cfo)' /\ Behind' = Len(sfo_cfo_buf) + 1
        BY <1>2, <1>3, <2>1 DEF Held, Behind
      <3> QED BY <1>3, <2>1, <3>1 DEF InLine
    <2>3. InLine' + WINDOW <= InLine /\ InLine' \in Nat /\ InLine \in Nat
      BY <1>3, <2>1, <2>2
    <2>4. InLine' <= WINDOW
      <3>1. Len(sfo_cfo_buf) + Len(Cfo) <= WINDOW
        BY DEF Lengths, CfoFits
      <3> QED BY <1>3, <2>1, <2>2, <3>1
    <2>5. InLine <= f => Est' = Res
      BY <1>5, FreshEstimate
    <2>6. SfoAge(f)'
      <3>1. InLine' <= f + WINDOW
        BY <1>3, <2>3, <2>4
      <3> QED BY <3>1 DEF SfoAge
    <2>7. CfoAge(f)'
      <3>1. SUFFICES ASSUME radio_state = "CFO_0"
                     PROVE  /\ new_cfo' \in 0..2
                            /\ new_cfo' = 0 => InLine' <= f + WINDOW
                            /\ new_cfo' > 0 => InLine' <= f
                            /\ new_cfo' = 2 => ~polled' /\ Est' = Res' /\ InLine' <= WINDOW
        BY <1>2 DEF CfoAge
      <3>2. polled
        BY <2>1, <3>1 DEF MayEstimate
      <3>3. new_cfo \in 0..1 /\ (new_cfo = 0 => InLine <= f + WINDOW) /\ (new_cfo = 1 => InLine <= f)
        BY <3>1, <3>2 DEF AgesOf, CfoAge
      <3>4. new_cfo' = new_cfo + 1
        BY <2>1, <3>3, CountUpIs
      <3>5. new_cfo' = 2 => Est' = Res'
        BY <1>2, <2>5, <3>3, <3>4
      <3>6. InLine' <= f
        BY <1>3, <2>3, <3>3
      <3> QED BY <2>1, <2>4, <3>3, <3>4, <3>5, <3>6
    <2>8. LockedAge(f)'
      <3>1. SUFFICES ASSUME radio_state \in {"BACKGROUND_SYNC", "RE_FINESYNC"}
                     PROVE  Res' = 0 /\ Est' = 0 /\ InLine' <= f
        BY <1>2 DEF LockedAge
      <3>2. Res = 0 /\ InLine <= f
        BY <3>1 DEF AgesOf, LockedAge
      <3> QED BY <1>2, <1>3, <2>3, <2>5, <3>2
    <2> QED BY <1>1, <2>6, <2>7, <2>8 DEF AgesOf
  <1> QED BY <1>4, <1>5

\* A tick leaves the line alone.
LEMMA TickIs ==
    ASSUME Tick
    PROVE  /\ UNCHANGED <<taking, sfo_cfo_buf, Sfo, Cfo, Acc, Est, InLine, sfo_estimated>>
           /\ cfo_estimated_sent' = cfo_estimated_sent => Res' = Res
BY DEF Tick, samples, estimates, hardware, thread, Sfo, Cfo, Acc, Est, InLine, Held, Behind, Res

\* A correction of SFO_STATE_0 that sends something makes the line old; the
\* machine goes on only when the estimate is a later one.
LEMMA AgesTickSfo ==
    ASSUME Shapes, NEW f \in Nat, Fresh(f), AgesOf(f), Tick, TickSfo
    PROVE  \E g \in Nat : Fresh(g)' /\ AgesOf(g)'
  <1>1. radio_state = "SFO_STATE_0"
    BY DEF TickSfo
  <1>2. InLine <= f + WINDOW \/ (Est # 0 /\ SfoFails)
    BY <1>1 DEF AgesOf, SfoAge, BeforeCfo
  <1>3. UNCHANGED <<InLine, Est, SfoFails>>
    BY TickIs DEF SfoFails
  <1>4. CASE SfoFails /\ Est # 0
    <2>1. radio_state' = "SFO_STATE_0"
      BY <1>1, <1>4 DEF TickSfo
    <2>2. AgesOf(0)'
      BY <1>3, <1>4, <2>1 DEF AgesOf, SfoAge, CfoAge, LockedAge
    <2>3. Fresh(0)'
      BY FreshNoneAfter, ShapesTick
    <2> QED BY <2>2, <2>3
  <1>5. CASE ~(SfoFails /\ Est # 0)
    <2>1. cfo_estimated_sent' = cfo_estimated_sent
      <3>1. CASE ~SfoFails
        BY <3>1 DEF TickSfo
      <3>2. CASE Est = 0
        <4>1. cfo_estimated_sent + 0 = cfo_estimated_sent
          BY DEF Shapes
        <4>2. UpdatePartnerCfo => cfo_estimated_sent' = cfo_estimated_sent + 0
          BY <3>2 DEF UpdatePartnerCfo, Est
        <4> QED BY <4>1, <4>2 DEF TickSfo
      <3> QED BY <1>5, <3>1, <3>2
    <2>2. Fresh(f)'
      BY <2>1, TickIs, FreshStutters
    <2>3. radio_state' \in {"SFO_STATE_0", "STO_0"}
      BY <1>1 DEF TickSfo
    <2>4. InLine' <= f + WINDOW
      BY <1>2, <1>3, <1>5
    <2>5. AgesOf(f)'
      BY <2>3, <2>4 DEF AgesOf, SfoAge, CfoAge, LockedAge
    <2> QED BY <2>2, <2>5
  <1> QED BY <1>4, <1>5

\* The steps before CFO_0 that correct nothing.
LEMMA AgesTickBefore ==
    ASSUME Shapes, NEW f \in Nat, Fresh(f), AgesOf(f), Tick,
           TickDidBoot \/ TickPreSfo \/ TickSto \/ TickStoEq
    PROVE  Fresh(f)' /\ AgesOf(f)'
  <1>1. cfo_estimated_sent' = cfo_estimated_sent
    BY DEF TickDidBoot, TickPreSfo, TickSto, TickStoEq
  <1>2. Fresh(f)'
    BY <1>1, TickIs, FreshStutters
  <1>3. InLine <= f + WINDOW
    BY DEF TickDidBoot, TickPreSfo, TickSto, TickStoEq, AgesOf, SfoAge, BeforeCfo
  <1>4. InLine' <= f + WINDOW
    BY <1>3, TickIs
  <1>5. radio_state' \in {"PRE_SFO_STATE_0", "SFO_STATE_0", "STO_0", "STO_EQ_0", "CFO_0"}
    BY DEF TickDidBoot, TickPreSfo, TickSto, TickStoEq
  <1>6. radio_state' = "CFO_0" => new_cfo' = 0
    BY DEF TickDidBoot, TickPreSfo, TickSto, TickStoEq
  <1>7. SfoAge(f)' /\ LockedAge(f)'
    BY <1>4, <1>5 DEF SfoAge, LockedAge
  <1>8. CfoAge(f)'
    BY <1>4, <1>6 DEF CfoAge
  <1> QED BY <1>2, <1>7, <1>8 DEF AgesOf

LEMMA AgesTickCfo ==
    ASSUME Shapes, NEW f \in Nat, Fresh(f), AgesOf(f), Tick, TickCfo
    PROVE  \E g \in Nat : Fresh(g)' /\ AgesOf(g)'
  <1>1. /\ radio_state = "CFO_0" /\ new_cfo = 2 /\ new_cfo' = 0
        /\ Est = Res /\ InLine <= WINDOW /\ InLine <= f
    BY DEF TickCfo, Waited, AgesOf, CfoAge
  <1>2. CASE CfoFails
    <2>1. radio_state' = "CFO_0"
      BY <1>1, <1>2 DEF TickCfo
    <2>2. CfoAge(0)'
      <3>1. InLine' <= 0 + WINDOW
        BY <1>1, TickIs, ConstantsAre
      <3> QED BY <1>1, <3>1 DEF CfoAge
    <2>3. SfoAge(0)' /\ LockedAge(0)'
      BY <2>1 DEF SfoAge, LockedAge, BeforeCfo
    <2>4. Fresh(0)'
      BY FreshNoneAfter, ShapesTick
    <2> QED BY <2>2, <2>3, <2>4 DEF AgesOf
  <1>3. CASE ~CfoFails
    <2>1. radio_state' = "BACKGROUND_SYNC" /\ cfo_estimated_sent' = cfo_estimated_sent
      BY <1>3 DEF TickCfo
    <2>2. Est = 0
      BY <1>3 DEF CfoFails, Est
    <2>3. LockedAge(f)'
      BY <1>1, <2>1, <2>2, TickIs DEF LockedAge
    <2>4. SfoAge(f)' /\ CfoAge(f)'
      BY <2>1 DEF SfoAge, CfoAge, BeforeCfo
    <2>5. Fresh(f)'
      BY <2>1, TickIs, FreshStutters
    <2> QED BY <2>3, <2>4, <2>5 DEF AgesOf
  <1> QED BY <1>2, <1>3

\* What RE_FINESYNC sends is nothing.
LEMMA AgesTickLocked ==
    ASSUME Shapes, NEW f \in Nat, Fresh(f), AgesOf(f), Tick, TickBackground \/ TickReFineSync
    PROVE  Fresh(f)' /\ AgesOf(f)'
  <1>1. Res = 0 /\ Est = 0 /\ InLine <= f
    BY DEF TickBackground, TickReFineSync, AgesOf, LockedAge
  <1>2. radio_state' = "RE_FINESYNC"
    BY DEF TickBackground, TickReFineSync
  <1>3. cfo_estimated_sent' = cfo_estimated_sent
    <2>1. CASE TickBackground
      BY <2>1 DEF TickBackground
    <2>2. CASE TickReFineSync
      <3>1. cfo_estimated_sent + 0 = cfo_estimated_sent
        BY DEF Shapes
      <3>2. UpdatePartnerCfo => cfo_estimated_sent' = cfo_estimated_sent + 0
        BY <1>1 DEF UpdatePartnerCfo, Est
      <3> QED BY <2>2, <3>1, <3>2 DEF TickReFineSync
    <2> QED BY <2>1, <2>2
  <1>4. LockedAge(f)'
    BY <1>1, <1>2, <1>3, TickIs DEF LockedAge
  <1>5. SfoAge(f)' /\ CfoAge(f)'
    BY <1>2 DEF SfoAge, CfoAge, BeforeCfo
  <1>6. Fresh(f)'
    BY <1>3, TickIs, FreshStutters
  <1> QED BY <1>4, <1>5, <1>6 DEF AgesOf

\* A tick that finds nothing new.
LEMMA AgesTickWaits ==
    ASSUME Shapes, NEW f \in Nat, Fresh(f), AgesOf(f), Tick, TickWaits
    PROVE  Fresh(f)' /\ AgesOf(f)'
  <1>1. /\ UNCHANGED <<news, machine>>
        /\ radio_state = "CFO_0" => new_cfo # 2
        /\ radio_state \notin {"BACKGROUND_SYNC", "RE_FINESYNC"}
    BY DEF TickWaits, Waited
  <1>2. UNCHANGED <<InLine, Res, Est, radio_state, new_cfo, sfo_estimated>>
    BY <1>1, TickIs DEF news, machine
  <1>3. Fresh(f)'
    BY <1>2, TickIs, FreshStutters
  <1>4. SfoAge(f)' /\ LockedAge(f)'
    BY <1>1, <1>2 DEF AgesOf, SfoAge, LockedAge, SfoFails
  <1>5. CfoAge(f)'
    BY <1>1, <1>2 DEF AgesOf, CfoAge
  <1> QED BY <1>3, <1>4, <1>5 DEF AgesOf

LEMMA AgesNext ==
    ASSUME Shapes, Lengths, AgesHold, [Next]_vars
    PROVE  AgesHold'
  <1> SUFFICES ASSUME role' = "tx" PROVE \E g \in Nat : Fresh(g)' /\ AgesOf(g)'
    BY DEF AgesHold
  <1>1. role = "tx"
    BY DEF Next, Capture, Callback, SfoTimer, SfoWrites, CfoTimer, Event, Tick, vars, hardware
  <1>2. PICK f \in Nat : Fresh(f) /\ AgesOf(f)
    BY <1>1 DEF AgesHold
  <1>3. CASE Capture
    <2>1. f + 1 \in Nat /\ Fresh(f + 1)' /\ AgesOf(f + 1)'
      BY <1>2, <1>3, AgesCapture
    <2> QED BY <2>1
  <1>4. CASE Callback
    BY <1>1, <1>2, <1>4, AgesCallback
  <1>5. CASE SfoTimer
    BY <1>1, <1>2, <1>5, AgesSfoTimer
  <1>6. CASE SfoWrites
    BY <1>2, <1>6, AgesSfoWrites
  <1>7. CASE CfoTimer
    BY <1>2, <1>7, AgesCfoTimer
  <1>8. CASE Tick
    BY <1>2, <1>8, AgesTickSfo, AgesTickBefore, AgesTickCfo, AgesTickLocked, AgesTickWaits
       DEF Tick, TickLocalFsm
  <1>9. CASE Event \/ UNCHANGED vars
    <2>1. UNCHANGED <<taking, sfo_cfo_buf, Cfo, Acc, Est, Res, InLine, new_cfo, radio_state, polled,
                      sfo_estimated>>
      BY <1>9 DEF Event, RequestFineSync, vars, samples, estimates, news, machine, hardware, thread,
                  bounds, Cfo, Acc, Est, Res, InLine, Held, Behind
    <2>2. Fresh(f)' /\ AgesOf(f)'
      BY <1>2, <2>1, FreshStutters, AgesSame
    <2> QED BY <2>2
  <1> QED BY <1>3, <1>4, <1>5, <1>6, <1>7, <1>8, <1>9 DEF Next

-----------------------------------------------------------------------------
(* While the thread keeps up: the two queues in step.                      *)

KeptUp == role = "tx" /\ stalls = MaxStalls

\* The sfo timer has a window to take that the cfo timer has already taken.
Ahead == Len(Sfo) # Held

\* The thread is done with a sample before the next one comes, and the chunks
\* of the cfo make a window when the sfo has one.
OneAtATime ==
    /\ Len(sfo_cfo_buf) <= 1
    /\ Len(sfo_cfo_buf) > 0 => ~process_cfo_timer /\ ~process_sfo_timer /\ Idle
    /\ ~Idle => ~process_cfo_timer

ChunkByChunk ==
    /\ Len(Acc) % CHUNK = 0
    /\ Len(Cfo) <= CHUNK
    /\ ~process_cfo_timer => Len(Cfo) < CHUNK

\* The sfo is behind by one window at most, and by it only until its timer
\* fires; the first time the attached radio may have to wait for its turn.
InStep ==
    Ahead =>
        /\ Len(Sfo) = Held + WINDOW
        /\ Held <= 1
        /\ Held = 1 => process_sfo_timer
        /\ last # Attached => Held = 0 /\ process_sfo_timer

Steady == KeptUp => OneAtATime /\ ChunkByChunk /\ InStep

LEMMA SteadyInit == Init => Steady
  <1> SUFFICES ASSUME Init PROVE Steady
    OBVIOUS
  <1>1. Len(sfo_cfo_buf) = 0 /\ Len(Sfo) = 0 /\ Len(Cfo) = 0 /\ Len(Acc) = 0 /\ Idle
    BY DEF Init, EstimateInit, Radio, Attached, Sfo, Cfo, Acc, Idle
  <1>2. 0 % CHUNK = 0 /\ CHUNK \in Nat \ {0}
    BY ConstantsAre
  <1> QED BY <1>1, <1>2 DEF Steady, OneAtATime, ChunkByChunk, InStep, Ahead, Held

\* The thread cannot catch up again on what it was once late for.
LEMMA KeptUpBefore ==
    ASSUME Shapes, [Next]_vars, KeptUp'
    PROVE  KeptUp
  <1>1. role = "tx"
    BY DEF KeptUp, Next, Capture, Callback, SfoTimer, SfoWrites, CfoTimer, Event, Tick, vars,
           hardware
  <1>2. stalls' = stalls \/ stalls' = stalls - 1
    BY DEF Next, Capture, Callback, SfoTimer, SfoWrites, CfoTimer, Event, Tick, vars, bounds
  <1>3. stalls \in 0..MaxStalls /\ stalls' = MaxStalls /\ MaxStalls \in Nat
    BY ConstantsAre DEF KeptUp, Shapes
  <1> QED BY <1>1, <1>2, <1>3 DEF KeptUp

LEMMA SteadyCapture ==
    ASSUME Shapes, Steady, Capture, KeptUp, KeptUp'
    PROVE  Steady'
  <1>1. OneAtATime /\ ChunkByChunk /\ InStep
    BY DEF Steady
  <1>2. Len(sfo_cfo_buf) = 0 /\ CaughtUp
    <2>1. stalls' = stalls /\ stalls \in Nat
      BY ConstantsAre DEF KeptUp, Shapes
    <2> QED BY <2>1, CaptureIs
  <1>3. /\ UNCHANGED <<Sfo, Cfo, Acc, Held>> /\ Len(sfo_cfo_buf)' = 1
    BY <1>2, CaptureIs DEF Held
  <1>4. UNCHANGED <<last, running, process_sfo_timer, process_cfo_timer>>
    BY DEF Capture
  <1>5. OneAtATime'
    BY <1>2, <1>3, <1>4 DEF OneAtATime, CaughtUp, Idle
  <1>6. ChunkByChunk' /\ InStep'
    BY <1>1, <1>3, <1>4 DEF ChunkByChunk, InStep, Ahead, Attached
  <1> QED BY <1>5, <1>6 DEF Steady

LEMMA SteadyCallback ==
    ASSUME Shapes, Steady, Callback, KeptUp
    PROVE  Steady'
  <1>1. OneAtATime /\ ChunkByChunk /\ InStep /\ role = "tx"
    BY DEF Steady, KeptUp
  <1>2. /\ Len(Cfo)' = Len(Cfo) + Len(sfo_cfo_buf) /\ Len(Sfo)' = Len(Sfo) + Len(sfo_cfo_buf)
        /\ Len(sfo_cfo_buf)' = 0 /\ Len(sfo_cfo_buf) > 0 /\ Idle
        /\ Len(Sfo)' >= WINDOW => process_sfo_timer'
        /\ process_cfo_timer' /\ Acc' = Acc /\ last' = last
    BY <1>1, CallbackIs
  <1>3. /\ Len(sfo_cfo_buf) = 1 /\ ~process_cfo_timer /\ ~process_sfo_timer
        /\ Len(sfo_cfo_buf) \in Nat /\ Len(Sfo) \in Nat /\ Len(Cfo) \in Nat /\ Len(Acc) \in Nat
        /\ WINDOW \in Nat /\ CHUNK \in Nat
    <2>1. Len(sfo_cfo_buf) <= 1 /\ Len(sfo_cfo_buf) \in Nat
      BY <1>1, LineIs DEF OneAtATime
    <2>2. Len(sfo_cfo_buf) = 1
      <3>1. Len(sfo_cfo_buf) > 0
        BY <1>1, CallbackIs
      <3>2. \A n \in Nat : n <= 1 /\ n > 0 => n = 1
        OBVIOUS
      <3> QED BY <2>1, <3>1, <3>2, Zenon
    <2>3. ~process_cfo_timer /\ ~process_sfo_timer
      BY <1>1, <1>2 DEF OneAtATime
    <2>4. /\ Len(Sfo) \in Nat /\ Len(Cfo) \in Nat /\ Len(Acc) \in Nat
          /\ WINDOW \in Nat /\ CHUNK \in Nat
      BY LineIs, ConstantsAre
    <2> QED BY <2>1, <2>2, <2>3, <2>4, Zenon
  <1>4. OneAtATime'
    <2>1. Idle'
      BY <1>2 DEF Idle, Callback
    <2> QED BY <1>2, <2>1 DEF OneAtATime
  <1>5. ChunkByChunk'
    <2>1. Len(Cfo) < CHUNK /\ Len(Acc) % CHUNK = 0
      BY <1>1, <1>3 DEF ChunkByChunk
    <2>2. Len(Cfo)' <= CHUNK
      BY <1>2, <1>3, <2>1
    <2> QED BY <1>2, <2>1, <2>2 DEF ChunkByChunk
  <1>6. InStep'
    <2>1. Held' = Held + 1 /\ Len(Sfo)' = Len(Sfo) + 1 /\ Held \in Nat
      BY <1>2, <1>3 DEF Held
    <2>2. Ahead' => Ahead
      BY <1>3, <2>1 DEF Ahead
    <2>3. Ahead => Len(Sfo) = Held + WINDOW /\ Held <= 1 /\ Held # 1 /\ last = Attached
      BY <1>1, <1>3 DEF InStep
    <2>4. Ahead => Held' = 1 /\ Len(Sfo)' = Held' + WINDOW /\ Len(Sfo)' >= WINDOW
      BY <1>3, <2>1, <2>3
    <2> QED BY <1>2, <2>2, <2>3, <2>4 DEF InStep, Attached
  <1> QED BY <1>4, <1>5, <1>6 DEF Steady

\* A window is taken from the sfo queue only when the cfo has had its samples.
LEMMA TakesWhatIsAhead ==
    ASSUME Shapes, Steady, KeptUp, SfoTimer, SfoTakes
    PROVE  Ahead
  <1>1. ChunkByChunk /\ ~process_cfo_timer
    BY DEF Steady, SfoTimer
  <1>2. /\ Len(Acc) \in Nat /\ Len(Cfo) \in Nat /\ Len(Sfo) \in Nat /\ Len(Acc) < WINDOW
        /\ CHUNK \in Nat /\ WINDOW \in Nat
    BY LineIs, ConstantsAre
  <1>3. Len(Acc) % CHUNK = 0 /\ Len(Cfo) < CHUNK
    BY <1>1 DEF ChunkByChunk
  <1>4. Len(Acc) + CHUNK <= WINDOW
    BY <1>2, <1>3, ChunksOfWindow
  <1>5. Len(Acc) + Len(Cfo) < WINDOW
    BY <1>2, <1>3, <1>4
  <1>6. Len(Sfo) >= WINDOW
    BY DEF SfoTakes
  <1> QED BY <1>2, <1>5, <1>6 DEF Ahead, Held

\* After the sfo timer the queues are in step, unless the turn was another's.
LEMMA SfoTimerStep ==
    ASSUME Shapes, Steady, KeptUp, SfoTimer
    PROVE  /\ UNCHANGED Held
           /\ SfoTakes => Ahead /\ ~Ahead' /\ Held <= 1 /\ Len(sfo_cfo_buf) = 0
           /\ ~SfoTakes => Ahead' = Ahead
  <1>1. role = "tx" /\ OneAtATime /\ InStep
    BY DEF KeptUp, Steady
  <1>2. UNCHANGED <<Cfo, Acc, Held>>
    BY <1>1, SfoTimerIs DEF Held
  <1>3. ASSUME SfoTakes PROVE Ahead /\ ~Ahead' /\ Held <= 1 /\ Len(sfo_cfo_buf) = 0
    <2>1. Ahead
      BY <1>3, TakesWhatIsAhead
    <2>2. Len(Sfo) = Held + WINDOW /\ Held <= 1
      BY <1>1, <2>1 DEF InStep
    <2>3. Len(Sfo)' = Len(Sfo) - WINDOW
      BY <1>1, <1>3, SfoTimerIs
    <2>4. Held \in Nat /\ WINDOW \in Nat /\ Len(sfo_cfo_buf) \in Nat
      BY LineIs, ConstantsAre
    <2>5. ~Ahead'
      BY <1>2, <2>2, <2>3, <2>4 DEF Ahead
    <2>6. Len(sfo_cfo_buf) = 0
      <3>1. process_sfo_timer
        BY DEF SfoTimer
      <3>2. ~(Len(sfo_cfo_buf) > 0)
        BY <1>1, <3>1 DEF OneAtATime
      <3> QED BY <2>4, <3>2
    <2> QED BY <2>1, <2>2, <2>5, <2>6
  <1>4. ASSUME ~SfoTakes PROVE Ahead' = Ahead
    <2>1. Len(Sfo)' = Len(Sfo)
      BY <1>1, <1>4, SfoTimerIs
    <2> QED BY <1>2, <2>1 DEF Ahead
  <1> QED BY <1>2, <1>3, <1>4

LEMMA SteadySfoTimer ==
    ASSUME Shapes, Steady, SfoTimer, KeptUp
    PROVE  Steady'
  <1>1. OneAtATime /\ ChunkByChunk /\ InStep /\ role = "tx"
    BY DEF Steady, KeptUp
  <1>2. /\ Idle /\ process_sfo_timer /\ ~process_cfo_timer /\ ~process_sfo_timer' /\ last' = Attached
        /\ UNCHANGED <<Cfo, Acc, sfo_cfo_buf, process_cfo_timer>>
    BY <1>1, SfoTimerIs
  <1>3. Len(sfo_cfo_buf) = 0
    <2>1. Len(sfo_cfo_buf) \in Nat /\ ~(Len(sfo_cfo_buf) > 0)
      BY <1>1, <1>2, LineIs DEF OneAtATime
    <2> QED BY <2>1
  <1>4. OneAtATime' /\ ChunkByChunk'
    BY <1>1, <1>2, <1>3 DEF OneAtATime, ChunkByChunk
  <1>5. InStep'
    <2>1. CASE SfoTakes
      BY <2>1, SfoTimerStep DEF InStep
    <2>2. CASE ~SfoTakes
      <3>1. Ahead' => Ahead /\ last # Attached
        <4>1. Ahead' = Ahead
          BY <2>2, SfoTimerStep
        <4>2. Ahead => Len(Sfo) >= WINDOW
          <5>1. Ahead => Len(Sfo) = Held + WINDOW
            BY <1>1 DEF InStep
          <5>2. Held \in Nat /\ WINDOW \in Nat
            BY LineIs, ConstantsAre
          <5> QED BY <5>1, <5>2
        <4> QED BY <2>2, <4>1, <4>2 DEF SfoTakes
      <3>2. Ahead' => Held = 0 /\ Len(Sfo) = Held + WINDOW
        BY <1>1, <3>1 DEF InStep
      <3>3. Held' = Held /\ Len(Sfo)' = Len(Sfo)
        BY <1>1, <2>2, SfoTimerIs, SfoTimerStep
      <3> QED BY <1>2, <3>2, <3>3 DEF InStep, Attached
    <2> QED BY <2>1, <2>2
  <1> QED BY <1>4, <1>5 DEF Steady

\* The cfo timer completes a window exactly, and gets ahead of the sfo.
LEMMA CfoTimerStep ==
    ASSUME WINDOW > 1, Shapes, Steady, KeptUp, CfoTimer
    PROVE  /\ Len(Cfo)' < CHUNK /\ Len(Acc)' % CHUNK = 0
           /\ Full(Attached) => /\ Len(Acc) + CHUNK = WINDOW /\ Held' = 0
                                /\ ~Ahead /\ Ahead' /\ Len(Sfo) = WINDOW
           /\ ~Full(Attached) => Ahead' = Ahead /\ Held' = Held
  <1>1. OneAtATime /\ ChunkByChunk /\ InStep
    BY DEF Steady
  <1>2. /\ Len(Acc) \in Nat /\ Len(Cfo) \in Nat /\ Len(Sfo) \in Nat /\ Len(Acc) < WINDOW
        /\ CHUNK \in Nat \ {0} /\ WINDOW \in Nat \ {0}
    BY LineIs, ConstantsAre
  <1>3. Len(Acc) % CHUNK = 0 /\ Len(Cfo) <= CHUNK
    BY <1>1 DEF ChunkByChunk
  <1>4. Len(Acc) + CHUNK <= WINDOW /\ (Len(Acc) + CHUNK) % CHUNK = 0
    BY <1>2, <1>3, ChunksOfWindow
  <1>5. /\ Takes(Attached) => Len(Cfo) >= CHUNK /\ Len(Cfo)' = Len(Cfo) - CHUNK
        /\ ~Takes(Attached) => Len(Cfo) < CHUNK /\ Cfo' = Cfo
        /\ Sfo' = Sfo
    BY CfoTimerIs
  <1>6. Len(Cfo)' < CHUNK
    BY <1>2, <1>3, <1>5
  <1>7. ASSUME Full(Attached)
        PROVE  /\ Len(Acc) + CHUNK = WINDOW /\ Held' = 0 /\ ~Ahead /\ Ahead' /\ Len(Sfo) = WINDOW
               /\ Len(Acc)' % CHUNK = 0
    <2>1. Takes(Attached) /\ Len(Acc) + CHUNK >= WINDOW /\ Len(Acc)' = 0
      BY <1>7, CfoTimerIs
    <2>2. Len(Acc) + CHUNK = WINDOW /\ Len(Cfo) = CHUNK /\ Len(Cfo)' = 0
      BY <1>2, <1>3, <1>4, <1>5, <2>1
    <2>3. Held = WINDOW /\ Held' = 0
      BY <2>1, <2>2 DEF Held
    <2>4. ~Ahead
      <3>1. Ahead => Held <= 1
        BY <1>1 DEF InStep
      <3> QED BY <1>2, <2>3, <3>1
    <2>5. Len(Sfo) = WINDOW /\ Ahead'
      BY <1>2, <1>5, <2>3, <2>4 DEF Ahead
    <2>6. 0 % CHUNK = 0
      BY <1>2
    <2> QED BY <2>1, <2>2, <2>3, <2>4, <2>5, <2>6
  <1>8. ASSUME ~Full(Attached)
        PROVE  Ahead' = Ahead /\ Held' = Held /\ Len(Acc)' % CHUNK = 0
    <2>1. Held' = Held
      BY <1>8, CfoTimerHolds
    <2>2. Acc' = Accumulated(Attached) /\ Attached \in Radio
      BY <1>8, CfoTimerIs DEF Radio, Attached
    <2>3. Takes(Attached) => Len(Acc)' = Len(Acc) + CHUNK
      BY <2>2, AccumulatedIs DEF Acc
    <2>4. ~Takes(Attached) => Acc' = Acc
      BY <2>2, AccumulatedIs DEF Acc
    <2>5. Len(Acc)' % CHUNK = 0
      BY <1>3, <1>4, <2>3, <2>4
    <2> QED BY <1>5, <2>1, <2>5 DEF Ahead
  <1> QED BY <1>6, <1>7, <1>8

LEMMA SteadyCfoTimer ==
    ASSUME WINDOW > 1, Shapes, Lengths, Steady, CfoTimer, KeptUp
    PROVE  Steady'
  <1>1. OneAtATime /\ InStep /\ role = "tx"
    BY DEF Steady, KeptUp
  <1>2. /\ Idle /\ process_cfo_timer /\ ~process_cfo_timer'
        /\ UNCHANGED <<Sfo, sfo_cfo_buf, process_sfo_timer, last, running>>
    BY CfoTimerIs
  <1>3. Len(sfo_cfo_buf) = 0
    <2>1. Len(sfo_cfo_buf) \in Nat /\ ~(Len(sfo_cfo_buf) > 0)
      BY <1>1, <1>2, LineIs DEF OneAtATime
    <2> QED BY <2>1
  <1>4. OneAtATime'
    BY <1>2, <1>3 DEF OneAtATime
  <1>5. ChunkByChunk'
    <2>1. Len(Cfo)' \in Nat /\ CHUNK \in Nat
      <3>1. Cfo' \in Seq(Int)
        BY ShapesCfoTimer DEF Shapes, Cfo, Radio, Attached
      <3> QED BY <3>1, ConstantsAre
    <2> QED BY <2>1, CfoTimerStep DEF ChunkByChunk
  <1>6. InStep'
    <2>1. CASE Full(Attached)
      <3>1. Held' = 0 /\ Len(Sfo) = WINDOW /\ WINDOW \in Nat
        BY <2>1, CfoTimerStep, ConstantsAre
      <3>2. last # Attached => process_sfo_timer
        BY <1>1, <3>1 DEF Lengths, FirstTurn
      <3> QED BY <1>2, <3>1, <3>2 DEF InStep, Attached
    <2>2. CASE ~Full(Attached)
      <3>1. Ahead' = Ahead /\ Held' = Held
        BY <2>2, CfoTimerStep
      <3> QED BY <1>1, <1>2, <3>1 DEF InStep, Attached
    <2> QED BY <2>1, <2>2
  <1> QED BY <1>4, <1>5, <1>6 DEF Steady

LEMMA SteadyNext ==
    ASSUME WINDOW > 1, Shapes, Lengths, Steady, [Next]_vars
    PROVE  Steady'
  <1> SUFFICES ASSUME KeptUp' PROVE Steady'
    BY DEF Steady
  <1>1. KeptUp
    BY KeptUpBefore
  <1>2. OneAtATime /\ ChunkByChunk /\ InStep
    BY <1>1 DEF Steady
  <1>3. CASE SfoWrites
    <2>1. /\ UNCHANGED <<Sfo, Cfo, Acc, Held, sfo_cfo_buf, process_sfo_timer, process_cfo_timer, last>>
          /\ ~Idle /\ Idle'
      BY <1>3 DEF SfoWrites, Idle, samples, Sfo, Cfo, Acc, Held
    <2>2. OneAtATime' /\ ChunkByChunk'
      BY <1>2, <2>1 DEF OneAtATime, ChunkByChunk
    <2>3. InStep'
      BY <1>2, <2>1 DEF InStep, Ahead, Attached
    <2> QED BY <2>2, <2>3 DEF Steady
  <1>4. CASE Event \/ Tick \/ UNCHANGED vars
    <2>1. UNCHANGED <<Sfo, Cfo, Acc, Held, sfo_cfo_buf, process_sfo_timer, process_cfo_timer, last,
                      running>>
      BY <1>4 DEF Event, Tick, vars, samples, thread, Sfo, Cfo, Acc, Held
    <2>2. OneAtATime' /\ ChunkByChunk'
      BY <1>2, <2>1 DEF OneAtATime, ChunkByChunk, Idle
    <2>3. InStep'
      BY <1>2, <2>1 DEF InStep, Ahead, Attached
    <2> QED BY <2>2, <2>3 DEF Steady
  <1> QED BY <1>1, <1>3, <1>4, SteadyCapture, SteadyCallback, SteadySfoTimer, SteadyCfoTimer
          DEF Next

-----------------------------------------------------------------------------
(* While the thread keeps up: what is measured before a correction is not  *)
(* corrected again.                                                        *)

\* Nothing has been corrected since the oldest sample of the line.
Uncorrected(f) == InLine <= f /\ Est \in {0, Res}

\* The cfo estimates there have been since the last correction.
Counted == new_sfo + (IF Ahead THEN 1 ELSE 0)

\* The first estimate after a correction takes the old samples out of the line,
\* the second is what is left, and it is there when the machine looks.
Measuring(f) ==
    /\ \/ Uncorrected(f)
       \/ Counted = 0 /\ InLine <= f + WINDOW
       \/ Counted = 1 /\ InLine <= f
    /\ new_sfo <= 2
    /\ new_sfo = 2 => ~polled /\ ~Ahead /\ InLine <= WINDOW

JudgedBy(f) ==
    /\ radio_state \in {"DID_BOOT", "PRE_SFO_STATE_0"} => Uncorrected(f)
    /\ radio_state = "SFO_STATE_0" => Measuring(f)

Judged == KeptUp => \E f \in Nat : Fresh(f) /\ JudgedBy(f)

LEMMA JudgedInit == Init => Judged
  <1> SUFFICES ASSUME Init PROVE Judged
    OBVIOUS
  <1>1. /\ sfo_cfo_buf = <<>> /\ Cfo = <<>> /\ Acc = <<>> /\ Est = 0 /\ radio_state = "DID_BOOT"
        /\ cfo_estimated_sent = 0 /\ taking = offset
    BY DEF Init, EstimateInit, Radio, Attached, Cfo, Acc, Est
  <1>2. Shapes
    BY ShapesInit
  <1>3. taking = Res
    BY <1>1, <1>2 DEF Res, Shapes
  <1>4. Fresh(1)
    BY <1>1, <1>3 DEF Fresh, Shows
  <1>5. InLine = 1
    BY <1>1 DEF InLine, Held, Behind
  <1>6. JudgedBy(1)
    BY <1>1, <1>5 DEF JudgedBy, Uncorrected
  <1> QED BY <1>4, <1>6 DEF Judged

\* A step that changes nothing of what the machine judges.
LEMMA JudgedStutters ==
    ASSUME NEW f \in Nat, JudgedBy(f), UNCHANGED <<InLine, Est, Res, new_sfo, Ahead, radio_state>>,
           polled' => polled
    PROVE  JudgedBy(f)'
BY DEF JudgedBy, Measuring, Uncorrected, Counted

LEMMA JudgedCapture ==
    ASSUME Shapes, NEW f \in Nat, Fresh(f), JudgedBy(f), Capture
    PROVE  Fresh(f + 1)' /\ JudgedBy(f + 1)'
  <1>1. Fresh(f + 1)'
    BY FreshCapture
  <1>2. InLine' = InLine + 1
    <2>1. Len(sfo_cfo_buf)' = Len(sfo_cfo_buf) + 1 /\ UNCHANGED <<Cfo, Acc>>
      BY CaptureIs
    <2>2. Len(Cfo) \in Nat /\ Len(Acc) \in Nat /\ Len(sfo_cfo_buf) \in Nat
      BY LineIs
    <2> QED BY <2>1, <2>2 DEF InLine, Held, Behind
  <1>3. UNCHANGED <<Est, Res, new_sfo, Ahead, Counted, radio_state>>
    BY CaptureIs DEF Capture, news, machine, Ahead, Held, Counted
  <1>4. InLine \in Nat /\ WINDOW \in Nat
    BY LineIs, ConstantsAre
  <1>5. Uncorrected(f) => Uncorrected(f + 1)'
    BY <1>2, <1>3, <1>4 DEF Uncorrected
  <1>6. radio_state = "SFO_STATE_0" => Measuring(f + 1)'
    <2>1. SUFFICES ASSUME radio_state = "SFO_STATE_0" PROVE Measuring(f + 1)'
      OBVIOUS
    <2>2. Measuring(f) /\ polled
      BY <2>1 DEF JudgedBy, Capture, Polling
    <2>3. new_sfo <= 2 /\ new_sfo # 2
      BY <2>2 DEF Measuring
    <2>4. \/ Uncorrected(f)
          \/ Counted = 0 /\ InLine <= f + WINDOW
          \/ Counted = 1 /\ InLine <= f
      BY <2>2 DEF Measuring
    <2>5. \/ Uncorrected(f + 1)'
          \/ Counted' = 0 /\ InLine' <= f + 1 + WINDOW
          \/ Counted' = 1 /\ InLine' <= f + 1
      BY <1>2, <1>3, <1>4, <1>5, <2>4
    <2> QED BY <1>3, <2>3, <2>5 DEF Measuring
  <1> QED BY <1>1, <1>3, <1>5, <1>6 DEF JudgedBy

LEMMA JudgedCallback ==
    ASSUME Shapes, NEW f \in Nat, Fresh(f), JudgedBy(f), Callback, role = "tx"
    PROVE  Fresh(f)' /\ JudgedBy(f)'
  <1>1. Fresh(f)'
    BY FreshCallback
  <1>2. /\ Len(Cfo)' = Len(Cfo) + Len(sfo_cfo_buf) /\ Len(Sfo)' = Len(Sfo) + Len(sfo_cfo_buf)
        /\ Len(sfo_cfo_buf)' = 0 /\ Acc' = Acc
    BY CallbackIs
  <1>3. Len(Sfo) \in Nat /\ Len(Cfo) \in Nat /\ Len(Acc) \in Nat /\ Len(sfo_cfo_buf) \in Nat
    BY LineIs
  <1>4. InLine' = InLine
    BY <1>2, <1>3 DEF InLine, Held, Behind
  <1>5. Ahead' = Ahead
    BY <1>2, <1>3 DEF Ahead, Held
  <1>6. UNCHANGED <<Est, Res, new_sfo, radio_state, polled>>
    BY CallbackIs DEF news, machine
  <1> QED BY <1>1, <1>4, <1>5, <1>6, JudgedStutters

LEMMA JudgedSfoTimer ==
    ASSUME WINDOW > 1, Shapes, Steady, KeptUp, NEW f \in Nat, Fresh(f), JudgedBy(f), SfoTimer
    PROVE  Fresh(f)' /\ JudgedBy(f)'
  <1>0. role = "tx"
    BY DEF KeptUp
  <1>1. UNCHANGED <<Cfo, Acc, Est, Res, taking, sfo_cfo_buf, machine>>
    BY <1>0, SfoTimerIs
  <1>2. Fresh(f)'
    BY <1>1, FreshStutters
  <1>3. UNCHANGED <<InLine, radio_state>>
    BY <1>1 DEF InLine, Held, Behind, machine
  <1>4. CASE ~SfoTakes
    <2>1. new_sfo' = new_sfo /\ polled' = polled /\ Ahead' = Ahead
      BY <1>0, <1>4, SfoTimerIs, SfoTimerStep
    <2> QED BY <1>1, <1>2, <1>3, <2>1, JudgedStutters
  <1>5. CASE SfoTakes
    <2>1. ~polled' /\ MayEstimate(Attached) /\ new_sfo' = CountUp(new_sfo)
      BY <1>0, <1>5, SfoTimerIs
    <2>2. Ahead /\ ~Ahead' /\ Held <= 1 /\ Len(sfo_cfo_buf) = 0
      BY <1>5, SfoTimerStep
    <2>3. Uncorrected(f) => Uncorrected(f)'
      BY <1>1, <1>3 DEF Uncorrected
    <2>4. radio_state = "SFO_STATE_0" => Measuring(f)'
      <3>1. SUFFICES ASSUME radio_state = "SFO_STATE_0" PROVE Measuring(f)'
        OBVIOUS
      <3>2. Measuring(f) /\ polled
        BY <2>1, <3>1 DEF JudgedBy, MayEstimate
      <3>3. new_sfo \in -1..1
        BY <3>2 DEF Measuring, Shapes
      <3>4. new_sfo' = new_sfo + 1
        BY <2>1, <3>3, CountUpIs
      <3>5. Counted' = Counted
        BY <2>2, <3>3, <3>4 DEF Counted
      <3>6. InLine' <= WINDOW
        <4>1. InLine = Held + 1 /\ Held \in Nat /\ WINDOW \in Nat
          BY <2>2, LineIs, ConstantsAre DEF InLine, Behind
        <4> QED BY <1>3, <2>2, <4>1
      <3>7. \/ Uncorrected(f)'
            \/ Counted' = 0 /\ InLine' <= f + WINDOW
            \/ Counted' = 1 /\ InLine' <= f
        BY <1>3, <2>3, <3>2, <3>5 DEF Measuring
      <3> QED BY <2>1, <2>2, <3>3, <3>4, <3>6, <3>7 DEF Measuring
    <2> QED BY <1>2, <1>3, <2>3, <2>4 DEF JudgedBy
  <1> QED BY <1>4, <1>5

LEMMA JudgedCfoTimer ==
    ASSUME WINDOW > 1, Shapes, Steady, KeptUp, NEW f \in Nat, Fresh(f), JudgedBy(f), CfoTimer
    PROVE  Fresh(f)' /\ JudgedBy(f)'
  <1>1. Fresh(f)'
    BY FreshCfoTimer
  <1>2. UNCHANGED <<Res, sfo_cfo_buf, new_sfo, radio_state>>
    BY CfoTimerIs DEF machine
  <1>3. Held \in Nat /\ Behind \in Nat /\ WINDOW \in Nat /\ InLine = Held + Behind /\ Behind' = Behind
    BY <1>2, LineIs, ConstantsAre DEF InLine, Behind
  <1>4. CASE ~Full(Attached)
    <2>1. Est' = Est /\ polled' = polled /\ Ahead' = Ahead /\ Held' = Held
      BY <1>4, CfoTimerIs, CfoTimerStep
    <2>2. InLine' = InLine
      BY <1>3, <2>1 DEF InLine
    <2> QED BY <1>1, <1>2, <2>1, <2>2, JudgedStutters
  <1>5. CASE Full(Attached)
    <2>1. MayEstimate(Attached)
      BY <1>5, CfoTimerIs
    <2>2. Len(Acc) + CHUNK = WINDOW /\ Held' = 0 /\ ~Ahead /\ Ahead'
      BY <1>5, CfoTimerStep
    <2>3. Held >= WINDOW
      <3>1. Len(Cfo) >= CHUNK /\ Len(Cfo) \in Nat /\ Len(Acc) \in Nat /\ CHUNK \in Nat
        BY <1>5, CfoTimerIs, LineIs, ConstantsAre
      <3> QED BY <1>3, <2>2, <3>1 DEF Held
    <2>4. InLine' = Behind /\ InLine' + WINDOW <= InLine /\ InLine' <= InLine
      <3>1. InLine' = 0 + Behind
        BY <1>3, <2>2 DEF InLine
      <3> QED BY <1>3, <2>3, <3>1
    <2>5. InLine <= f => Est' = Res /\ InLine' <= f
      BY <1>3, <1>5, <2>4, FreshEstimate
    <2>6. InLine <= f => Uncorrected(f)'
      BY <1>2, <2>5 DEF Uncorrected
    <2>7. radio_state = "SFO_STATE_0" => Measuring(f)'
      <3>1. SUFFICES ASSUME radio_state = "SFO_STATE_0" PROVE Measuring(f)'
        OBVIOUS
      <3>2. Measuring(f) /\ polled
        BY <2>1, <3>1 DEF JudgedBy, MayEstimate
      <3>3. new_sfo <= 2 /\ new_sfo # 2 /\ new_sfo \in -1..3
        BY <3>2 DEF Measuring, Shapes
      <3>4. Counted' = Counted + 1 /\ Counted \in Int
        BY <1>2, <2>2, <3>3 DEF Counted
      <3>5. \/ InLine <= f
            \/ Counted = 0 /\ InLine <= f + WINDOW
        BY <3>2 DEF Measuring, Uncorrected
      <3>6. Uncorrected(f)' \/ (Counted' = 1 /\ InLine' <= f)
        <4>1. CASE InLine <= f
          BY <2>6, <4>1
        <4>2. CASE Counted = 0 /\ InLine <= f + WINDOW
          BY <1>3, <2>4, <3>4, <4>2
        <4> QED BY <3>5, <4>1, <4>2
      <3> QED BY <1>2, <3>3, <3>6 DEF Measuring
    <2>8. radio_state \in {"DID_BOOT", "PRE_SFO_STATE_0"} => Uncorrected(f)'
      BY <2>6 DEF JudgedBy, Uncorrected
    <2> QED BY <1>1, <1>2, <2>7, <2>8 DEF JudgedBy
  <1> QED BY <1>4, <1>5

\* A tick of SFO_STATE_0 starts the count again, or ends it.
LEMMA JudgedTickSfo ==
    ASSUME Shapes, NEW f \in Nat, Fresh(f), JudgedBy(f), Tick, TickSfo
    PROVE  /\ \E g \in Nat : Fresh(g)' /\ JudgedBy(g)'
           /\ Est \in {0, Res}
  <1>1. radio_state = "SFO_STATE_0" /\ new_sfo = 2 /\ new_sfo' = 0
    BY DEF TickSfo, Waited
  <1>2. Measuring(f)
    BY <1>1 DEF JudgedBy
  <1>3. ~Ahead /\ InLine <= WINDOW
    BY <1>1, <1>2 DEF Measuring
  <1>4. Est \in {0, Res}
    <2>1. Counted = 2
      BY <1>1, <1>3 DEF Counted
    <2> QED BY <1>2, <2>1 DEF Measuring, Uncorrected
  <1>5. UNCHANGED <<InLine, Ahead>>
    BY TickIs DEF Ahead, Held
  <1>6. Fresh(0)'
    BY FreshNoneAfter, ShapesTick
  <1>7. JudgedBy(0)'
    <2>1. Counted' = 0
      BY <1>1, <1>3, <1>5 DEF Counted
    <2>2. InLine' <= 0 + WINDOW
      BY <1>3, <1>5, ConstantsAre
    <2>3. Measuring(0)'
      BY <1>1, <2>1, <2>2 DEF Measuring
    <2>4. radio_state' \in {"SFO_STATE_0", "STO_0"}
      BY <1>1 DEF TickSfo
    <2> QED BY <2>3, <2>4 DEF JudgedBy
  <1> QED BY <1>4, <1>6, <1>7

LEMMA JudgedTick ==
    ASSUME Shapes, NEW f \in Nat, Fresh(f), JudgedBy(f), Tick
    PROVE  \E g \in Nat : Fresh(g)' /\ JudgedBy(g)'
  <1>1. CASE TickSfo
    BY <1>1, JudgedTickSfo
  <1>2. CASE TickDidBoot \/ TickPreSfo
    <2>1. cfo_estimated_sent' = cfo_estimated_sent
      BY <1>2 DEF TickDidBoot, TickPreSfo
    <2>2. UNCHANGED <<InLine, Est, Res, Ahead>>
      BY <2>1, TickIs DEF Ahead, Held
    <2>3. Fresh(f)'
      BY <2>1, TickIs, FreshStutters
    <2>4. Uncorrected(f)
      BY <1>2 DEF TickDidBoot, TickPreSfo, JudgedBy
    <2>5. Uncorrected(f)'
      BY <2>2, <2>4 DEF Uncorrected
    <2>6. radio_state' = "SFO_STATE_0" => new_sfo' = -1
      BY <1>2 DEF TickDidBoot, TickPreSfo
    <2>7. radio_state' = "SFO_STATE_0" => Measuring(f)'
      BY <2>5, <2>6 DEF Measuring
    <2> QED BY <2>3, <2>5, <2>7 DEF JudgedBy
  <1>3. CASE TickWaits
    <2>1. UNCHANGED <<news, machine>> /\ (radio_state = "SFO_STATE_0" => new_sfo # 2)
      BY <1>3 DEF TickWaits, Waited
    <2>2. UNCHANGED <<InLine, Est, Res, Ahead, new_sfo, radio_state>>
      BY <2>1, TickIs DEF Ahead, Held, news, machine
    <2>3. Fresh(f)'
      BY <2>2, TickIs, FreshStutters
    <2>4. JudgedBy(f)'
      BY <2>1, <2>2 DEF JudgedBy, Measuring, Uncorrected, Counted
    <2> QED BY <2>3, <2>4
  <1>4. CASE TickSto \/ TickStoEq \/ TickCfo \/ TickBackground \/ TickReFineSync
    <2>1. radio_state' \notin {"DID_BOOT", "PRE_SFO_STATE_0", "SFO_STATE_0"}
      BY <1>4 DEF TickSto, TickStoEq, TickCfo, TickBackground, TickReFineSync
    <2>2. JudgedBy(0)'
      BY <2>1 DEF JudgedBy
    <2>3. Fresh(0)'
      BY FreshNoneAfter, ShapesTick
    <2> QED BY <2>2, <2>3
  <1> QED BY <1>1, <1>2, <1>3, <1>4 DEF Tick, TickLocalFsm

LEMMA JudgedNext ==
    ASSUME WINDOW > 1, Shapes, Steady, Judged, [Next]_vars
    PROVE  Judged'
  <1> SUFFICES ASSUME KeptUp' PROVE \E g \in Nat : Fresh(g)' /\ JudgedBy(g)'
    BY DEF Judged
  <1>1. KeptUp /\ role = "tx"
    BY KeptUpBefore DEF KeptUp
  <1>2. PICK f \in Nat : Fresh(f) /\ JudgedBy(f)
    BY <1>1 DEF Judged
  <1>3. CASE Capture
    <2>1. f + 1 \in Nat /\ Fresh(f + 1)' /\ JudgedBy(f + 1)'
      BY <1>2, <1>3, JudgedCapture
    <2> QED BY <2>1
  <1>4. CASE Callback
    BY <1>1, <1>2, <1>4, JudgedCallback
  <1>5. CASE SfoTimer
    BY <1>1, <1>2, <1>5, JudgedSfoTimer
  <1>6. CASE CfoTimer
    BY <1>1, <1>2, <1>6, JudgedCfoTimer
  <1>7. CASE Tick
    BY <1>2, <1>7, JudgedTick
  <1>8. CASE SfoWrites \/ Event \/ UNCHANGED vars
    <2>1. UNCHANGED <<taking, sfo_cfo_buf, Sfo, Cfo, Acc, Res, new_sfo, radio_state, polled>>
      BY <1>8 DEF SfoWrites, Event, RequestFineSync, vars, samples, news, machine, hardware,
                  thread, bounds, Sfo, Cfo, Acc, Res
    <2>2. Est' = Est
      BY <1>8 DEF SfoWrites, WriteSfo, Event, vars, estimates, Est
    <2>3. UNCHANGED <<InLine, Ahead>>
      BY <2>1 DEF InLine, Held, Behind, Ahead
    <2>4. Fresh(f)' /\ JudgedBy(f)'
      BY <1>2, <2>1, <2>2, <2>3, FreshStutters, JudgedStutters
    <2> QED BY <2>4
  <1> QED BY <1>3, <1>4, <1>5, <1>6, <1>7, <1>8 DEF Next

-----------------------------------------------------------------------------
(* The theorems.                                                           *)

Inv == Shapes /\ Lengths /\ AgesHold

\* The values of the synchronisation loop are of their types, and the
\* accumulator that dspRunCfo_v1 copies into an array of _cfo_symbol_num never
\* holds a whole window when the timer is done.
THEOREM AccumulatorsFit == Spec => [](Shapes /\ AccumulatorFits)
  <1>1. Shapes /\ [Next]_vars => Shapes'
    BY ShapesNext
  <1>2. Shapes => AccumulatorFits
    BY DEF Shapes
  <1> QED BY <1>1, <1>2, ShapesInit, PTL DEF Spec

\* LockedMeansAligned for every size: the machine of the attached radio leaves
\* CFO_0 only with the carrier corrected, and RE_FINESYNC leaves it so.
THEOREM Locked == Spec => []LockedMeansAligned
  <1>1. Init => Inv
    BY ShapesInit, LengthsInit, AgesInit DEF Inv
  <1>2. Inv /\ [Next]_vars => Inv'
    BY ShapesNext, LengthsNext, AgesNext DEF Inv
  <1>3. Inv => LockedMeansAligned
    <2> SUFFICES ASSUME Inv, radio_state \in {"BACKGROUND_SYNC", "RE_FINESYNC"}
                 PROVE  cfo_estimated_sent = offset
      BY DEF LockedMeansAligned
    <2>1. Res = 0
      <3>1. role = "tx"
        BY DEF Inv, Lengths, ReceiverWaits, Shapes
      <3> QED BY <3>1 DEF Inv, AgesHold, AgesOf, LockedAge
    <2>2. offset \in Int /\ cfo_estimated_sent \in Int
      BY DEF Inv, Shapes
    <2> QED BY <2>1, <2>2 DEF Res
  <1> QED BY <1>1, <1>2, <1>3, PTL DEF Spec

\* What is left to correct is not more after a step that sends an estimate of
\* it, or nothing.
LEMMA NotWorse ==
    ASSUME Shapes, cfo_estimated_sent' \in {cfo_estimated_sent, cfo_estimated_sent + Est},
           cfo_estimated_sent' # cfo_estimated_sent => Est \in {0, Res}
    PROVE  Abs(offset - cfo_estimated_sent') <= Abs(offset - cfo_estimated_sent)
  <1>1. offset \in Int /\ cfo_estimated_sent \in Int
    BY DEF Shapes
  <1>2. cfo_estimated_sent' = cfo_estimated_sent \/ cfo_estimated_sent' = offset
    BY <1>1 DEF Res
  <1>3. \A x \in Int : Abs(x) \in Int /\ 0 <= Abs(x)
    BY DEF Abs
  <1>4. Abs(0) = 0
    BY DEF Abs
  <1>5. offset - cfo_estimated_sent \in Int /\ offset - offset = 0
    BY <1>1
  <1>6. CASE cfo_estimated_sent' = cfo_estimated_sent
    <2>1. Abs(offset - cfo_estimated_sent) <= Abs(offset - cfo_estimated_sent)
      BY <1>3, <1>5
    <2> QED BY <1>6, <2>1, Zenon
  <1>7. CASE cfo_estimated_sent' = offset
    <2>1. 0 <= Abs(offset - cfo_estimated_sent)
      BY <1>3, <1>5
    <2>2. Abs(offset - cfo_estimated_sent') = 0
      BY <1>4, <1>5, <1>7
    <2> QED BY <2>1, <2>2
  <1> QED BY <1>2, <1>6, <1>7

\* NeverWorse for every size: as long as the HiggsFineSync thread has kept up,
\* no correction of updatePartnerCfo leaves the carrier farther off than it was.
THEOREM CorrectionsHelp ==
    ASSUME WINDOW > 1
    PROVE  Spec => NeverWorse
  <1> DEFINE All == Inv /\ Steady /\ Judged
             Helps == stalls = MaxStalls =>
                        Abs(offset - cfo_estimated_sent') <= Abs(offset - cfo_estimated_sent)
  <1>1. Init => All
    BY ShapesInit, LengthsInit, AgesInit, SteadyInit, JudgedInit DEF Inv
  <1>2. All /\ [Next]_vars => All'
    BY ShapesNext, LengthsNext, AgesNext, SteadyNext, JudgedNext DEF Inv
  <1>3. All /\ [Next]_vars => [Helps]_vars
    <2> SUFFICES ASSUME All, [Next]_vars, stalls = MaxStalls
                 PROVE  Abs(offset - cfo_estimated_sent') <= Abs(offset - cfo_estimated_sent)
      OBVIOUS
    <2>1. Shapes /\ Lengths /\ AgesHold
      BY DEF Inv
    <2>2. CASE ~Tick
      <3>1. cfo_estimated_sent' = cfo_estimated_sent
        BY <2>2 DEF Next, Capture, Callback, SfoTimer, SfoWrites, CfoTimer, Event,
                    RequestFineSync, vars, machine
      <3> QED BY <2>1, <3>1, NotWorse
    <2>3. CASE Tick
      <3>1. role = "tx"
        <4>1. ~(radio_state = "DID_BOOT" /\ most_recent_event = "none")
          BY <2>3 DEF Tick, TickLocalFsm, TickDidBoot, TickPreSfo, TickSfo, TickSto, TickStoEq,
                      TickCfo, TickBackground, TickReFineSync, TickWaits
        <4> QED BY <2>1, <4>1 DEF Lengths, ReceiverWaits, Shapes
      <3>2. PICK f \in Nat : Fresh(f) /\ JudgedBy(f)
        BY <3>1 DEF Judged, KeptUp
      <3>3. cfo_estimated_sent' \in {cfo_estimated_sent, cfo_estimated_sent + Est}
        BY <2>1, <2>3, SentBy DEF Est
      <3>4. PICK g \in Nat : Fresh(g) /\ AgesOf(g)
        BY <2>1, <3>1 DEF AgesHold
      <3>5. CASE TickSfo
        BY <2>1, <2>3, <3>2, <3>3, <3>5, JudgedTickSfo, NotWorse
      <3>6. CASE TickCfo
        <4>1. Est = Res
          BY <3>4, <3>6 DEF AgesOf, CfoAge, TickCfo, Waited
        <4> QED BY <2>1, <3>3, <4>1, NotWorse
      <3>7. CASE TickReFineSync
        <4>1. Est = 0
          BY <3>4, <3>7 DEF AgesOf, LockedAge, TickReFineSync
        <4> QED BY <2>1, <3>3, <4>1, NotWorse
      <3>8. CASE TickDidBoot \/ TickPreSfo \/ TickSto \/ TickStoEq \/ TickBackground \/ TickWaits
        <4>1. cfo_estimated_sent' = cfo_estimated_sent
          BY <3>8 DEF TickDidBoot, TickPreSfo, TickSto, TickStoEq, TickBackground, TickWaits,
                      machine
        <4> QED BY <2>1, <4>1, NotWorse
      <3> QED BY <2>3, <3>5, <3>6, <3>7, <3>8 DEF Tick, TickLocalFsm
    <2> QED BY <2>2, <2>3
  <1> HIDE DEF All
  <1>4. NeverWorse <=> [][Helps]_vars
    BY DEF NeverWorse
  <1> HIDE DEF Helps
  <1> QED BY <1>1, <1>2, <1>3, <1>4, PTL DEF Spec

=============================================================================
