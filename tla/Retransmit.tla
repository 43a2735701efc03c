------------------------------ MODULE Retransmit ------------------------------
(***************************************************************************)
(* How a packet that the air damages or loses is sent again.  The arbiter  *)
(* takes packets from its tun device, sends them in bunches for the        *)
(* transmitters to put on the air together, and announces the hashes of    *)
(* each bunch to the receiver.  The receiver's DemodThread writes what it  *)
(* decodes to its own tun device, and asks for what is missing: whole      *)
(* bunches when a sequence number is skipped, single packets when          *)
(* VerifyHash finds their hashes wrong.  What is asked for is put in front *)
(* of the packets from the tun device.                                     *)
(*                                                                         *)
(* The steps belong to four threads: the arbiter's JavaScript and EventDsp *)
(* threads, the receiver's DemodThread and EventDsp.  A packet is a        *)
(* number, in the order of the tun device, and counts as one word.         *)
(***************************************************************************)
EXTENDS RetransmitBuffer, VerifyHash

CONSTANTS SlotsPerSec, \* bunches per second: 2 in FixedSchedule's mode 3
          Flight,      \* seconds until the timeslot of a bunch: 3 in the code
          Window,      \* handleRecovery's window, in words: 40 * maxlen = 15000,
                       \* where FixedSchedule's bunches have 150E3 or 200E3 (12E3
                       \* to 240E3 in its other modes)
          Settings     \* what the behaviours begin with, see setting

Damage == {"lost", "empty", "bad", "cut", "hash", "request"}

\* At SlotsPerSec the 256 sequence numbers last much longer than anything is
\* kept.
ASSUME RetransmitAssumption ==
    /\ Flight \in Nat /\ Window \in Nat
    /\ \A s \in Settings :
        /\ s.words \in Nat \ {0} /\ s.prompt \in BOOLEAN
        /\ s.packets \in Nat /\ s.waiting \in 0..s.packets
        /\ s.budget \in [Damage -> Nat]
    /\ SlotsPerSec \in Nat \ {0}
    /\ SeqSize > SlotsPerSec * BufferKeep

Top == 1 + Max({BufferKeep, HashKeep, Flight})   \* ages stop counting here

VARIABLES setting,      \* words the schedule asks for in one bunch; whether messages
                        \* and threads take less than a second; packets in the tun
                        \* buffer at the start; bounds: packets that come from the
                        \* tun device, and how often the world may do what
          tun,          \* txTun2EventDsp: packets from the tun device
          arb_seq, slots,
          air,          \* bunches scheduled and not yet decoded: [n, age]
          hashNet,      \* zmq to the receiver: the bunches announced
          requestNet,   \* zmq to the arbiter: requests
          expected_seq,
          delivered,    \* how often each packet was written to the tun device
          lost, seen,   \* history: bunches lost, the last bunch decoded,
          beyond,       \* packets written behind a place handleRecovery jumped over
          budget

arbVars == <<tun, arb_seq, slots, sent, buffer, need_retransmit>>
demodVars == <<expected_seq, delivered, expected, received>>
netVars == <<air, hashNet, requestNet>>
history == <<lost, seen, beyond>>
vars == <<setting, arbVars, demodVars, netVars, history, budget>>

MaxWords == setting.words
Packet == 1..setting.packets
fresh == IF tun # <<>> THEN Last(tun) + 1
         ELSE 1 + Max({0} \cup UNION {ToSet(sent[n].packets) : n \in DOMAIN sent})

Init ==
    /\ BufferInit /\ HashInit
    /\ setting \in Settings
    /\ tun = [p \in 1..setting.waiting |-> p] /\ arb_seq = 0 /\ slots = 0
    /\ air = <<>> /\ hashNet = <<>> /\ requestNet = <<>>
    /\ expected_seq = 0
    /\ delivered = [p \in Packet |-> 0]
    /\ lost = {} /\ seen = 0 /\ beyond = {}
    /\ budget = setting.budget

Spend(what, n) == budget[what] >= n /\ budget' = [budget EXCEPT ![what] = @ - n]

-----------------------------------------------------------------------------
(* The arbiter.                                                            *)

TunArrives ==
    /\ fresh \in Packet
    /\ tun' = Append(tun, fresh)
    /\ UNCHANGED <<setting, arb_seq, slots, sent, bufferVars, demodVars, netVars, history,
                   budget>>

OneWordMore(ready) == Min({MaxWords + 1, Len(ready)})
BunchSize(ready) == Min({MaxWords, Len(ready)})

\* getPacket takes what it returns out of need_retransmit.
StillToSend(taken) == SubSeq(need_retransmit, taken + 1, Len(need_retransmit))

\* A bunch of what is to be sent again first and the tun packets after it, as
\* much as fits; it goes to the transmitters, into the retransmit buffer, and
\* its hashes go to the receiver.
ScheduleJointFromTunData(seq) ==
    LET ready == need_retransmit \o tun
        count == BunchSize(ready)
        again == Min({count, Len(need_retransmit)})
        n == Len(sent) + 1
    IN  /\ sent' = Append(sent, [seq |-> seq, packets |-> SubSeq(ready, 1, count)])
        /\ need_retransmit' = StillToSend(again)
        /\ tun' = SubSeq(tun, count - again + 1, Len(tun))
        /\ air' = Append(air, [n |-> n, age |-> 0])
        /\ SentOverAir(n)
        /\ hashNet' = Append(hashNet, n)

Trigger4 ==
    /\ ScheduleJointFromTunData(arb_seq)
    /\ arb_seq' = (arb_seq + 1) % SeqSize

\* A timeslot of the schedule.  Every fourth epoc and slots 0 and 46 go unused.
WordsInTun == Len(tun)

HitTimeslot ==
    /\ slots < SlotsPerSec /\ slots' = slots + 1
    /\ WordsInTun > 0
    /\ Trigger4
    /\ UNCHANGED <<setting, demodVars, requestNet, history, budget>>

\* FEEDBACK_VEC_REQ_RETRANSMIT: a message without an index is too short.
RequestArrives ==
    /\ requestNet # <<>> /\ requestNet' = Tail(requestNet)
    /\ LET r == Head(requestNet)
       IN  IF r.indices = {} THEN UNCHANGED bufferVars
           ELSE ScheduleRetransmit(r.seq, r.indices)
    /\ UNCHANGED <<setting, tun, arb_seq, slots, sent, demodVars, air, hashNet, history,
                   budget>>

-----------------------------------------------------------------------------
(* The receiver.                                                           *)

\* FEEDBACK_VEC_PACKET_HASH.
HashesArrive ==
    /\ hashNet # <<>> /\ hashNet' = Tail(hashNet)
    /\ LET n == Head(hashNet)
       IN  GotHashListFromPeer([n |-> n, seq |-> sent[n].seq,
                                hashes |-> sent[n].packets, age |-> 0])
    /\ UNCHANGED <<setting, arbVars, expected_seq, delivered, air, requestNet, history,
                   budget>>

\* The whole bunches to ask for when number seq comes and another is expected.
StopsEarly(seq) ==
    IF seq = expected_seq THEN 0 ELSE (seq - expected_seq - 1) % SeqSize
MissingSeqs(seq) == (seq - expected_seq) % SeqSize

GapRequests(n, seq) ==
    LET gap == MissingSeqs(seq)
    IN  [i \in 1..gap |-> [by |-> n, of |-> n - 1 - gap + i,
                           seq |-> (expected_seq + i - 1) % SeqSize,
                           indices |-> AllMissing]]

\* handleRecovery at a packet whose hash and length are gone, the first of
\* left words: how many words on the next sound packet is, 0 if that is
\* given up.
HandleRecovery(cut, bad, left) ==
    LET ahead == {s \in 1..left : s < Window /\ s + Window < left
                                  /\ cut + s \notin bad}
    IN  IF ahead = {} THEN 0 ELSE Min(ahead)

\* A deviation: the packet before the cut is read once more.
ReadsOneAgain(packets, bad, cut) ==
    LET all == [i \in DOMAIN packets |-> IF i \in bad THEN Bad ELSE packets[i]]
    IN  IF cut = 0 THEN all ELSE SubSeq(all, 1, cut - 1) \o SubSeq(all, Max({1, cut - 1}), cut - 1)

\* The hashes of the packets found in a bunch: the hash of a packet in bad
\* does not match, the length of packet cut is gone (none if cut is 0).
Decoded(packets, bad, cut) ==
    LET all == [i \in DOMAIN packets |-> IF i \in bad THEN Bad ELSE packets[i]]
        skip == HandleRecovery(cut, bad, Len(all) - cut + 1)
    IN  IF cut = 0 THEN all
        ELSE SubSeq(all, 1, cut - 1)
             \o (IF skip = 0 THEN <<>> ELSE SubSeq(all, cut + skip, Len(all)))

\* The sound packets found after handleRecovery has jumped ahead: their hashes
\* stand nearer to the front of Decoded than in the list of the arbiter.
Beyond(packets, bad, cut) ==
    LET skip == HandleRecovery(cut, bad, Len(packets) - cut + 1)
    IN  {packets[i] : i \in {j \in DOMAIN packets :
                                 cut # 0 /\ skip # 0 /\ j >= cut + skip /\ j \notin bad}}

Arrived == air # <<>> /\ Head(air).age >= Flight

\* demodGotPacket up to the test of p.size() == 0.
GotHeader(n, requests) ==
    /\ air' = Tail(air)
    /\ requestNet' = requestNet \o GapRequests(n, sent[n].seq) \o requests
    /\ expected_seq' = (sent[n].seq + 1) % SeqSize
    /\ seen' = n
    /\ UNCHANGED <<setting, arbVars, hashNet, lost>>

DemodGotEmpty ==
    /\ Arrived /\ GotHeader(Head(air).n, <<>>)
    /\ Spend("empty", 1)
    /\ UNCHANGED <<delivered, expected, received, beyond>>

DemodGotPacket(bad, cut) ==
    /\ Arrived
    /\ budget["bad"] >= Cardinality(bad)
    /\ budget["cut"] >= Cardinality({cut} \ {0})
    /\ LET n == Head(air).n
           packets == sent[n].packets
           hashes == Decoded(packets, bad, cut)
           status == GotHashListOverAir([n |-> n, seq |-> sent[n].seq,
                                         hashes |-> hashes, age |-> 0])
       IN  /\ bad \cup {cut} \subseteq 0..Len(packets) /\ cut \notin bad
           /\ delivered' = [p \in Packet |->
                   delivered[p] + Cardinality({i \in DOMAIN hashes : hashes[i] = p})]
           /\ beyond' = beyond \cup Beyond(packets, bad, cut)
           /\ expected' = status.expected /\ received' = status.received
           /\ GotHeader(n, IF status.reply.need
                           THEN <<[by |-> n, of |-> status.reply.of,
                                   seq |-> status.reply.seq,
                                   indices |-> status.reply.indices]>>
                           ELSE <<>>)
    /\ budget' = [budget EXCEPT !["bad"] = @ - Cardinality(bad),
                                !["cut"] = @ - Cardinality({cut} \ {0})]

-----------------------------------------------------------------------------
(* The world.                                                              *)

\* The transmitters drop a bunch, or the receiver does not find it.
AirLoses ==
    /\ air # <<>> /\ air' = Tail(air)
    /\ lost' = lost \cup {Head(air).n}
    /\ Spend("lost", 1)
    /\ UNCHANGED <<setting, arbVars, demodVars, hashNet, requestNet, seen, beyond>>

\* A zmq publisher drops what it cannot deliver.
ZmqLoses ==
    /\ \/ /\ hashNet # <<>> /\ hashNet' = Tail(hashNet)
          /\ Spend("hash", 1) /\ UNCHANGED requestNet
       \/ /\ requestNet # <<>> /\ requestNet' = Tail(requestNet)
          /\ Spend("request", 1) /\ UNCHANGED hashNet
    /\ UNCHANGED <<setting, arbVars, demodVars, air, history>>

Second ==
    /\ setting.prompt => hashNet = <<>> /\ requestNet = <<>> /\ ~Arrived
    /\ slots' = 0
    /\ buffer' = Older(buffer, Top) /\ air' = Older(air, Top)
    /\ expected' = Older(expected, Top) /\ received' = Older(received, Top)
    /\ UNCHANGED <<setting, tun, arb_seq, sent, need_retransmit, expected_seq, delivered,
                   hashNet, requestNet, history, budget>>

\* The sets of packets that the budget lets the air damage.
Damaged == {ToSet(f) \ {0} : f \in [1..budget["bad"] -> 0..MaxWords]}

Next ==
    \/ TunArrives \/ HitTimeslot \/ RequestArrives \/ HashesArrive
    \/ DemodGotEmpty
    \/ \E bad \in Damaged, cut \in 0..MaxWords : DemodGotPacket(bad, cut)
    \/ AirLoses \/ ZmqLoses \/ Second

Spec == Init /\ [][Next]_vars

-----------------------------------------------------------------------------
(* Properties.                                                             *)

Request == [by : Nat, of : Int, seq : 0..(SeqSize - 1), indices : SUBSET Nat]

\* The types of the state; a bunch is never empty and never larger than the
\* schedule asked for.
TypeOK ==
    /\ setting \in Settings
    /\ \A n \in DOMAIN sent : /\ sent[n].seq \in 0..(SeqSize - 1)
                              /\ Len(sent[n].packets) \in 1..MaxWords
                              /\ ToSet(sent[n].packets) \subseteq Packet
    /\ ToSet(tun) \cup ToSet(need_retransmit) \subseteq Packet
    /\ arb_seq \in 0..(SeqSize - 1) /\ expected_seq \in 0..(SeqSize - 1)
    /\ slots \in 0..SlotsPerSec
    /\ ToSet(buffer) \cup ToSet(air) \subseteq [n : DOMAIN sent, age : 0..Top]
    /\ ToSet(hashNet) \cup lost \cup ({seen} \ {0}) \subseteq DOMAIN sent
    /\ ToSet(requestNet) \subseteq Request
    /\ \A l \in ToSet(expected) \cup ToSet(received) :
           /\ l.n \in DOMAIN sent /\ l.seq = sent[l.n].seq /\ l.age \in 0..Top
           /\ ToSet(l.hashes) \subseteq Packet \cup {Bad}
    /\ delivered \in [Packet -> Nat] /\ beyond \subseteq Packet
    /\ budget \in [Damage -> Nat]

\* No packet is written to the receiver's tun device twice, whatever is lost,
\* damaged, late or asked for again (demodGotPacket, scheduleRetransmit).  Not
\* so for the packets handleRecovery finds behind a jump: VerifyHash compares
\* by position, so their hashes, shifted, count as damaged, and they are asked
\* for although they were written (see AskedAreMissing).
NeverTwice == \A p \in Packet \ beyond : delivered[p] <= 1

\* The packets that the requests on their way will find in the retransmit
\* buffer.
Asked ==
    UNION {LET j == AskedFor(r.seq, r.indices)
           IN  IF j = 0 THEN {} ELSE ToSet(PacketsOf(buffer[j].n, r.indices))
           : r \in ToSet(requestNet)}

\* What is asked for has not been written to the receiver's tun device, the
\* packets found behind a jump of handleRecovery excepted.
OnlyMissingAreAsked == \A p \in Asked \ beyond : delivered[p] = 0

\* "which packet indices are we missing", without the exception.
AskedAreMissing == \A p \in Asked : delivered[p] = 0

\* A bunch that was lost, while a later one was decoded, and that is still in
\* the retransmit buffer, will be found by a request on its way: the gaps in
\* the sequence numbers are asked for, each by its number.  (A request is sent
\* once: one that zmq loses is not repeated.)
GapIsAsked ==
    budget["request"] = setting.budget["request"] =>
    \A e \in ToSet(buffer) :
        e.n \in lost /\ e.n < seen =>
            \E r \in ToSet(requestNet) :
                /\ r.indices = AllMissing
                /\ AskedFor(r.seq, r.indices) # 0
                /\ buffer[AskedFor(r.seq, r.indices)] = e

\* "if we found the data we want to retransmit": the entry a request finds is
\* the bunch the request is about.
FoundTheData ==
    \A r \in ToSet(requestNet) :
        LET j == AskedFor(r.seq, r.indices) IN j # 0 => buffer[j].n = r.of

\* "sequence number of packet that needs retransmitting": the number in a
\* request for single packets is that of the bunch they were damaged in.
SeqIsOfThePacket ==
    \A r \in ToSet(requestNet) :
        r.indices # AllMissing => r.seq = sent[r.by].seq
=============================================================================
