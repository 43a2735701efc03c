--------------------------- MODULE RetransmitBuffer ---------------------------
(***************************************************************************)
(* RetransmitBuffer: the bunches the arbiter has sent, kept for a while so *)
(* that packets of them can be sent again, and the packets that are to be  *)
(* sent again.  Every member function holds the mutex m for its whole      *)
(* body, so each is one step.                                              *)
(*                                                                         *)
(* A bunch is named by its serial number; sent[n] is what the code copies  *)
(* into its containers.  Times are kept as ages, in seconds.               *)
(***************************************************************************)
EXTENDS Aging

CONSTANTS SeqSize,      \* sequence numbers are uint8_t: 256 in the code
          BufferKeep   \* delete_after_us: 4 s in the code

ASSUME BufferAssumption == SeqSize \in Nat \ {0} /\ BufferKeep \in Nat

VARIABLES sent,            \* every bunch ever sent: [seq, packets]
          buffer,          \* the bunches kept, [n, age], oldest first
          need_retransmit  \* packets to send again, in order

bufferVars == <<buffer, need_retransmit>>

AllMissing == {0}    \* the list {0xffffffff}; indices count from 1 here

BufferInit == sent = <<>> /\ buffer = <<>> /\ need_retransmit = <<>>

SentOverAir(n) == buffer' = Append(buffer, [n |-> n, age |-> 0])

\* The packets of a bunch at some indices, in order.
PacketsOf(n, indices) ==
    LET packets == sent[n].packets
        picked[i \in 0..Len(packets)] ==
            IF i = 0 THEN <<>>
            ELSE IF i \in indices THEN Append(picked[i - 1], packets[i])
            ELSE picked[i - 1]
    IN  IF indices = AllMissing THEN packets ELSE picked[Len(packets)]

\* Where the data asked for is: with the oldest entry of that number, unless
\* an index is illegal, which ends the search; 0 if it is not found.
AskedFor(seq, indices) ==
    LET j == SelectInSeq(buffer, LAMBDA e : sent[e.n].seq = seq)
    IN  IF /\ j # 0 /\ indices # AllMissing
           /\ \E x \in indices : x > Len(sent[buffer[j].n].packets)
        THEN 0 ELSE j

\* The search comes before the old entries are removed.
ScheduleRetransmit(seq, indices) ==
    LET j == AskedFor(seq, indices)
    IN  IF j = 0
        THEN buffer' = NotOlder(buffer, BufferKeep) /\ UNCHANGED need_retransmit
        ELSE /\ buffer' = NotOlder(RemoveAt(buffer, j), BufferKeep)
             /\ need_retransmit' = need_retransmit \o PacketsOf(buffer[j].n, indices)
=============================================================================
