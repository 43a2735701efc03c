----------------------------- MODULE UdpReorder -----------------------------
(***************************************************************************)
(* The receive path of the data port: HiggsUdpOOO<N,GIVEUP>, the buffer     *)
(* that puts the FPGA's UDP packets back in order, together with the two    *)
(* threads that use it.  rxAsyncThread receives packets into chunks of the  *)
(* pool and files them under their sequence number; drainOOOThread takes    *)
(* the next one, writes it to EventDsp's buffer and gives the chunk back.   *)
(* Every member function holds the mutex for its whole body, so each is     *)
(* one action; the threads interleave between the calls.                    *)
(***************************************************************************)
EXTENDS Integers, FiniteSets

CONSTANTS
  Chunks,   \* the chunks of pool_memory (MEM_STORAGE of them)
  NULL,     \* a null pointer
  GIVEUP,   \* packets held before a hole is given up (UDP_OOO_TOLERANCE)
  VLEN,     \* messages asked of one recvmmsg call
  SeqMod,   \* sequence numbers are uint32_t: 2^32 in the code
  FirstSeq, \* the sequence number of the first packet of the FPGA's stream
  MaxSent,  \* bound: packets on the wire, copies included
  MaxDups   \* bound: copies the network makes

ASSUME ReorderAssumption ==
  /\ IsFiniteSet(Chunks) /\ NULL \notin Chunks
  /\ GIVEUP \in Nat \ {0}
  /\ VLEN \in Nat \ {0}
  /\ SeqMod \in Nat \ {0}
  /\ FirstSeq \in 0..(SeqMod - 1)
  /\ MaxSent \in Nat
  /\ MaxDups \in Nat

SeqNum == 0..(SeqMod - 1)
Slot   == 0..(VLEN - 1)

VARIABLES
  pool,     \* the free chunks (boost::simple_segregated_storage)
  seqOf,    \* the first word of every chunk: the packet's sequence number
  full,     \* the map full: sequence number -> chunk, NULL when absent
  seq_ok, initial_seq_number, num_drops,
  iov,      \* rxAsyncThread's iovecs[].iov_base
  rxpc,     \* where rxAsyncThread is in its loop
  retval, i,\* its local variables: messages received, loop index
  prev_drops, \* _prev_drops: the last count it reported
  out,      \* reordered_pkt in rxAsyncGotPacket, NULL between calls
  written,  \* the last packet written to udp_payload_bev, and num_drops then
  inflight, \* packets in the network: how many copies of each number
  sent, dups

buffer == <<pool, seqOf, full, seq_ok, initial_seq_number, num_drops>>
rx     == <<iov, rxpc, retval, i, prev_drops>>
drain  == <<out, written>>
net    == <<inflight, sent, dups>>
vars   == <<buffer, rx, drain, net>>

Held(f) == {s \in SeqNum : f[s] # NULL}

\* initial_seq_number++ on a uint32_t
NoWrap(s) == s + 1
SeqAfter(s) == (s + 1) % SeqMod

\* Where the stream starts: the first packet ever marked decides.
RestartsEveryPacket(seq_number) == seq_number
StreamStart(seq_number) == IF seq_ok THEN initial_seq_number ELSE seq_number

\* getNext()'s lookup of the packet the stream is waiting for
WaitsForASecond == full[initial_seq_number] # NULL /\ Cardinality(Held(full)) > 1
NextIsHeld == full[initial_seq_number] # NULL

\* full.size() > GIVEUP
OneTooLate == Cardinality(Held(full)) > GIVEUP + 1
HoldsTooMany == Cardinality(Held(full)) > GIVEUP

\* The map entries the give-up loop frees: all but the largest number's.
FreesTheKept(new_max) == Held(full)
FreesNothing(new_max) == {}
GivenUp(new_max) == Held(full) \ {new_max}

Nothing == [seq |-> -1, drops |-> 0]

Init ==
  /\ pool = Chunks
  /\ seqOf = [c \in Chunks |-> 0]
  /\ full = [s \in SeqNum |-> NULL]
  /\ seq_ok = FALSE
  /\ initial_seq_number = 0
  /\ num_drops = 0
  /\ iov = [k \in Slot |-> NULL]
  /\ rxpc = "get"          \* the loop that gives every iovec its first chunk
  /\ retval = VLEN
  /\ i = 0
  /\ prev_drops = 0
  /\ out = NULL
  /\ written = Nothing
  /\ inflight = [s \in SeqNum |-> 0]
  /\ sent = 0
  /\ dups = 0

-----------------------------------------------------------------------------
(* The network and the FPGA (external).  A lost packet is one that stays    *)
(* in flight for ever; any order of arrival is allowed.                     *)

Send ==
  /\ sent + dups < MaxSent
  /\ sent' = sent + 1
  /\ inflight' = [inflight EXCEPT ![(FirstSeq + sent) % SeqMod] = @ + 1]
  /\ UNCHANGED <<buffer, rx, drain, dups>>

Duplicate ==
  /\ dups < MaxDups /\ sent + dups < MaxSent
  /\ \E s \in SeqNum :
       /\ inflight[s] > 0
       /\ inflight' = [inflight EXCEPT ![s] = @ + 1]
  /\ dups' = dups + 1
  /\ UNCHANGED <<buffer, rx, drain, sent>>

-----------------------------------------------------------------------------
(* rxAsyncThread                                                            *)

\* recvmmsg stores one more message in the next iovec ...
RxStore ==
  /\ rxpc = "recv"
  /\ retval < VLEN
  /\ \E s \in SeqNum :
       /\ inflight[s] > 0
       /\ inflight' = [inflight EXCEPT ![s] = @ - 1]
       /\ seqOf' = [seqOf EXCEPT ![iov[retval]] = s]
  /\ retval' = retval + 1
  /\ UNCHANGED <<pool, full, seq_ok, initial_seq_number, num_drops>>
  /\ UNCHANGED <<iov, rxpc, i, prev_drops, drain, sent, dups>>

\* ... and returns once it has one (MSG_WAITFORONE), or fails.
RxReturn ==
  /\ rxpc = "recv"
  /\ rxpc' = IF retval > 0 THEN "mark" ELSE "report"
  /\ i' = 0
  /\ UNCHANGED <<buffer, iov, retval, prev_drops, drain, net>>

\* markFull(iovecs[i].iov_base): map::insert leaves an existing key alone.
MarkFull ==
  /\ rxpc = "mark"
  /\ LET data == iov[i]
         seq_number == seqOf[data]
     IN /\ full' = IF full[seq_number] = NULL
                   THEN [full EXCEPT ![seq_number] = data] ELSE full
        /\ seq_ok' = TRUE
        /\ initial_seq_number' = StreamStart(seq_number)
  /\ iov' = [iov EXCEPT ![i] = NULL]  \* overwritten by the get() loop that follows
  /\ i' = IF i + 1 < retval THEN i + 1 ELSE 0
  /\ rxpc' = IF i + 1 < retval THEN "mark" ELSE "get"
  /\ UNCHANGED <<pool, seqOf, num_drops, retval, prev_drops, drain, net>>

\* iovecs[i].iov_base = get(): any free chunk; an empty pool crashes the program.
Get ==
  /\ rxpc = "get"
  /\ \/ /\ pool # {}
        /\ \E c \in pool :
             /\ pool' = pool \ {c}
             /\ iov' = [iov EXCEPT ![i] = c]
        /\ i' = IF i + 1 < retval THEN i + 1 ELSE 0
        /\ rxpc' = IF i + 1 < retval THEN "get" ELSE "report"
     \/ /\ pool = {}
        /\ rxpc' = "crashed"
        /\ UNCHANGED <<pool, iov, i>>
  /\ UNCHANGED <<seqOf, full, seq_ok, initial_seq_number, num_drops>>
  /\ UNCHANGED <<retval, prev_drops, drain, net>>

\* num_drops is read without the mutex; a change sends UDP_SEQUENCE_DROP_EV.
Report ==
  /\ rxpc = "report"
  /\ prev_drops' = num_drops
  /\ rxpc' = "recv"
  /\ retval' = 0
  /\ UNCHANGED <<buffer, iov, i, drain, net>>

-----------------------------------------------------------------------------
(* drainOOOThread: rxAsyncGotPacket in a loop                               *)

Running == rxpc # "crashed"

\* getNext() finds the packet the stream is waiting for.
GetNextFound ==
  /\ Running
  /\ out = NULL
  /\ NextIsHeld
  /\ out' = full[initial_seq_number]
  /\ full' = [full EXCEPT ![initial_seq_number] = NULL]
  /\ initial_seq_number' = SeqAfter(initial_seq_number)
  /\ UNCHANGED <<pool, seqOf, seq_ok, num_drops, rx, written, net>>

\* getNext() gives the hole up: only the largest number held is kept.
GetNextGiveUp ==
  /\ Running
  /\ out = NULL
  /\ ~NextIsHeld
  /\ HoldsTooMany
  /\ \E new_max \in Held(full) :
       /\ \A s \in Held(full) : s <= new_max
       /\ pool' = pool \union {full[s] : s \in GivenUp(new_max)}
       /\ full' = [s \in SeqNum |-> IF s = new_max THEN full[s] ELSE NULL]
       /\ initial_seq_number' = new_max
  /\ num_drops' = num_drops + 1
  /\ UNCHANGED <<seqOf, seq_ok, rx, drain, net>>

\* bufferevent_write(udp_payload_bev, reordered_pkt) and release(reordered_pkt).
WriteAndRelease ==
  /\ Running
  /\ out # NULL
  /\ written' = [seq |-> seqOf[out], drops |-> num_drops]
  /\ pool' = pool \union {out}
  /\ out' = NULL
  /\ UNCHANGED <<seqOf, full, seq_ok, initial_seq_number, num_drops, rx, net>>

-----------------------------------------------------------------------------
Next ==
  \/ Send \/ Duplicate
  \/ RxStore \/ RxReturn \/ MarkFull \/ Get \/ Report
  \/ GetNextFound \/ GetNextGiveUp \/ WriteAndRelease

Spec == Init /\ [][Next]_vars

\* Both threads keep running: each loops until higgsRunThread is cleared.
Fairness ==
  /\ WF_vars(RxReturn) /\ WF_vars(MarkFull) /\ WF_vars(Get) /\ WF_vars(Report)
  /\ WF_vars(GetNextFound) /\ WF_vars(GetNextGiveUp) /\ WF_vars(WriteAndRelease)

FairSpec == Spec /\ Fairness

-----------------------------------------------------------------------------
(* Properties                                                               *)

\* Every variable has the type its declaration in the code gives it.
TypeOK ==
  /\ pool \subseteq Chunks
  /\ seqOf \in [Chunks -> SeqNum]
  /\ full \in [SeqNum -> Chunks \union {NULL}]
  /\ seq_ok \in BOOLEAN
  /\ initial_seq_number \in SeqNum
  /\ num_drops \in Nat
  /\ iov \in [Slot -> Chunks \union {NULL}]
  /\ rxpc \in {"recv", "mark", "get", "report", "crashed"}
  /\ retval \in 0..VLEN
  /\ i \in Slot
  /\ prev_drops \in Nat
  /\ out \in Chunks \union {NULL}
  /\ written \in [seq : SeqNum \union {-1}, drops : Nat]
  /\ inflight \in [SeqNum -> Nat]
  /\ sent \in Nat
  /\ dups \in Nat

\* A chunk has one owner: the pool, one iovec, one entry of the map or the
\* drain thread.  release() and the give-up loop free chunks the receive thread
\* is handed again at once, so a chunk freed twice, or freed while it is still in
\* the map, would let recvmmsg overwrite a packet that is not delivered yet.
ChunkHasOneOwner ==
  /\ \A k \in Slot : iov[k] # NULL =>
       /\ iov[k] \notin pool
       /\ iov[k] # out
       /\ \A l \in Slot : iov[l] = iov[k] => l = k
  /\ \A s \in SeqNum : full[s] # NULL =>
       /\ full[s] \notin pool
       /\ full[s] # out
       /\ \A k \in Slot : iov[k] # full[s]
       /\ \A t \in SeqNum : full[t] = full[s] => t = s
  /\ out # NULL => out \notin pool

\* The chunks no thread, map entry or free list refers to any more.
Lost == {c \in Chunks :
           /\ c \notin pool
           /\ c # out
           /\ \A k \in Slot : iov[k] # c
           /\ \A s \in SeqNum : full[s] # c}

\* While no sequence number is reused, a chunk is lost for good only to a packet
\* the network duplicated: markFull's map::insert refuses the second copy and
\* nobody frees its chunk.  Without duplicates the pool never shrinks.
LostOnlyToDuplicates ==
  MaxSent <= SeqMod => Cardinality(Lost) <= dups

\* The buffer implements the ordered stream: what drainOOOThread writes to
\* udp_payload_bev is consecutive except across a counted give-up, whatever the
\* network reorders, loses or duplicates and however the threads interleave.
Stream == INSTANCE OrderedStream WITH
  started <- seq_ok,
  cursor  <- IF out # NULL THEN seqOf[out] ELSE initial_seq_number,
  drops   <- num_drops,
  last    <- written

ImplementsOrderedStream == Stream!Spec

\* A packet that is held and next in line reaches EventDsp: rxAsyncGotPacket is
\* called again until getNext finds nothing.
NextInLineIsDelivered ==
  \A s \in SeqNum :
    (full[s] # NULL /\ initial_seq_number = s /\ Running)
      ~> (written.seq = s \/ ~Running)

\* A hole never wedges the stream: with more than GIVEUP packets held, getNext
\* delivers or gives up until at most GIVEUP are left.
HoleIsGivenUp ==
  Cardinality(Held(full)) > GIVEUP
    ~> (Cardinality(Held(full)) <= GIVEUP \/ ~Running)

=============================================================================
