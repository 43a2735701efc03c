------------------------------ MODULE RingbusOut ------------------------------
(***************************************************************************)
(* How ringbus words leave the node.  A caller of zmqRingbusPeerLater puts *)
(* its word at the end of pending_ring_data and then adds a timer; every   *)
(* timer, whichever word it was made for, sends the word at the front.     *)
(* Words for another node go to its zmq thread; words for this node's own  *)
(* FPGAs go through HiggsRing::send, which any thread may call and which   *)
(* keeps a gap between words.                                              *)
(*                                                                         *)
(* Timers run on the EventDsp thread, which is itself a caller.  How long  *)
(* a timer waits is left open: an added timer may expire at any time.      *)
(* exp.aggregate_attached_rb, set only by tests that run against the mock, *)
(* is off.                                                                 *)
(***************************************************************************)
EXTENDS GenericOperator, FiniteSets, FiniteSetsExt, SequencesExt

CONSTANTS Thread,    \* threads that send words
          DspThread, \* the one that runs the timers
          Fpga,      \* where words go
          Own,       \* those on this node's ring; the others are another node's
          Program,   \* per thread: the operations it sends, in order
          Queued,    \* threads that use zmqRingbusPeerLater; the others send at once
          MINIMUM_GAP

ASSUME RingbusAssumption ==
    /\ Own \subseteq Fpga /\ Queued \subseteq Thread
    /\ DspThread \in Queued
    /\ IsFiniteSet(Thread)
    /\ MINIMUM_GAP \in Nat
    /\ Program \in [Thread -> Seq([fpga : Fpga, op : STRING \ {NoOp}, val : 0..(HALF * HALF - 1)])]

VARIABLES pc,       \* per thread: words it has begun to send
          adding,   \* threads between push_back and evtimer_add
          pending_ring_data,
          armed,    \* timers added and not expired
          sending,  \* per thread: the word it is in HiggsRing::send with
          locked,   \* threads that hold HiggsRing::_mutex
          sleeps,   \* per thread: how long it still sleeps
          since,    \* time since last_send, up to MINIMUM_GAP
          net,      \* words on their way to the other node
          storage,  \* per FPGA: the half it keeps
          applied   \* history, per FPGA: the operations it did

queue == <<adding, pending_ring_data, armed>>
ring == <<locked, sleeps, since>>
fpgas == <<storage, applied>>
vars == <<pc, queue, sending, ring, net, fpgas>>

Idle == <<>>

\* The n-th word of a thread.
Word(t, n) ==
    LET cmd == Program[t][(n + 1) \div 2]
    IN  [fpga |-> cmd.fpga, w |-> Op(cmd.op, cmd.val)[2 - (n % 2)]]
Words(t) == 2 * Len(Program[t])

Init ==
    /\ pc = [t \in Thread |-> 0] /\ adding = {}
    /\ pending_ring_data = <<>> /\ armed = 0
    /\ sending = [t \in Thread |-> Idle] /\ locked = {}
    /\ sleeps = [t \in Thread |-> 0] /\ since = MINIMUM_GAP
    /\ net = <<>>
    /\ storage = [f \in Fpga |-> EmptyStorage]
    /\ applied = [f \in Fpga |-> <<>>]

Free(t) == t \notin adding /\ sending[t] = Idle

\* partnerOp and the other callers: each word is one call.
Next2Send(t) == pc[t] < Words(t) /\ Free(t)

\* zmqRingbusPeerLater, under _rb_later_mutex.  A thread is either in Queued or
\* calls HiggsRing::send: EventDsp's own direct calls (cs31CFOTurnoff between its
\* operations) are left out.
Push(t) ==
    /\ t \in Queued /\ Next2Send(t)
    /\ pending_ring_data' = Append(pending_ring_data, Word(t, pc[t] + 1))
    /\ adding' = adding \cup {t}
    /\ pc' = [pc EXCEPT ![t] = @ + 1]
    /\ UNCHANGED <<armed, sending, ring, net, fpgas>>

\* zmqRingbusPeerLater, after it
Arm(t) ==
    /\ t \in adding
    /\ adding' = adding \ {t} /\ armed' = armed + 1
    /\ UNCHANGED <<pc, pending_ring_data, sending, ring, net, fpgas>>

ArmThenPush(t) ==
    \/ /\ t \in Queued /\ Next2Send(t)
       /\ adding' = adding \cup {t} /\ armed' = armed + 1
       /\ UNCHANGED <<pc, pending_ring_data, sending, ring, net, fpgas>>
    \/ /\ t \in adding
       /\ adding' = adding \ {t}
       /\ pending_ring_data' = Append(pending_ring_data, Word(t, pc[t] + 1))
       /\ pc' = [pc EXCEPT ![t] = @ + 1]
       /\ UNCHANGED <<armed, sending, ring, net, fpgas>>
Later(t) == Push(t) \/ Arm(t)

\* A thread that calls HiggsRing::send itself: zmqHandleMessage for the words
\* of another node, cs31CFOCorrection and its like.
Direct(t) ==
    /\ t \in Thread \ Queued /\ Next2Send(t)
    /\ sending' = [sending EXCEPT ![t] = <<Word(t, pc[t] + 1)>>]
    /\ pc' = [pc EXCEPT ![t] = @ + 1]
    /\ UNCHANGED <<queue, ring, net, fpgas>>

\* The EventDsp thread serves timers between its own commands.
DspServes == Free(DspThread) /\ pc[DspThread] % 2 = 0

\* handle_rb_later: the word at the front, or nothing when there is none.
TheNewest(s) == Len(s)
TheOldest(s) == 1

Fire ==
    LET front == TheOldest(pending_ring_data)
        payload == SubSeq(pending_ring_data, front, front)
        own == \A i \in 1..Len(payload) : payload[i].fpga \in Own
    IN  /\ DspServes /\ armed > 0
        /\ armed' = armed - 1
        /\ pending_ring_data' = RemoveAt(pending_ring_data, front)
        /\ \/ own /\ sending' = [sending EXCEPT ![DspThread] = payload] /\ UNCHANGED net
           \/ ~own /\ net' = net \o payload /\ UNCHANGED sending
        /\ UNCHANGED <<pc, adding, ring, fpgas>>

\* An FPGA takes a word.
Takes(word) ==
    LET f == word.fpga
    IN  /\ storage' = [storage EXCEPT ![f] = Stored(@, word.w)]
        /\ applied' = [applied EXCEPT ![f] = @ \o Completed(storage[f], word.w)]

\* The words of one node reach another in order.
NetArrives ==
    /\ net # <<>>
    /\ Takes(Head(net)) /\ net' = Tail(net)
    /\ UNCHANGED <<pc, queue, sending, ring>>

\* HiggsRing::send reads the clock when it has the lock, and sleeps what is
\* left of the gap while it holds it.
WithoutTheLock(t) ==
    /\ sending[t] # Idle /\ t \notin locked
    /\ locked' = locked \cup {t}
    /\ sleeps' = [sleeps EXCEPT ![t] = MINIMUM_GAP - since]
    /\ UNCHANGED <<pc, queue, sending, since, net, fpgas>>
WakesEarly(t) ==
    /\ sending[t] # Idle /\ locked = {}
    /\ locked' = locked \cup {t}
    /\ sleeps' = [sleeps EXCEPT ![t] = Max({MINIMUM_GAP - since - 1, 0})]
    /\ UNCHANGED <<pc, queue, sending, since, net, fpgas>>
DropsWhenEarly(t) ==
    /\ sending[t] # Idle /\ locked = {}
    /\ \/ since = MINIMUM_GAP /\ locked' = {t} /\ UNCHANGED sending
       \/ /\ since < MINIMUM_GAP
          /\ sending' = [sending EXCEPT ![t] = Idle] /\ UNCHANGED locked
    /\ UNCHANGED <<pc, queue, sleeps, since, net, fpgas>>
RbLock(t) ==
    /\ sending[t] # Idle /\ locked = {}
    /\ locked' = locked \cup {t}
    /\ sleeps' = [sleeps EXCEPT ![t] = MINIMUM_GAP - since]
    /\ UNCHANGED <<pc, queue, sending, since, net, fpgas>>

RbSend(t) ==
    /\ t \in locked /\ sleeps[t] = 0
    /\ Takes(Head(sending[t]))
    /\ since' = 0 /\ locked' = locked \ {t}
    /\ sending' = [sending EXCEPT ![t] = Idle]
    /\ UNCHANGED <<pc, queue, sleeps, net>>

Tick ==
    /\ since < MINIMUM_GAP \/ \E t \in Thread : sleeps[t] > 0
    /\ since' = Min({since + 1, MINIMUM_GAP})
    /\ sleeps' = [t \in Thread |-> Max({sleeps[t] - 1, 0})]
    /\ UNCHANGED <<pc, queue, sending, locked, net, fpgas>>

Step(t) == Later(t) \/ Direct(t) \/ RbLock(t) \/ RbSend(t)

Next == Fire \/ NetArrives \/ Tick \/ \E t \in Thread : Step(t)

\* Timers expire, time passes, and no thread stops in the middle of a call.
Fairness ==
    /\ WF_vars(Fire) /\ WF_vars(NetArrives) /\ WF_vars(Tick)
    /\ \A t \in Thread : WF_vars(Later(t)) /\ WF_vars(Direct(t))
                         /\ WF_vars(RbLock(t)) /\ WF_vars(RbSend(t))

Spec == Init /\ [][Next]_vars /\ Fairness

-----------------------------------------------------------------------------
\* Where the operations of thread t for FPGA f are in its program, the threads
\* that have any, and those operations in order: the k-th is the one with k
\* places up to its own.
Places(f, t) == {i \in 1..Len(Program[t]) : Program[t][i].fpga = f}
Sent(f) == {t \in Thread : Places(f, t) # {}}
Rank(S, i) == Cardinality({j \in S : j <= i})
Asked(f, t) ==
    [k \in 1..Cardinality(Places(f, t)) |->
        Program[t][CHOOSE i \in Places(f, t) : Rank(Places(f, t), i) = k]]
Did(f) ==
    [i \in 1..Len(applied[f]) |->
        [fpga |-> f, op |-> applied[f][i].op, val |-> applied[f][i].val]]

\* No two threads use the same operation on the same FPGA.
OwnOperations ==
    \A t, u \in Thread : \A i \in 1..Len(Program[t]), j \in 1..Len(Program[u]) :
        Program[t][i].fpga = Program[u][j].fpga /\ Program[t][i].op = Program[u][j].op
            => t = u

\* Types, and the invariant of the lock: it has at most one holder, who is in
\* HiggsRing::send.
TypeOK ==
    /\ \A t \in Thread : pc[t] \in 0..Words(t) /\ sleeps[t] \in 0..MINIMUM_GAP
    /\ armed \in Nat /\ adding \subseteq Queued /\ since \in 0..MINIMUM_GAP
    /\ Cardinality(locked) <= 1
    /\ \A t \in locked : sending[t] # Idle

\* No word waits without a timer that will send it: although timers are added
\* outside the lock and take whatever is in front, there is one for every word
\* but those whose callers are about to add theirs.
NothingStranded == Len(pending_ring_data) = armed + Cardinality(adding)

\* HiggsRing::send keeps minimum_gap between any two words of any threads.
GapKept == [][\A t \in Thread : (t \in locked /\ t \notin locked') => since = MINIMUM_GAP]_vars

\* An FPGA never acts on halves of two operations, whoever sends to it, as long
\* as no two threads use the same operation on it.
NoMixedValue ==
    OwnOperations =>
        \A f \in Fpga : \A i \in 1..Len(applied[f]) :
            \E t \in Thread : \E j \in 1..Len(Program[t]) : Program[t][j] = Did(f)[i]

\* What only one thread controls does what that thread asked for, in order and
\* once, whatever delays its words were given.
SoleUserIsObeyed ==
    \A f \in Fpga : \A t \in Thread :
        Sent(f) = {t} => IsPrefix(Did(f), Asked(f, t))

\* Every word leaves, and a sole user's last operation is done.
AllLeave ==
    <>(/\ \A t \in Thread : pc[t] = Words(t) /\ Free(t)
       /\ pending_ring_data = <<>> /\ net = <<>>
       /\ \A f \in Fpga : \A t \in Thread : Sent(f) = {t} => Did(f) = Asked(f, t))
=============================================================================
