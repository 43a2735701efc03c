------------------------------ MODULE VerifyHash ------------------------------
(***************************************************************************)
(* VerifyHash on the receiver: the hash lists the arbiter announces        *)
(* (expected) are compared with the ones computed from what was decoded    *)
(* (received), to find out which packets of a bunch were damaged.          *)
(*                                                                         *)
(* The hash of a packet is the packet itself, the hash of a damaged one is *)
(* Bad (the hash of the empty vector).  A list is the sequence number      *)
(* followed by the hashes; the code keeps both in one vector.              *)
(***************************************************************************)
EXTENDS Aging

CONSTANT HashKeep   \* delete_after_us: 5 s in the code

ASSUME HashAssumption == HashKeep \in Nat

VARIABLES expected, received  \* lists [n, seq, hashes, age], oldest first

hashVars == <<expected, received>>

HashInit == expected = <<>> /\ received = <<>>

Bad == 0

-----------------------------------------------------------------------------
(* compare.                                                                *)

Shorter(a, b) == Min({Len(a.hashes), Len(b.hashes)})
LesserSize(a, b) == 1 + Shorter(a, b)
GreaterSize(a, b) == 1 + Max({Len(a.hashes), Len(b.hashes)})

CountsTheSeq(a, b) ==
    {i + 1 : i \in {j \in 1..Shorter(a, b) : a.hashes[j] # b.hashes[j]}}
InvalidIdx(a, b) == {i \in 1..Shorter(a, b) : a.hashes[i] # b.hashes[i]}

Same(a, b) ==
    LesserSize(a, b) - Cardinality(InvalidIdx(a, b))
                     - (IF a.seq = b.seq THEN 0 ELSE 1)

\* Strict for small packets, loose (0.7) for large ones.
Compare(a, b) ==
    IF LesserSize(a, b) < 5
    THEN GreaterSize(a, b) = LesserSize(a, b) /\ Same(a, b) = LesserSize(a, b)
    ELSE 10 * Same(a, b) > 7 * LesserSize(a, b)

-----------------------------------------------------------------------------
(* getStatus.  The received lists are looked at oldest first, each takes   *)
(* the oldest expected list that matches.  What the last of them, the list *)
(* just decoded, is missing is returned.                                   *)

NoReply == [need |-> FALSE]

Reply(a, b) ==
    IF Same(a, b) = GreaterSize(a, b) THEN NoReply
    ELSE [need |-> TRUE, by |-> a.n, of |-> b.n, seq |-> b.seq,
          indices |-> InvalidIdx(a, b)]

Settle(status, a) ==
    LET j == SelectInSeq(status.expected, LAMBDA b : Compare(a, b))
    IN  IF j = 0
        THEN [status EXCEPT !.received = Append(@, a), !.reply = NoReply]
        ELSE [status EXCEPT !.expected = RemoveAt(@, j),
                            !.reply = Reply(a, status.expected[j])]

KeepAll(lists) == lists
PruneOldLists(lists) == NotOlder(lists, HashKeep)

GetStatus(exp, rec) ==
    LET lists == PruneOldLists(rec)
        status[i \in 0..Len(lists)] ==
            IF i = 0
            THEN [expected |-> PruneOldLists(exp), received |-> <<>>, reply |-> NoReply]
            ELSE Settle(status[i - 1], lists[i])
    IN  status[Len(lists)]

\* No key of interest: what getStatus finds missing is not returned.
GotHashListFromPeer(list) ==
    LET status == GetStatus(Append(expected, list), received)
    IN  expected' = status.expected /\ received' = status.received

\* The status after a list that was decoded; its reply is the return value.
GotHashListOverAir(list) ==
    GetStatus(expected, Append(received, list))
=============================================================================
