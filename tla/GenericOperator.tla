--------------------------- MODULE GenericOperator ---------------------------
(***************************************************************************)
(* siglabs::rb::op and DispatchGeneric: an operation on a 32-bit variable  *)
(* travels as two ringbus words, one with the low and one with the high    *)
(* half of its argument.  The receiver keeps the low half until the high   *)
(* half comes, and checks that both name the same operation and variable.  *)
(* The FPGAs take commands the way DispatchGeneric takes their answers.    *)
(***************************************************************************)
EXTENDS Naturals, Sequences

CONSTANT HALF  \* values of half an argument (2^16)

ASSUME HalfAssumption == HALF \in Nat \ {0, 1}

\* schedule_epoc_storage_op == -1
NoOp == "none"
EmptyStorage == [op |-> NoOp, low |-> 0]

\* The two words of an operation; op stands for the operation and its variable.
Op(op, val) == <<[op |-> op, high |-> FALSE, half |-> val % HALF],
                 [op |-> op, high |-> TRUE, half |-> (val \div HALF) % HALF]>>

\* gotMatchingWord: the storage after word w.  A finished operation stays in it.
Stored(storage, w) ==
    IF ~w.high THEN [op |-> w.op, low |-> w.half]
    ELSE IF storage.op # w.op THEN EmptyStorage ELSE storage

\* The operations word w completes: none or one.
IgnoresTheOp(storage, w) ==
    IF w.high THEN <<[op |-> w.op, val |-> w.half * HALF + storage.low]>> ELSE <<>>
Completed(storage, w) ==
    IF w.high /\ storage.op = w.op
    THEN <<[op |-> w.op, val |-> w.half * HALF + storage.low]>> ELSE <<>>
=============================================================================
