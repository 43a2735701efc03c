---------------------------- MODULE OrderedStream ----------------------------
(***************************************************************************)
(* What the reorder buffer promises EventDsp: a stream of packets whose      *)
(* sequence numbers run up by one, modulo their width, from the first        *)
(* packet on.  The only exception is a resynchronisation, which moves the    *)
(* cursor anywhere and is counted, so that whoever reads the count knows     *)
(* that the stream has a gap.                                                *)
(***************************************************************************)
EXTENDS Integers

CONSTANT SeqMod

VARIABLES
  started, \* the first packet has fixed where the stream begins
  cursor,  \* the sequence number of the next packet delivered
  drops,   \* resynchronisations so far
  last     \* the last packet delivered, and drops then

vars == <<started, cursor, drops, last>>

StreamNum == 0..(SeqMod - 1)

Init ==
  /\ started = FALSE
  /\ cursor = 0
  /\ drops = 0
  /\ last = [seq |-> -1, drops |-> 0]

Start ==
  /\ ~started
  /\ started' = TRUE
  /\ cursor' \in StreamNum
  /\ UNCHANGED <<drops, last>>

Deliver ==
  /\ started
  /\ last' = [seq |-> cursor, drops |-> drops]
  /\ cursor' = (cursor + 1) % SeqMod
  /\ UNCHANGED <<started, drops>>

Resync ==
  /\ started
  /\ drops' = drops + 1
  /\ cursor' \in StreamNum
  /\ UNCHANGED <<started, last>>

Next == Start \/ Deliver \/ Resync

Spec == Init /\ [][Next]_vars
=============================================================================
