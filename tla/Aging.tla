-------------------------------- MODULE Aging --------------------------------
(***************************************************************************)
(* Containers whose entries are kept for a while: sequences, oldest first, *)
(* of records with an age in seconds.  The code keeps the time an entry    *)
(* was put in and computes the age when it looks.                          *)
(***************************************************************************)
EXTENDS Integers, Sequences, SequencesExt

\* One more second for the entries of a container; ages stop at top.
Older(entries, top) ==
    [i \in DOMAIN entries |-> [entries[i] EXCEPT !.age = Min({@ + 1, top})]]

\* pruneOld: the entries no older than keep, in their order.
NotOlder(entries, keep) ==
    LET kept[i \in 0..Len(entries)] ==
            IF i = 0 THEN <<>>
            ELSE IF entries[i].age <= keep THEN Append(kept[i - 1], entries[i])
            ELSE kept[i - 1]
    IN  kept[Len(entries)]
=============================================================================
