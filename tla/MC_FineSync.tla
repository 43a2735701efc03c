---------------------------- MODULE MC_FineSync ----------------------------
(* The synchronisation loop on small windows.                              *)
EXTENDS FineSync

\* No offset, one to each side, and one that a mixed window can halve.
MCOffsets == {-1, 0, 1, 2}
=============================================================================
