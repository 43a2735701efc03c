---------------------------- MODULE MC_Retransmit ----------------------------
(* Bounds of the runs of Retransmit.                                       *)
EXTENDS Retransmit

Nothing == [d \in Damage |-> 0]
BudgetOf(l, e, b, c, h, r) ==
    [Nothing EXCEPT !["lost"] = l, !["empty"] = e, !["bad"] = b, !["cut"] = c,
                    !["hash"] = h, !["request"] = r]

Setting(words, prompt, waiting, packets, budgetOf) ==
    [words |-> words, prompt |-> prompt, waiting |-> waiting, packets |-> packets,
     budget |-> budgetOf]

\* Two bunches lost and one decoded to nothing, with any delays; bunches large
\* enough for the loose comparison of VerifyHash, with one of each other damage.
Gaps  == Setting(2, FALSE, 2, 4, BudgetOf(2, 1, 0, 0, 0, 0))
Loose == Setting(6, TRUE, 6, 8, BudgetOf(1, 0, 1, 1, 1, 1))
\* Bunches far longer than the window of handleRecovery, as in FixedSchedule's
\* modes 1 to 3: a cut bunch whose end is found again still matches its list.
Long  == Setting(11, TRUE, 11, 13, BudgetOf(1, 0, 1, 1, 1, 1))
MC_Settings == {Gaps, Loose, Long}
Shift == {Setting(11, TRUE, 11, 11, BudgetOf(0, 0, 0, 1, 0, 0))}
Wrap == {Setting(1, TRUE, 7, 7, BudgetOf(1, 0, 0, 0, 0, 0))}
=============================================================================
