---------------------------- MODULE MCOptionBook ----------------------------
(* Small instances of OptionBook for TLC. *)
EXTENDS OptionBook

CONSTANTS c1, c2

TwoContracts == [s \in Signals |-> IF s = 1 THEN c1 ELSE c2]
Budget(p, o, d, c, m, now) ==
    [posts |-> p, open |-> o, disturbed |-> d, crashes |-> c, stopMoves |-> m, sellNow |-> now]

\* Two positions together and a ratchet while nothing fails; two positions, never
\* both in the book and nobody pressing "Sell now", when the process dies; one signal, a
\* failing call and a death.
SafetyBudgets ==
    {Budget(2, 2, 0, 0, 1, TRUE), Budget(2, 1, 0, 1, 0, FALSE), Budget(1, 1, 1, 1, 0, TRUE)}
LivenessBudgets == {Budget(1, 1, 1, 0, 1, TRUE)}
QuietBudgets == {Budget(1, 1, 0, 0, 0, TRUE)}

OneContract == [s \in Signals |-> c1]
=============================================================================
