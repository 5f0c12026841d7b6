--------------------------- MODULE MCKillSwitches ---------------------------
(* Small instances of KillSwitches for TLC. *)
EXTENDS KillSwitches

Budget(t, f, r) == [trades |-> t, faults |-> f, restarts |-> r]

\* Two closing trades; one trade, which reaches the daily limit, and a restart or a
\* failing call.
GateBudgets == {Budget(2, 0, 0), Budget(1, 0, 1), Budget(1, 1, 0)}
LossBudget == {Budget(1, 0, 0)}
NoBudget == {Budget(0, 0, 0)}
=============================================================================
