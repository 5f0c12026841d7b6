---------------------------- MODULE MCEquityBook ----------------------------
(* Small instances of EquityBook for TLC. *)
EXTENDS EquityBook

CONSTANTS t1, t2

Budget(e, f, d, c) == [events |-> e, disturbed |-> f, crashes |-> d, days |-> c]

\* Two events in a session that reaches its close, or with a death of the process;
\* one event, a failing call, a death and a close; one event, two deaths and a close.
BookBudgets == {Budget(2, 0, 0, 1), Budget(2, 0, 1, 0), Budget(1, 1, 1, 1),
                Budget(1, 0, 2, 1)}
QuietBudgets == {Budget(1, 0, 0, 1)}

OneTicker == [e \in Events |-> t1]
TwoTickers == [e \in Events |-> IF e = 1 THEN t1 ELSE t2]
=============================================================================
