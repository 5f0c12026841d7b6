----------------------------- MODULE ShortLedger -----------------------------
(***************************************************************************)
(* What the scanner_trades table promises its readers (the dashboard, the  *)
(* daily loss, the evaluation of the scanner): one row per event, opened   *)
(* once, closed once, with or without an exit price, and then left alone.  *)
(*                                                                         *)
(* EquityBook is shown to implement it.                                    *)
(***************************************************************************)
CONSTANT Events     \* scanner events: the unique key of a row

VARIABLE row        \* event -> what the table holds for it

Statuses == {"none", "open", "priced", "unpriced"}

TypeOK == row \in [Events -> Statuses]

Init == row = [e \in Events |-> "none"]

\* insert_scanner_trade.
Open(e) ==
    /\ row[e] = "none"
    /\ row' = [row EXCEPT ![e] = "open"]

\* close_scanner_trade, with the price of a fill or without one.
Close(e) ==
    /\ row[e] = "open"
    /\ \E closed \in {"priced", "unpriced"} : row' = [row EXCEPT ![e] = closed]

Next == \E e \in Events : Open(e) \/ Close(e)

Spec == Init /\ [][Next]_row
=============================================================================
