----------------------------- MODULE TradeLedger -----------------------------
(***************************************************************************)
(* What the option journal promises its readers (the dashboard, the daily  *)
(* loss, the study of closed trades, a restart): a signal is bought once,  *)
(* is marked as taken after that and before its trade is booked, and gets  *)
(* one trades row, which is never followed by another.  A bought signal    *)
(* may miss its mark, its row or both: a death or a failing call takes     *)
(* them.                                                                   *)
(*                                                                         *)
(* OptionBook is shown to implement it.                                    *)
(***************************************************************************)
EXTENDS Sequences

CONSTANTS
    Signals,        \* rows of the signals table
    Reasons         \* values of exit_reason

VARIABLES
    bought,         \* signals whose entry order has filled
    taken,          \* signals.taken
    trades          \* signal -> the exit_reason of each of its trades rows

Init ==
    /\ bought = {} /\ taken = [s \in Signals |-> FALSE]
    /\ trades = [s \in Signals |-> <<>>]

\* The entry order fills.
Buy(s) ==
    /\ s \notin bought
    /\ bought' = bought \union {s}
    /\ UNCHANGED <<taken, trades>>

\* UPDATE signals SET taken = true.
Take(s) ==
    /\ s \in bought /\ ~taken[s] /\ trades[s] = <<>>
    /\ taken' = [taken EXCEPT ![s] = TRUE]
    /\ UNCHANGED <<bought, trades>>

\* insert_trade, whoever closes the position.
Book(s) ==
    /\ s \in bought /\ trades[s] = <<>>
    /\ \E reason \in Reasons : trades' = [trades EXCEPT ![s] = <<reason>>]
    /\ UNCHANGED <<bought, taken>>

Next == \E s \in Signals : Buy(s) \/ Take(s) \/ Book(s)

Spec == Init /\ [][Next]_<<bought, taken, trades>>
=============================================================================
