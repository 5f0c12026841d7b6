------------------------------ MODULE EventFeed ------------------------------
(***************************************************************************)
(* What the scanner promises the equity book: a key (hypothesis, ticker)   *)
(* is journaled at most once a day, and only what is journaled is handed   *)
(* over, each key at most once.  Module EquityBook takes its events this   *)
(* way: EventArrives is Hand.                                              *)
(*                                                                         *)
(* ScannerLab is shown to implement it.                                    *)
(***************************************************************************)
EXTENDS Integers

CONSTANT Keys

VARIABLES
    journaled,      \* the keys with a scanner_events row of the day
    handed          \* key -> the signals the orchestrator took for it

Init ==
    /\ journaled = {}
    /\ handed = [k \in Keys |-> 0]

Journal(k) ==
    /\ k \notin journaled
    /\ journaled' = journaled \union {k}
    /\ UNCHANGED handed

Hand(k) ==
    /\ k \in journaled /\ handed[k] = 0
    /\ handed' = [handed EXCEPT ![k] = 1]
    /\ UNCHANGED journaled

Next == \E k \in Keys : Journal(k) \/ Hand(k)

Spec == Init /\ [][Next]_<<journaled, handed>>
=============================================================================
