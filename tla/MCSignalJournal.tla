--------------------------- MODULE MCSignalJournal ---------------------------
(* Small instances of SignalJournal for TLC. *)
EXTENDS SignalJournal

\* The first two windows overlap, as those of 1 and 5 minutes do, and the last one,
\* as those of 15 and 30, stands alone.
StudyOffsets == {0, 1, 3}
TwoGains == {-20, 30}

\* A grid of prices around a post of three cents and one of $2.50, and one market for
\* each of the other gates.
Quotes(bids, asks) == {NoAnswer} \union [bid : bids, ask : asks]
Answers(posted, quotes) ==
    [age : {20}, isOpen : {TRUE}, posted : {posted}, alpaca : quotes, polygon : quotes,
     iv : {60, NoIv}]
Typical == [age |-> 20, isOpen |-> TRUE, posted |-> 250, alpaca |-> [bid |-> 250, ask |-> 255],
            polygon |-> NoAnswer, iv |-> 60]
SomeMarkets ==
    Answers(3, Quotes(0 .. 4, 0 .. 4)) \union Answers(1, Quotes(0 .. 2, 0 .. 2))
    \union Answers(250, Quotes({0, 200, 226, 227, 230, 250}, {225, 226, 250, 274, 275}))
    \union Answers(700, Quotes({680}, {690}))
    \union {[Typical EXCEPT !.age = 200], [Typical EXCEPT !.isOpen = FALSE],
            [Typical EXCEPT !.iv = 200]}

Budget(rejected, entered, failed, ended) ==
    [rejected |-> rejected, entered |-> entered, failed |-> failed, ended |-> ended]

\* Two positions and a failing call; one position with a failing call and a death of the
\* process, or with two failing calls; a rejected post with all of them.
JournalBudgets == {
    Budget(0, 2, 1, 0), Budget(0, 1, 1, 1), Budget(0, 1, 2, 0), Budget(1, 0, 2, 1),
    Budget(1, 1, 0, 0)}
=============================================================================
