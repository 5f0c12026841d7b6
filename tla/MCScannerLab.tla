---------------------------- MODULE MCScannerLab ----------------------------
(* Small days with every boundary of the real one, for TLC: two slots      *)
(* before the open and five after it, of which two trigger, a failure      *)
(* window of two, an opening range of two, and a fetch of four bars.       *)
EXTENDS ScannerLab

CONSTANT t1

MCHypotheses == <<"failed_breakout", "vwap_reject", "gap_fade", "prior_low_break">>

MCPrior == [t \in Tickers |-> [high |-> 104, low |-> 96, close |-> 100]]

FiveMinutes(o, h, l, c, v) == [ts |-> 0, open |-> o, high |-> h, low |-> l, close |-> c, volume |-> v]

Up == FiveMinutes(103, 106, 103, 105, 1)        \* opens with a gap, closes above the prior high
Inside == FiveMinutes(105, 105, 99, 100, 2)     \* closes below the opening range of Up
Down == FiveMinutes(100, 100, 94, 95, 1)        \* closes below the prior low

\* The bar in the making: it may end anywhere.
MCForming == {Inside}

\* A slot without a trade has no bar.
Traded(shape) ==
    SelectSeq([i \in 1 .. LastSlot |-> [shape[i] EXCEPT !.ts = i - 1]],
              LAMBDA bar : bar.volume > 0)

NoTrade == FiveMinutes(0, 0, 0, 0, 0)

\* Nobody traded before the open: breakouts that fail at once, later, over a slot without
\* a trade, or too late; two breakouts; a breakdown, a one-bar sweep, a breakdown in the
\* last slot that counts; a strong bar at the VWAP that is far above the day's in the end.
QuietMornings ==
    {<<NoTrade, NoTrade>> \o d : d \in {
        <<Up, Up, Inside, Down, Inside>>,
        <<Up, Up, NoTrade, Inside, Down>>,
        <<Up, Up, Up, Up, Inside>>,
        <<Down, Up, Up, Inside, Inside>>,
        <<Down, Down, Down, Inside, Up>>,
        <<Down, Down, Inside, Down, Down>>,
        <<Up, Inside, Down, Down, Inside>>,
        <<Inside, Inside, Down, Down, Up>>}}

\* A day whose gap only shows once the fetch has dropped its first bar; a breakout and a
\* breakdown whose bars move up in a fetch that was cut.
BusyMornings ==
    {<<Down, Up, Up, Up, Up, Inside, Down>>,
     <<Inside, NoTrade, Inside, Inside, Up, Inside, Up>>,
     <<Up, Down, Inside, Down, Down, Up, Inside>>}

MCDays == {[t \in Tickers |-> Traded(d)] : d \in QuietMornings \union BusyMornings}
=============================================================================
