--------------------------- MODULE MCTrailingStop ---------------------------
(* TrailingStop for TLC: a $1.20 fill whose initial stop of 99.6 cents is    *)
(* rounded up to the cent, and quotes around every threshold of the trail.   *)
EXTENDS TrailingStop

\* Below, between and above the strategy's and the broker's initial stop; around
\* the entry and the 2% of the stale exit; the 5% activation, where the trail is
\* still below breakeven, and the cents above it; around the 40% regime.
MCQuotes == {80, 99, 100, 113, 122, 125, 126, 127, 128, 130, 167, 168, 180}

MCFewQuotes == {99, 122, 126, 128, 168}
=============================================================================
