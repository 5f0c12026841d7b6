----------------------------- MODULE SignalGates -----------------------------
(***************************************************************************)
(* From a signal to the size of its entry: data_service.get_option_quote,  *)
(* validator.validate and _compute_qty, as operators on what the market    *)
(* answers.  Prices are cents, rates are percent.                          *)
(***************************************************************************)
EXTENDS Integers, Sequences

CONSTANTS
    StaleSeconds,       \* signal_stale_seconds
    MaxDeviation,       \* price_deviation_pct
    MaxEntryIv,         \* max_entry_iv, or NotConfigured
    StopLossPct,        \* stop_loss_pct
    SpendCap, MaxQty,   \* max_position_spend_usd, max_qty_per_position
    Markets             \* what the market may answer about a signal

NotConfigured == -1
NoIv == -1
NoAnswer == [bid |-> 0, ask |-> 0]

Prices == [bid : Nat, ask : Nat]
MarketType == [age : Nat, isOpen : BOOLEAN, posted : Nat, alpaca : Prices, polygon : Prices,
               iv : Nat \union {NoIv}]

ASSUME GatesAssumption ==
    /\ {StaleSeconds, MaxDeviation, SpendCap, MaxQty} \subseteq Nat
    /\ MaxEntryIv \in Nat \union {NotConfigured}
    /\ StopLossPct \in 10 .. 99
    /\ Markets \subseteq MarketType

\* DEFAULT_MAX_SPREAD_PCT, and the shares behind one contract.
MaxSpread == 10
Multiplier == 100

\* A source's answer counts if it is a market: two prices that do not cross.
Valid(answer) == answer.bid > 0 /\ answer.ask >= answer.bid

\* Alpaca first, then Polygon; None when neither has a market.
OptionQuote(alpaca, polygon) ==
    IF Valid(alpaca) THEN alpaca ELSE IF Valid(polygon) THEN polygon ELSE NoAnswer

QuoteOf(m) == OptionQuote(m.alpaca, m.polygon)
Quoted(m) == QuoteOf(m) # NoAnswer
Deviation(m) ==
    IF QuoteOf(m).ask < m.posted THEN m.posted - QuoteOf(m).ask ELSE QuoteOf(m).ask - m.posted

\* Faulty variant: the spread in cents against the percentage.
NarrowSpreadInCents(m) == Quoted(m) /\ QuoteOf(m).ask - QuoteOf(m).bid < MaxSpread

\* (ask - bid) / mid < max_spread_pct.
NarrowSpread(m) ==
    Quoted(m) /\ 200 * (QuoteOf(m).ask - QuoteOf(m).bid) < MaxSpread * (QuoteOf(m).bid + QuoteOf(m).ask)

NearPost(m) == Quoted(m) /\ m.posted > 0 /\ 100 * Deviation(m) < MaxDeviation * m.posted

\* A volatility that cannot be computed lets the signal pass.
CalmEntry(m) ==
    \/ MaxEntryIv = NotConfigured
    \/ Quoted(m) /\ (m.iv = NoIv \/ m.iv <= MaxEntryIv)

Gates(m) == <<
    [name |-> "time_age", passed |-> m.age <= StaleSeconds],
    [name |-> "market_open", passed |-> m.isOpen],
    [name |-> "contract_exists", passed |-> Quoted(m)],
    [name |-> "spread", passed |-> NarrowSpread(m)],
    [name |-> "price_deviation", passed |-> NearPost(m)],
    [name |-> "entry_iv", passed |-> CalmEntry(m)] >>

Accepted(m) == \A i \in DOMAIN Gates(m) : Gates(m)[i].passed

\* The first gate that failed.
FailedGate(m) ==
    LET failed == {i \in DOMAIN Gates(m) : ~Gates(m)[i].passed}
    IN  Gates(m)[CHOOSE i \in failed : \A j \in failed : i <= j].name

\* _compute_qty.
Quantity(ask) ==
    IF ask = 0 THEN 0
    ELSE LET affordable == SpendCap \div (Multiplier * ask)
         IN  IF affordable < MaxQty THEN affordable ELSE MaxQty

\* signals.rejection_reason; "" for a signal whose order is sent.
Verdict(m) ==
    IF ~Accepted(m) THEN FailedGate(m)
    ELSE IF Quantity(QuoteOf(m).ask) < 1 THEN "too_expensive" ELSE ""

Verdicts == {Verdict(m) : m \in Markets}
Reasons == {"", "time_age", "market_open", "contract_exists", "spread", "price_deviation",
            "entry_iv", "too_expensive"}

\* The price of the stop order that follows a fill, to the cent, ties to even.
StopPrice(fill) ==
    LET cents == (fill * (100 - StopLossPct)) \div 100
        rest == (fill * (100 - StopLossPct)) % 100
    IN  IF rest > 50 \/ (rest = 50 /\ cents % 2 = 1) THEN cents + 1 ELSE cents

\* Every order that is sent costs at most the spend cap, is close to the posted price,
\* and is not born below its own stop: the market's bid is above the price of the stop
\* that will protect it.  A contract of one or two cents is: its stop rounds to its price.
SoundOrders ==
    \A m \in Markets : Verdict(m) = "" =>
        LET quote == QuoteOf(m) IN
        /\ Quantity(quote.ask) \in 1 .. MaxQty
        /\ Quantity(quote.ask) * Multiplier * quote.ask <= SpendCap
        /\ 100 * quote.ask < (100 + MaxDeviation) * m.posted
        /\ quote.ask > 2 => quote.bid > StopPrice(quote.ask)
=============================================================================
