------------------------------ MODULE RateOracle ------------------------------
(***************************************************************************)
(* The exchange rate of monero (src/quotes/oracle.rs): what the daemon     *)
(* makes of a list of candles, and what the market may answer with.  A     *)
(* price is in sats per XMR, compared exactly as the code compares its     *)
(* fractions.                                                              *)
(***************************************************************************)
EXTENDS Integers, Sequences, FiniteSets, FiniteSetsExt

CONSTANTS
  Minute,     \* 60 s: the length of a candle
  Market,     \* what the exchange may report as the price of each minute, from
              \* the first: nothing where none traded, several where it revises
  Spot        \* prices an unfinished candle may show

ASSUME OracleAssumption ==
  /\ Minute \in Nat \ {0}
  /\ \A m \in DOMAIN Market : Market[m] \subseteq Nat \ {0}
  /\ DOMAIN Market = 1..Len(Market)
  /\ Spot \subseteq Nat \ {0}

Prices(low, open, close, vwap, high) ==
  [low |-> low, open |-> open, close |-> close, vwap |-> vwap, high |-> high]

Candle(start, prices, volume, count) ==
  [start |-> start, prices |-> prices, volume |-> volume, count |-> count]

-----------------------------------------------------------------------------
\* Two candles at least, each on a minute, in order, none from the future.
InOrder(candles, fetched) ==
  /\ Len(candles) >= 2
  /\ \A i \in DOMAIN candles :
       /\ candles[i].start % Minute = 0 /\ candles[i].start <= fetched
       /\ i > 1 => candles[i - 1].start < candles[i].start

Empty(candle) == candle.volume = 0 /\ candle.count = 0

\* Mutant: the newest candle is used, though it is not finished.
MutantNewest(candles) == Max({0} \cup {i \in 1..Len(candles) : ~Empty(candles[i])})

\* The newest candle but the last with any trade in it; 0 for none.
NewestTraded(candles) == Max({0} \cup {i \in 1..(Len(candles) - 1) : ~Empty(candles[i])})

Sane(p) ==
  /\ 0 < p.low /\ p.low <= p.high
  /\ \A price \in {p.open, p.close, p.vwap} : p.low <= price /\ price <= p.high

Usable(candle, fetched) ==
  /\ candle.volume # 0 /\ candle.count # 0
  /\ candle.start + Minute <= fetched
  /\ Sane(candle.prices)

\* parse_kraken_ohlc: the evidence in an answer, at most one.  A candle that
\* is not closed or does not agree with itself refuses the whole answer.
ParseKrakenOhlc(candles, fetched) ==
  LET newest == NewestTraded(candles)
      candle == candles[newest]
  IN IF InOrder(candles, fetched) /\ newest # 0 /\ Usable(candle, fetched)
     THEN {[rate |-> candle.prices.vwap, observed |-> candle.start]}
     ELSE {}

-----------------------------------------------------------------------------
\* The candle of a minute: prices around the average, or no trade.
Traded(m, price) == Candle((m - 1) * Minute, Prices(price, price + 1, price, price, price + 1), 1, 1)
Quiet(m) == Candle((m - 1) * Minute, Prices(0, 0, 0, 0, 0), 0, 0)
Unfinished(m, spot) == Candle((m - 1) * Minute, Prices(spot, spot, spot, spot, spot), 1, 1)

Reports(m) == IF Market[m] = {} THEN {Quiet(m)} ELSE {Traded(m, price) : price \in Market[m]}
Live(m) == {Unfinished(m, spot) : spot \in Spot}

\* What the source answers in its minute m: true, or damaged in one candle.
Honest(m) ==
  {chart \in [1..m -> Live(m) \cup UNION {Reports(i) : i \in 1..m}] :
     \A i \in 1..m : chart[i] \in (IF i = m THEN Live(m) ELSE Reports(i))}
Damaged(chart) ==
  UNION {{[chart EXCEPT ![i].prices.vwap = @ + 2],
          [chart EXCEPT ![i].count = 0],
          [chart EXCEPT ![i].start = @ + Minute]} : i \in DOMAIN chart}

Charts == LET honest == UNION {Honest(m) : m \in DOMAIN Market}
          IN honest \cup UNION {Damaged(chart) : chart \in honest}

Evidence(fetched) == UNION {ParseKrakenOhlc(chart, fetched) : chart \in Charts}
=============================================================================
