-------------------------- MODULE XmrPayment_proofs --------------------------
(***************************************************************************)
(* Monero payments, for every number of intents, requests, bindings and    *)
(* receipts, every rate and every limit. First the rate source: what it    *)
(* answers with is the market's price. Then the quotes: one that was given *)
(* stays what it was, and none is made from stale evidence. Then the       *)
(* credit: a hold is final and stops all credit, and what the ledger holds *)
(* for an intent is the value of its good receipts, valued once and within *)
(* its limit. Last the two together: what a quote promises is kept.        *)
(***************************************************************************)
EXTENDS XmrPayment, SumLemmas, TLAPS

(***************************************************************************)
(* What the rate source can say.  Of the candles of an answer the newest   *)
(* finished one with trade in it gives the rate; whichever candle of a     *)
(* true chart is damaged, it is that of the market or none.                *)
(***************************************************************************)
LEMMA NewestIs ==
  ASSUME NEW candles, Len(candles) \in Nat, NewestTraded(candles) # 0
  PROVE  /\ NewestTraded(candles) \in 1..(Len(candles) - 1)
         /\ ~Empty(candles[NewestTraded(candles)])
<1>. DEFINE S == {0} \cup {i \in 1..(Len(candles) - 1) : ~Empty(candles[i])}
<1>1. S \subseteq Nat /\ S # {} /\ \A y \in S : y <= Len(candles)
  OBVIOUS
<1>2. \E x \in S : \A y \in S : y <= x
  <2>. HIDE DEF S
  <2>. QED
    BY <1>1, GreatestNatural
<1>3. \E x \in S : \A y \in S : x >= y
  BY <1>1, <1>2
<1>4. NewestTraded(candles) = CHOOSE x \in S : \A y \in S : x >= y
  BY DEF NewestTraded, Max
<1>5. NewestTraded(candles) \in S
  <2>. HIDE DEF S
  <2>. QED
    BY <1>3, <1>4
<1>. QED
  BY <1>5

\* The candles of a true chart.
LEMMA HonestCandles ==
  ASSUME NEW m \in DOMAIN Market, NEW h \in Honest(m)
  PROVE  /\ m \in Nat /\ DOMAIN h = 1..m
         /\ \A n \in 1..m : h[n].start = (n - 1) * Minute
         /\ \A n \in 1..(m - 1) : h[n] \in Reports(n)
<1>0. m \in Nat
  BY OracleAssumption
<1>1. DOMAIN h = 1..m
  BY DEF Honest
<1>2. \A n \in 1..m : h[n] \in (IF n = m THEN Live(m) ELSE Reports(n))
  BY DEF Honest
<1>3. ASSUME NEW n \in 1..m PROVE h[n].start = (n - 1) * Minute
  <2>1. \A candle \in Live(n) : candle.start = (n - 1) * Minute
    BY DEF Live, Unfinished, Candle
  <2>2. \A candle \in Reports(n) : candle.start = (n - 1) * Minute
    BY DEF Reports, Quiet, Traded, Candle
  <2>. QED
    BY <1>2, <2>1, <2>2
<1>4. \A n \in 1..(m - 1) : h[n] \in Reports(n)
  BY <1>0, <1>2
<1>. QED
  BY <1>0, <1>1, <1>3, <1>4

\* One candle of it may be damaged, in one of three ways.
Spoiled(old, new) ==
  \/ new = [old EXCEPT !.prices.vwap = @ + 2]
  \/ new = [old EXCEPT !.count = 0]
  \/ new = [old EXCEPT !.start = @ + Minute]

LEMMA ChartIs ==
  ASSUME NEW chart \in Charts
  PROVE  \E m, h :
           /\ m \in DOMAIN Market /\ h \in Honest(m)
           /\ DOMAIN chart = 1..m /\ Len(chart) = m
           /\ \/ chart = h
              \/ \E i \in 1..m :
                   /\ \A n \in (1..m) \ {i} : chart[n] = h[n]
                   /\ Spoiled(h[i], chart[i])
<1>1. PICK m, h : m \in DOMAIN Market /\ h \in Honest(m) /\ chart \in {h} \cup Damaged(h)
  BY DEF Charts
<1>2. m \in Nat /\ DOMAIN h = 1..m /\ h = [n \in 1..m |-> h[n]]
  <2>1. h = [n \in 1..m |-> h[n]]
    BY <1>1 DEF Honest
  <2>. QED
    BY <1>1, <2>1, HonestCandles
<1>3. \/ chart = h
      \/ \E i \in 1..m : chart \in {[h EXCEPT ![i].prices.vwap = @ + 2],
                                    [h EXCEPT ![i].count = 0],
                                    [h EXCEPT ![i].start = @ + Minute]}
  BY <1>1, <1>2 DEF Damaged
<1>4. chart = [n \in 1..m |-> chart[n]]
  BY <1>2, <1>3
<1>5. Len(chart) = m
  <2>1. PICK f : f = chart /\ f = [n \in 1..m |-> f[n]]
    BY <1>4
  <2>. QED
    BY <1>2, <2>1
<1>6. \/ chart = h
      \/ \E i \in 1..m : /\ \A n \in (1..m) \ {i} : chart[n] = h[n]
                         /\ Spoiled(h[i], chart[i])
  BY <1>2, <1>3 DEF Spoiled
<1>. QED
  BY <1>1, <1>4, <1>5, <1>6

\* Evidence is the average of a whole minute that had trade.
LEMMA EvidenceIsMarket ==
  ASSUME NEW fetched, NEW r, NEW o, [rate |-> r, observed |-> o] \in Evidence(fetched)
  PROVE  r \in Market[o \div Minute + 1] /\ o + Minute <= fetched
<1>1. PICK chart \in Charts : [rate |-> r, observed |-> o] \in ParseKrakenOhlc(chart, fetched)
  BY DEF Evidence
<1>2. PICK k : k = NewestTraded(chart)
  OBVIOUS
<1>3. /\ InOrder(chart, fetched) /\ k # 0 /\ Usable(chart[k], fetched)
      /\ r = chart[k].prices.vwap /\ o = chart[k].start
  BY <1>1, <1>2 DEF ParseKrakenOhlc
<1>4. PICK m, h :
        /\ m \in DOMAIN Market /\ h \in Honest(m)
        /\ DOMAIN chart = 1..m /\ Len(chart) = m
        /\ \/ chart = h
           \/ \E i \in 1..m :
                /\ \A n \in (1..m) \ {i} : chart[n] = h[n]
                /\ Spoiled(h[i], chart[i])
  BY ChartIs
<1>5. m \in Nat /\ k \in 1..(m - 1) /\ ~Empty(chart[k])
  BY <1>2, <1>3, <1>4, NewestIs, HonestCandles
<1>6. /\ h[k] \in Reports(k) /\ h[k].start = (k - 1) * Minute
      /\ h[k + 1].start = k * Minute
  <2>1. k \in 1..m /\ k + 1 \in 1..m /\ (k + 1) - 1 = k
    BY <1>5
  <2>. QED
    BY <1>4, <1>5, <2>1, HonestCandles
<1>7. h[k] = Quiet(k) \/ \E price \in Market[k] : h[k] = Traded(k, price)
  BY <1>6 DEF Reports
<1>8. k \in DOMAIN Market /\ Market[k] \subseteq Nat
  BY <1>4, <1>5, OracleAssumption
<1>9. chart[k] = h[k]
  <2>. SUFFICES ASSUME chart[k] # h[k] PROVE FALSE
    OBVIOUS
  <2>1. Spoiled(h[k], chart[k]) /\ chart[k + 1] = h[k + 1]
    BY <1>4, <1>5
  <2>2. CASE chart[k] = [h[k] EXCEPT !.prices.vwap = @ + 2]
    <3>1. CASE h[k] = Quiet(k)
      BY <1>5, <2>2, <3>1 DEF Quiet, Candle, Empty
    <3>2. ASSUME NEW price \in Market[k], h[k] = Traded(k, price) PROVE FALSE
      <4>1. price \in Nat
        BY <1>8
      <4>2. chart[k].prices.vwap = price + 2 /\ chart[k].prices.high = price + 1
        BY <2>2, <3>2 DEF Traded, Candle, Prices
      <4>. QED
        BY <1>3, <4>1, <4>2 DEF Usable, Sane
    <3>. QED
      BY <1>7, <3>1, <3>2
  <2>3. CASE chart[k] = [h[k] EXCEPT !.count = 0]
    <3>1. chart[k].count = 0
      BY <1>7, <2>3 DEF Quiet, Traded, Candle
    <3>. QED
      BY <1>3, <3>1 DEF Usable
  <2>4. CASE chart[k] = [h[k] EXCEPT !.start = @ + Minute]
    <3>1. chart[k].start = (k - 1) * Minute + Minute
      BY <1>6, <1>7, <2>4 DEF Quiet, Traded, Candle
    <3>2. chart[k].start < chart[k + 1].start
      <4>1. \A i \in 1..m : i > 1 => chart[i - 1].start < chart[i].start
        BY <1>3, <1>4 DEF InOrder
      <4>2. k + 1 \in 1..m /\ k + 1 > 1 /\ (k + 1) - 1 = k
        BY <1>5
      <4>. QED
        BY <4>1, <4>2
    <3>3. (k - 1) * Minute + Minute = k * Minute /\ k * Minute \in Int
      BY <1>5, OracleAssumption
    <3>. QED
      BY <1>6, <2>1, <3>1, <3>2, <3>3
  <2>. QED
    BY <2>1, <2>2, <2>3, <2>4 DEF Spoiled
<1>10. PICK price \in Market[k] : h[k] = Traded(k, price)
  <2>1. ~Empty(Quiet(k))  => FALSE
    BY DEF Empty, Quiet, Candle
  <2>. QED
    BY <1>5, <1>7, <1>9, <2>1
<1>11. r = price /\ o = (k - 1) * Minute
  BY <1>3, <1>9, <1>10 DEF Traded, Candle, Prices
<1>12. o \div Minute + 1 = k
  <2>1. k - 1 \in Nat
    BY <1>5
  <2>2. o \div Minute = k - 1
    BY <1>11, <2>1, OracleAssumption, QuotientOfMultiple
  <2>. QED
    BY <1>5, <2>2
<1>13. o + Minute <= fetched
  BY <1>3 DEF Usable
<1>. QED
  BY <1>11, <1>12, <1>13

-----------------------------------------------------------------------------
Made == [pc : {"fetching", "issuing", "failing", "binding"}, id : Id,
         by : Client, since : Nat, quote : Quote \cup {NoRow}]

QuoteTyped ==
  /\ now \in Nat /\ lastEpoch \in Nat
  /\ requests \in [Id -> Request \cup {NoRow}]
  /\ watermark \in Watermark \cup {NoRow}
  /\ binding \in [Id -> Scope \cup {NoRow}]
  /\ call \in [Call -> Made \cup {Idle}]
  /\ given \in [Id -> SUBSET Quote]

\* A call that was made has its row, and one that issues has its evidence.
CallsAreReserved ==
  \A c \in Call : call[c] # Idle =>
    /\ requests[call[c].id] # NoRow
    /\ call[c].pc = "issuing" => call[c].quote \in Quote

\* A time and a watermark bound the time and rate of a quote made.
BoundedBy(q, t, w) ==
  /\ q \in Quote
  /\ q.issued <= t
  /\ w # NoRow
  /\ \/ q.observed < w.at
     \/ q.observed = w.at /\ q.rate = w.rate
QuotesBounded ==
  \A i \in Id : Ready(requests[i]) =>
    BoundedBy(requests[i].quote, lastEpoch, watermark)

QuoteInv == QuoteTyped /\ CallsAreReserved /\ QuotesBounded /\ QuotesAreKept

USE QuoteAssumption DEF ValidPolicy

\* The invariant holds initially: there are no rows and no calls.
LEMMA InitQuote == Init => QuoteInv
<1>. SUFFICES ASSUME Init PROVE QuoteInv
  OBVIOUS
<1>1. QuoteTyped
  BY DEF Init, QuoteTyped, Idle
<1>2. CallsAreReserved
  BY DEF Init, CallsAreReserved
<1>3. QuotesBounded /\ QuotesAreKept
  BY DEF Init, QuotesBounded, Ready, QuotesAreKept
<1>. QED
  BY <1>1, <1>2, <1>3 DEF QuoteInv

\* A call that is at a step of its own was made.
LEMMA CallsMade ==
  ASSUME QuoteTyped, NEW c \in Call, NEW pc \in {"fetching", "issuing", "failing", "binding"},
         InState(c, pc)
  PROVE  call[c] \in Made /\ call[c] # Idle /\ call[c].id \in Id
<1>1. call[c] # Idle
  BY DEF InState, Idle
<1>2. call[c] \in Made
  BY <1>1 DEF QuoteTyped
<1>. QED
  BY <1>1, <1>2 DEF Made

\* A step that makes no quote ready and no ready quote another only moves
\* the recorded time on.
LEMMA BoundsLeft ==
  ASSUME QuoteInv, lastEpoch' \in Nat, lastEpoch <= lastEpoch',
         UNCHANGED watermark,
         \A i \in Id : Ready(requests'[i]) => requests'[i] = requests[i]
  PROVE  QuotesBounded'
<1>. SUFFICES ASSUME NEW i \in Id, Ready(requests'[i])
              PROVE  BoundedBy(requests'[i].quote, lastEpoch', watermark')
  BY DEF QuotesBounded, Ready
<1>1. BoundedBy(requests[i].quote, lastEpoch, watermark)
  BY DEF QuoteInv, QuotesBounded
<1>2. requests[i].quote.issued <= lastEpoch'
  BY <1>1 DEF BoundedBy, Quote, QuoteInv, QuoteTyped
<1>. QED
  BY <1>1, <1>2 DEF BoundedBy

\* A step that leaves rows and gifts keeps the quotes.
LEMMA RowsLeft ==
  ASSUME QuoteInv, lastEpoch' \in Nat, lastEpoch <= lastEpoch',
         UNCHANGED <<requests, watermark, given>>
  PROVE  QuotesBounded' /\ QuotesAreKept'
<1>1. QuotesBounded'
  BY BoundsLeft
<1>2. QuotesAreKept'
  BY DEF QuoteInv, QuotesAreKept
<1>. QED
  BY <1>1, <1>2

\* A new row is no quote yet.
LEMMA ReserveKeeps ==
  ASSUME QuoteInv, NEW c \in Call, NEW i \in Id, NEW by \in Client,
         ReserveXmrQuote(c, i, by)
  PROVE  QuoteInv'
<1>. DEFINE new == [by |-> by, at |-> now, status |-> "reserved", quote |-> NoRow]
            made == At("fetching", i, by, now, NoRow)
<1>1. new \in Request /\ new # NoRow /\ requests' = [requests EXCEPT ![i] = new]
  BY DEF ReserveXmrQuote, Request, QuoteInv, QuoteTyped
<1>2. made \in Made /\ made.id = i /\ made.pc = "fetching"
      /\ call' = [call EXCEPT ![c] = made]
  BY DEF ReserveXmrQuote, At, Made, QuoteInv, QuoteTyped
<1>3. requests[i] = NoRow /\ lastEpoch' = now /\ lastEpoch <= now
      /\ UNCHANGED <<now, watermark, binding, given>>
  BY DEF ReserveXmrQuote, Rows, CheckClock
<1>. HIDE DEF new, made
<1>4. QuoteTyped'
  BY <1>1, <1>2, <1>3 DEF QuoteInv, QuoteTyped
<1>5. CallsAreReserved'
  BY <1>1, <1>2 DEF QuoteInv, QuoteTyped, CallsAreReserved, Made
<1>6. ~Ready(new)
  BY DEF Ready, new
<1>7. QuotesBounded'
  <2>1. \A j \in Id : Ready(requests'[j]) => requests'[j] = requests[j]
    BY <1>1, <1>6 DEF QuoteInv, QuoteTyped
  <2>. QED
    BY <1>3, <2>1, BoundsLeft DEF QuoteInv, QuoteTyped
<1>8. QuotesAreKept'
  BY <1>1, <1>3 DEF QuoteInv, QuoteTyped, QuotesAreKept
<1>. QED
  BY <1>4, <1>5, <1>7, <1>8 DEF QuoteInv

\* A repeated request is given the quote it was given before.
LEMMA GiveKeeps ==
  ASSUME QuoteInv, NEW i \in Id, NEW by \in Client,
         Answers(i, by, now), Give(i, requests[i].quote),
         lastEpoch' \in Nat, lastEpoch <= lastEpoch',
         UNCHANGED <<now, requests, watermark, binding, call>>
  PROVE  QuoteInv'
<1>1. Ready(requests[i]) /\ requests[i].quote \in Quote
  BY DEF Answers, Rows, Ready, QuoteInv, QuotesBounded, BoundedBy
<1>2. given' = [given EXCEPT ![i] = given[i] \cup {requests[i].quote}]
  BY DEF Give, QuoteInv, QuoteTyped
<1>3. QuoteTyped'
  BY <1>1, <1>2 DEF QuoteInv, QuoteTyped
<1>4. CallsAreReserved'
  BY DEF QuoteInv, CallsAreReserved
<1>5. QuotesBounded'
  BY BoundsLeft
<1>6. QuotesAreKept'
  BY <1>1, <1>2 DEF QuoteInv, QuoteTyped, QuotesAreKept, Ready
<1>. QED
  BY <1>3, <1>4, <1>5, <1>6 DEF QuoteInv

\* A step of one call alone, to a record that keeps its promises.
LEMMA CallMoves ==
  ASSUME QuoteInv, NEW c \in Call, NEW r \in Made \cup {Idle},
         call' = [call EXCEPT ![c] = r],
         r # Idle => /\ requests[r.id] # NoRow
                     /\ r.pc = "issuing" => r.quote \in Quote,
         UNCHANGED <<now, lastEpoch, requests, watermark, binding, given>>
  PROVE  QuoteInv'
<1>1. QuoteTyped'
  BY DEF QuoteInv, QuoteTyped
<1>2. CallsAreReserved'
  BY DEF QuoteInv, QuoteTyped, CallsAreReserved
<1>3. QuotesBounded' /\ QuotesAreKept'
  BY RowsLeft DEF QuoteInv, QuoteTyped
<1>. QED
  BY <1>1, <1>2, <1>3 DEF QuoteInv

LEMMA FetchKeeps ==
  ASSUME QuoteInv, NEW c \in Call, Fetch(c)
  PROVE  QuoteInv'
<1>1. call[c] \in Made /\ call[c] # Idle
  BY CallsMade DEF Fetch, QuoteInv
<1>2. PICK observed \in 0..now, rate \in Rate :
        call' = [call EXCEPT ![c].pc = "issuing",
                   ![c].quote = [rate |-> rate, observed |-> observed, issued |-> now]]
  BY DEF Fetch
<1>. DEFINE q == [rate |-> rate, observed |-> observed, issued |-> now]
            r == [call[c] EXCEPT !.pc = "issuing", !.quote = q]
<1>3. q \in Quote
  BY DEF Quote, QuoteInv, QuoteTyped
<1>4. r \in Made /\ r.id = call[c].id /\ r.quote = q
  BY <1>1, <1>3 DEF Made
<1>5. call' = [call EXCEPT ![c] = r]
  BY <1>2 DEF QuoteInv, QuoteTyped
<1>6. requests[r.id] # NoRow
  BY <1>1, <1>4 DEF QuoteInv, CallsAreReserved
<1>. QED
  BY <1>3, <1>4, <1>5, <1>6, CallMoves DEF Fetch

LEMMA FailingKeeps ==
  ASSUME QuoteInv, NEW c \in Call, FetchFails(c) \/ CompleteRefused(c)
  PROVE  QuoteInv'
<1>1. call[c] \in Made /\ call[c] # Idle
  BY CallsMade DEF FetchFails, CompleteRefused, QuoteInv
<1>. DEFINE r == [call[c] EXCEPT !.pc = "failing"]
<1>2. r \in Made /\ r.id = call[c].id /\ r.pc = "failing"
  BY <1>1 DEF Made
<1>3. call' = [call EXCEPT ![c] = r]
  BY DEF FetchFails, CompleteRefused, Go, QuoteInv, QuoteTyped
<1>4. requests[r.id] # NoRow
  BY <1>1, <1>2 DEF QuoteInv, CallsAreReserved
<1>5. UNCHANGED <<now, lastEpoch, requests, watermark, binding, given>>
  BY DEF FetchFails, CompleteRefused
<1>. HIDE DEF r
<1>. QED
  BY <1>2, <1>3, <1>4, <1>5, CallMoves

LEMMA DropKeeps ==
  ASSUME QuoteInv, NEW c \in Call, Drop(c)
  PROVE  QuoteInv'
BY CallMoves DEF Drop, End

LEMMA BindLookupKeeps ==
  ASSUME QuoteInv, NEW c \in Call, NEW i \in Id, NEW by \in Client,
         BindLookup(c, i, by)
  PROVE  QuoteInv'
<1>. DEFINE r == At("binding", i, by, now, requests[i].quote)
<1>1. Ready(requests[i]) /\ requests[i].quote \in Quote
  BY DEF BindLookup, Answers, Rows, Ready, QuoteInv, QuotesBounded, BoundedBy
<1>2. r \in Made /\ r.id = i /\ r.pc = "binding"
  BY <1>1 DEF At, Made, QuoteInv, QuoteTyped
<1>3. call' = [call EXCEPT ![c] = r]
      /\ UNCHANGED <<now, lastEpoch, requests, watermark, binding, given>>
  BY DEF BindLookup
<1>. HIDE DEF r
<1>. QED
  BY <1>1, <1>2, <1>3, CallMoves DEF Ready

LEMMA BindKeeps ==
  ASSUME QuoteInv, NEW c \in Call, NEW scope \in Scope, BindXmrQuote(c, scope)
  PROVE  QuoteInv'
<1>1. lastEpoch' = now /\ lastEpoch <= now
      /\ UNCHANGED <<now, requests, watermark, given>>
  BY DEF BindXmrQuote, CheckClock
<1>2. call' = [call EXCEPT ![c] = Idle]
      /\ binding' = [binding EXCEPT ![call[c].id] = scope]
  BY DEF BindXmrQuote, End
<1>3. QuoteTyped'
  BY <1>1, <1>2 DEF QuoteInv, QuoteTyped
<1>4. CallsAreReserved'
  BY <1>1, <1>2 DEF QuoteInv, QuoteTyped, CallsAreReserved
<1>5. QuotesBounded' /\ QuotesAreKept'
  BY <1>1, RowsLeft DEF QuoteInv, QuoteTyped
<1>. QED
  BY <1>3, <1>4, <1>5 DEF QuoteInv

LEMMA SetClockKeeps ==
  ASSUME QuoteInv, SetClock
  PROVE  QuoteInv'
<1>1. now' \in Nat /\ UNCHANGED <<lastEpoch, requests, watermark, binding, call, given>>
  BY DEF SetClock
<1>2. QuoteTyped' /\ CallsAreReserved'
  BY <1>1 DEF QuoteInv, QuoteTyped, CallsAreReserved
<1>3. QuotesBounded' /\ QuotesAreKept'
  BY <1>1, RowsLeft DEF QuoteInv, QuoteTyped
<1>. QED
  BY <1>2, <1>3 DEF QuoteInv

\* A failed call takes back only what is still reserved: no ready quote.
LEMMA FailKeeps ==
  ASSUME QuoteInv, NEW c \in Call, FailXmrQuote(c)
  PROVE  QuoteInv'
<1>. DEFINE i == call[c].id
<1>1. i \in Id
  BY CallsMade DEF FailXmrQuote, QuoteInv
<1>2. call' = [call EXCEPT ![c] = Idle]
      /\ UNCHANGED <<now, lastEpoch, watermark, binding, given>>
  BY DEF FailXmrQuote, End
<1>3. requests[i] # NoRow /\ requests[i] \in Request
  BY <1>1, CallsMade DEF FailXmrQuote, QuoteInv, CallsAreReserved, QuoteTyped
<1>4. requests' = requests
      \/ /\ requests[i].status = "reserved"
         /\ requests' = [requests EXCEPT ![i] = [requests[i] EXCEPT !.status = "failed"]]
  <2>1. requests' = IF requests[i].status = "reserved"
                      THEN [requests EXCEPT ![i].status = "failed"] ELSE requests
    BY DEF FailXmrQuote
  <2>. QED
    BY <1>1, <2>1 DEF QuoteInv, QuoteTyped
<1>5. CASE requests' = requests
  <2>1. QuoteTyped' /\ CallsAreReserved'
    BY <1>2, <1>5 DEF QuoteInv, QuoteTyped, CallsAreReserved
  <2>2. QuotesBounded' /\ QuotesAreKept'
    BY <1>2, <1>5, RowsLeft DEF QuoteInv, QuoteTyped
  <2>. QED
    BY <2>1, <2>2 DEF QuoteInv
<1>6. CASE /\ requests[i].status = "reserved"
           /\ requests' = [requests EXCEPT ![i] = [requests[i] EXCEPT !.status = "failed"]]
  <2>. DEFINE r == [requests[i] EXCEPT !.status = "failed"]
  <2>1. r \in Request /\ r # NoRow /\ r.status = "failed"
    BY <1>3 DEF Request
  <2>2. requests' = [requests EXCEPT ![i] = r] /\ ~Ready(requests[i])
    BY <1>6 DEF Ready
  <2>. HIDE DEF r
  <2>3. QuoteTyped'
    BY <1>1, <1>2, <2>1, <2>2 DEF QuoteInv, QuoteTyped
  <2>4. CallsAreReserved'
    BY <1>1, <1>2, <2>1, <2>2 DEF QuoteInv, QuoteTyped, CallsAreReserved
  <2>5. \A j \in Id : Ready(requests'[j]) => requests'[j] = requests[j]
    BY <1>1, <2>1, <2>2 DEF QuoteInv, QuoteTyped, Ready
  <2>6. QuotesBounded'
    BY <1>2, <2>5, BoundsLeft DEF QuoteInv, QuoteTyped
  <2>7. given[i] = {}
    BY <1>1, <1>6 DEF QuoteInv, QuotesAreKept, QuoteTyped
  <2>8. QuotesAreKept'
    BY <1>1, <1>2, <2>2, <2>7 DEF QuoteInv, QuoteTyped, QuotesAreKept
  <2>. QED
    BY <2>3, <2>4, <2>6, <2>8 DEF QuoteInv
<1>. QED
  BY <1>4, <1>5, <1>6

\* The facts of a completion: what it found, and what it leaves.
LEMMA CompleteFacts ==
  ASSUME QuoteInv, NEW c \in Call, CompleteXmrQuote(c),
         NEW i, i = call[c].id, NEW q, q = call[c].quote
  PROVE  /\ i \in Id /\ q \in Quote
         /\ requests[i] \in Request /\ ~Ready(requests[i])
         /\ requests' = [requests EXCEPT
                          ![i] = [requests[i] EXCEPT !.status = "ready", !.quote = q]]
         /\ lastEpoch <= q.issued /\ lastEpoch' = q.issued
         /\ watermark' = [at |-> q.observed, rate |-> q.rate]
         /\ Advances(q)
         /\ UNCHANGED <<now, binding>>
<1>1. call[c] \in Made /\ call[c] # Idle /\ i \in Id
  BY CallsMade DEF CompleteXmrQuote, QuoteInv
<1>2. q \in Quote /\ requests[i] # NoRow
  BY <1>1 DEF CompleteXmrQuote, InState, QuoteInv, CallsAreReserved
<1>3. requests[i] \in Request
  BY <1>1, <1>2 DEF QuoteInv, QuoteTyped
<1>4. ~Ready(requests[i]) /\ Advances(q)
  BY DEF CompleteXmrQuote, Completes, Ready
<1>5. requests' = [requests EXCEPT
                    ![i] = [requests[i] EXCEPT !.status = "ready", !.quote = q]]
  BY <1>1 DEF CompleteXmrQuote, QuoteInv, QuoteTyped
<1>6. lastEpoch <= q.issued /\ lastEpoch' = q.issued
  BY DEF CompleteXmrQuote, CheckClock
<1>7. watermark' = [at |-> q.observed, rate |-> q.rate] /\ UNCHANGED <<now, binding>>
  BY DEF CompleteXmrQuote
<1>. QED
  BY <1>1, <1>2, <1>3, <1>4, <1>5, <1>6, <1>7

\* Whether the reply arrives or not, the call that completed is accounted for.
LEMMA CompleteCall ==
  ASSUME QuoteInv, NEW c \in Call, CompleteXmrQuote(c),
         NEW i, i = call[c].id, NEW q, q = call[c].quote
  PROVE  /\ \E r \in Made \cup {Idle} :
              /\ call' = [call EXCEPT ![c] = r]
              /\ r # Idle => r.id = i /\ r.pc = "failing"
         /\ given' \in {given, [given EXCEPT ![i] = given[i] \cup {q}]}
<1>1. call[c] \in Made /\ i \in Id
  BY CallsMade DEF CompleteXmrQuote, QuoteInv
<1>2. CASE End(c) /\ Give(i, q)
  <2>1. given' = [given EXCEPT ![i] = given[i] \cup {q}]
    BY <1>1, <1>2 DEF Give, QuoteInv, QuoteTyped
  <2>. QED
    BY <1>2, <2>1 DEF End
<1>3. CASE Go(c, "failing") /\ UNCHANGED given
  <2>. DEFINE r == [call[c] EXCEPT !.pc = "failing"]
  <2>1. r \in Made /\ r.id = i /\ r.pc = "failing"
    BY <1>1 DEF Made
  <2>2. call' = [call EXCEPT ![c] = r]
    BY <1>3 DEF Go, QuoteInv, QuoteTyped
  <2>. HIDE DEF r
  <2>. QED
    BY <1>3, <2>1, <2>2
<1>. QED
  BY <1>2, <1>3 DEF CompleteXmrQuote

\* What the watermark bounded before, it follows with the next quote's rate.
LEMMA NextQuoteFollows ==
  ASSUME QuoteInv, NEW j \in Id, Ready(requests[j]),
         NEW q \in Quote, lastEpoch <= q.issued, Advances(q)
  PROVE  /\ Follows(q, requests[j].quote)
         /\ BoundedBy(requests[j].quote, q.issued, [at |-> q.observed, rate |-> q.rate])
<1>. DEFINE old == requests[j].quote
            w == [at |-> q.observed, rate |-> q.rate]
<1>1. BoundedBy(old, lastEpoch, watermark)
  BY DEF QuoteInv, QuotesBounded
<1>2. old.issued \in Nat /\ old.observed \in Nat
      /\ q.issued \in Nat /\ q.observed \in Nat
  BY <1>1 DEF BoundedBy, Quote
<1>3. lastEpoch \in Nat /\ watermark.at \in Nat
  BY <1>1 DEF BoundedBy, QuoteInv, QuoteTyped, Watermark
<1>4. old.issued <= q.issued
  BY <1>1, <1>2, <1>3 DEF BoundedBy
<1>5. old.observed < q.observed \/ (old.observed = q.observed /\ old.rate = q.rate)
  BY <1>1, <1>2, <1>3 DEF BoundedBy, Advances
<1>6. w \in Watermark /\ w # NoRow
  BY DEF Watermark, Quote
<1>7. old \in Quote
  BY <1>1 DEF BoundedBy
<1>8. BoundedBy(old, q.issued, w)
  BY <1>4, <1>5, <1>6, <1>7 DEF BoundedBy
<1>. QED
  BY <1>4, <1>5, <1>8 DEF Follows

LEMMA CompleteKeeps ==
  ASSUME QuoteInv, NEW c \in Call, CompleteXmrQuote(c)
  PROVE  QuoteInv'
<1>. DEFINE i == call[c].id
            q == call[c].quote
            w == [at |-> q.observed, rate |-> q.rate]
            r == [requests[i] EXCEPT !.status = "ready", !.quote = q]
<1>1. /\ i \in Id /\ q \in Quote
      /\ requests[i] \in Request /\ ~Ready(requests[i])
      /\ requests' = [requests EXCEPT ![i] = r]
      /\ lastEpoch <= q.issued /\ lastEpoch' = q.issued
      /\ watermark' = w
      /\ Advances(q)
      /\ UNCHANGED <<now, binding>>
  BY CompleteFacts
<1>2. /\ \E s \in Made \cup {Idle} :
           /\ call' = [call EXCEPT ![c] = s]
           /\ s # Idle => s.id = i /\ s.pc = "failing"
      /\ given' \in {given, [given EXCEPT ![i] = given[i] \cup {q}]}
  BY CompleteCall
<1>3. r \in Request /\ r # NoRow /\ r.status = "ready" /\ r.quote = q
  BY <1>1 DEF Request
<1>4. w \in Watermark /\ w # NoRow /\ w.at = q.observed /\ w.rate = q.rate
  BY <1>1 DEF Watermark, Quote
<1>5. q.issued \in Nat
  BY <1>1 DEF Quote
<1>. HIDE DEF i, q, r, w
<1>6. QuoteTyped'
  BY <1>1, <1>2, <1>3, <1>4, <1>5 DEF QuoteInv, QuoteTyped
<1>7. CallsAreReserved'
  BY <1>1, <1>2, <1>3 DEF QuoteInv, QuoteTyped, CallsAreReserved
<1>8. QuotesBounded'
  <2>. SUFFICES ASSUME NEW j \in Id, Ready(requests'[j])
                PROVE  BoundedBy(requests'[j].quote, lastEpoch', watermark')
    BY DEF QuotesBounded, Ready
  <2>1. CASE j = i
    <3>1. requests'[j].quote = q
      BY <1>1, <1>3, <2>1 DEF QuoteInv, QuoteTyped
    <3>. QED
      BY <1>1, <1>4, <1>5, <3>1 DEF BoundedBy
  <2>2. CASE j # i
    <3>1. requests'[j] = requests[j]
      BY <1>1, <2>2 DEF QuoteInv, QuoteTyped
    <3>2. BoundedBy(requests[j].quote, q.issued, [at |-> q.observed, rate |-> q.rate])
      BY <1>1, <3>1, NextQuoteFollows
    <3>. QED
      BY <1>1, <3>1, <3>2 DEF w
  <2>. QED
    BY <2>1, <2>2
<1>9. QuotesAreKept'
  <2>1. given[i] = {}
    BY <1>1 DEF QuoteInv, QuotesAreKept, QuoteTyped, Ready
  <2>. QED
    BY <1>1, <1>2, <1>3, <2>1 DEF QuoteInv, QuoteTyped, QuotesAreKept
<1>. QED
  BY <1>6, <1>7, <1>8, <1>9 DEF QuoteInv

\* Every step keeps the invariant.
LEMMA StepKeeps == QuoteInv /\ [Next]_vars => QuoteInv'
<1>. SUFFICES ASSUME QuoteInv, [Next]_vars PROVE QuoteInv'
  OBVIOUS
<1>1. ASSUME NEW c \in Call, NEW i \in Id, NEW by \in Client, ReserveXmrQuote(c, i, by)
      PROVE  QuoteInv'
  BY <1>1, ReserveKeeps
<1>2. ASSUME NEW c \in Call, NEW i \in Id, NEW by \in Client,
             CreateAgain(c, i, by) \/ Lookup(c, i, by)
      PROVE  QuoteInv'
  <2>1. now \in Nat /\ lastEpoch \in Nat
    BY DEF QuoteInv, QuoteTyped
  <2>2. lastEpoch' \in Nat /\ lastEpoch <= lastEpoch'
    BY <1>2, <2>1 DEF CreateAgain, Lookup, CheckClock
  <2>3. /\ Answers(i, by, now) /\ Give(i, requests[i].quote)
        /\ UNCHANGED <<now, requests, watermark, binding, call>>
    BY <1>2 DEF CreateAgain, Lookup
  <2>. QED
    BY <2>2, <2>3, GiveKeeps
<1>3. ASSUME NEW c \in Call, NEW i \in Id, NEW by \in Client, BindLookup(c, i, by)
      PROVE  QuoteInv'
  BY <1>3, BindLookupKeeps
<1>4. ASSUME NEW c \in Call,
             \/ Fetch(c) \/ FetchFails(c)
             \/ CompleteXmrQuote(c) \/ CompleteRefused(c)
             \/ FailXmrQuote(c) \/ Drop(c)
      PROVE  QuoteInv'
  BY <1>4, FetchKeeps, FailingKeeps, CompleteKeeps, FailKeeps, DropKeeps
<1>5. ASSUME NEW c \in Call, NEW scope \in Scope, BindXmrQuote(c, scope)
      PROVE  QuoteInv'
  BY <1>5, BindKeeps
<1>6. CASE SetClock
  BY <1>6, SetClockKeeps
<1>7. CASE UNCHANGED vars
  BY <1>7 DEF vars, QuoteInv, QuoteTyped, CallsAreReserved, QuotesBounded, QuotesAreKept
<1>. QED
  BY <1>1, <1>2, <1>3, <1>4, <1>5, <1>6, <1>7 DEF Next

LEMMA QuoteInvariant == Spec => []QuoteInv
<1>. QED
  BY InitQuote, StepKeeps, PTL DEF Spec

\* A quote that a caller was given stays the quote of its request, whatever
\* calls fail, are dropped or lose the reply of their commit.
THEOREM GivenQuotesStay == Spec => []QuotesAreKept
<1>1. QuoteInv => QuotesAreKept
  BY DEF QuoteInv
<1>. QED
  BY <1>1, QuoteInvariant, PTL

\* What a step may do to the quote and the binding of one request.
MadeInOrder(i) ==
  Ready(requests'[i]) /\ ~Ready(requests[i]) =>
    \A j \in Id : Ready(requests[j]) =>
      Follows(requests'[i].quote, requests[j].quote)
BoundInTime(i) ==
  binding'[i] # NoRow /\ binding[i] = NoRow =>
    \A t \in {lastEpoch, lastEpoch'} : t < Expires(requests[i].quote)

\* Only a completion makes a quote, and it follows all the others.
LEMMA QuotesMadeInOrder ==
  ASSUME QuoteInv, Next, NEW i \in Id
  PROVE  MadeInOrder(i)
<1>1. ASSUME NEW c \in Call, NEW j \in Id, NEW by \in Client,
             ReserveXmrQuote(c, j, by)
      PROVE  MadeInOrder(i)
  <2>. DEFINE new == [by |-> by, at |-> now, status |-> "reserved", quote |-> NoRow]
  <2>1. requests' = [requests EXCEPT ![j] = new]
    BY <1>1 DEF ReserveXmrQuote
  <2>2. ~Ready(new)
    BY DEF Ready
  <2>. HIDE DEF new
  <2>3. Ready(requests'[i]) => requests'[i] = requests[i]
    BY <2>1, <2>2 DEF QuoteInv, QuoteTyped
  <2>. QED
    BY <2>3 DEF MadeInOrder
<1>2. ASSUME NEW c \in Call, CompleteXmrQuote(c)
      PROVE  MadeInOrder(i)
  <2>. DEFINE k == call[c].id
              q == call[c].quote
              r == [requests[k] EXCEPT !.status = "ready", !.quote = q]
  <2>1. /\ k \in Id /\ q \in Quote
        /\ requests[k] \in Request /\ ~Ready(requests[k])
        /\ requests' = [requests EXCEPT ![k] = r]
        /\ lastEpoch <= q.issued /\ lastEpoch' = q.issued
        /\ watermark' = [at |-> q.observed, rate |-> q.rate]
        /\ Advances(q)
        /\ UNCHANGED <<now, binding>>
    BY <1>2, CompleteFacts
  <2>2. r.quote = q
    BY <2>1 DEF Request
  <2>. HIDE DEF k, q, r
  <2>3. CASE i = k
    <3>1. requests'[i].quote = q
      BY <2>1, <2>2, <2>3 DEF QuoteInv, QuoteTyped
    <3>2. \A j \in Id : Ready(requests[j]) => Follows(q, requests[j].quote)
      BY <2>1, NextQuoteFollows
    <3>. QED
      BY <3>1, <3>2 DEF MadeInOrder
  <2>4. CASE i # k
    <3>1. requests'[i] = requests[i]
      BY <2>1, <2>4 DEF QuoteInv, QuoteTyped
    <3>. QED
      BY <3>1 DEF MadeInOrder, Ready
  <2>. QED
    BY <2>3, <2>4
<1>3. ASSUME NEW c \in Call, FailXmrQuote(c)
      PROVE  MadeInOrder(i)
  <2>. DEFINE k == call[c].id
  <2>1. requests' = requests \/ requests' = [requests EXCEPT ![k].status = "failed"]
    BY <1>3 DEF FailXmrQuote
  <2>2. k \in Id /\ requests[k] # NoRow /\ requests[k] \in Request
    BY <1>3, CallsMade DEF FailXmrQuote, QuoteInv, CallsAreReserved, QuoteTyped
  <2>3. Ready(requests'[i]) => requests'[i] = requests[i]
    BY <2>1, <2>2 DEF QuoteInv, QuoteTyped, Ready, Request
  <2>. QED
    BY <2>3 DEF MadeInOrder
<1>4. ASSUME UNCHANGED requests
      PROVE  MadeInOrder(i)
  BY <1>4 DEF MadeInOrder, Ready
<1>. QED
  BY <1>1, <1>2, <1>3, <1>4
  DEF Next, CreateAgain, Lookup, BindLookup, Fetch, FetchFails, CompleteRefused,
      Drop, BindXmrQuote, SetClock

\* Only bind_xmr_quote binds a quote, at the time that it records.
LEMMA QuotesBoundInTime ==
  ASSUME QuoteInv, Next, NEW i \in Id
  PROVE  BoundInTime(i)
<1>1. ASSUME NEW c \in Call, NEW scope \in Scope, BindXmrQuote(c, scope)
      PROVE  BoundInTime(i)
  <2>. DEFINE k == call[c].id
              q == call[c].quote
  <2>1. /\ lastEpoch <= now /\ lastEpoch' = now
        /\ requests[k].quote = q /\ Binds(k, q, scope, now)
        /\ binding' = [binding EXCEPT ![k] = scope]
    BY <1>1 DEF BindXmrQuote, CheckClock
  <2>2. k \in Id /\ requests[k].status = "ready" /\ requests[k] # NoRow
    BY <1>1, CallsMade DEF BindXmrQuote, QuoteInv, CallsAreReserved
  <2>3. requests[k].quote \in Quote
    BY <2>2 DEF QuoteInv, QuotesBounded, Ready, BoundedBy
  <2>4. Expires(q) \in Nat /\ now \in Nat /\ lastEpoch \in Nat
    <3>1. q.issued \in Nat
      BY <2>1, <2>3 DEF Quote
    <3>2. Lifetime \in Nat
      OBVIOUS
    <3>. QED
      BY <3>1, <3>2 DEF Expires, QuoteInv, QuoteTyped
  <2>. SUFFICES ASSUME binding'[i] # NoRow, binding[i] = NoRow
                PROVE  \A t \in {lastEpoch, lastEpoch'} : t < Expires(requests[i].quote)
    BY DEF BoundInTime
  <2>5. i = k /\ binding'[i] = scope
    BY <2>1, <2>2 DEF QuoteInv, QuoteTyped
  <2>6. now < Expires(q)
    BY <2>1, <2>5 DEF Binds
  <2>. QED
    BY <2>1, <2>4, <2>5, <2>6
<1>2. ASSUME UNCHANGED binding
      PROVE  BoundInTime(i)
  BY <1>2 DEF BoundInTime
<1>. QED
  BY <1>1, <1>2
  DEF Next, ReserveXmrQuote, CreateAgain, Lookup, BindLookup, Fetch, FetchFails,
      CompleteXmrQuote, CompleteRefused, FailXmrQuote, Drop, SetClock

\* Whatever the wall clock does, quotes are issued with times and rates in
\* order, and none is first bound once its expiry was recorded.
THEOREM StaleEvidenceRefused == Spec => StaleIsRefused
<1>1. QuoteInv /\ [Next]_vars =>
        [\A i \in Id : MadeInOrder(i) /\ BoundInTime(i)]_vars
  BY QuotesMadeInOrder, QuotesBoundInTime
<1>2. QuoteInv /\ [Next]_vars =>
        [\A i \in Id :
           /\ Ready(requests'[i]) /\ ~Ready(requests[i]) =>
                \A j \in Id : Ready(requests[j]) =>
                  Follows(requests'[i].quote, requests[j].quote)
           /\ binding'[i] # NoRow /\ binding[i] = NoRow =>
                \A t \in {lastEpoch, lastEpoch'} : t < Expires(requests[i].quote)]_vars
  BY <1>1 DEF MadeInOrder, BoundInTime
<1>. QED
  BY <1>2, QuoteInvariant, PTL DEF Spec, StaleIsRefused

-----------------------------------------------------------------------------
(***************************************************************************)
(* A quote, from the fetch to the row it completes, has evidence of the    *)
(* market, and times within the clock's bound.                             *)
(***************************************************************************)
Evident(q) ==
  /\ q.rate \in Market[q.observed \div Minute + 1]
  /\ q.observed + Minute <= q.issued
  /\ q.issued - q.observed <= MaxRateAge
  /\ q.issued <= MaxTime

QuotesEvident ==
  /\ now <= MaxTime
  /\ \A c \in Call : InState(c, "issuing") => Evident(call[c].quote)
  /\ \A i \in Id : Ready(requests[i]) => Evident(requests[i].quote)

EvidenceInv == QuoteInv /\ QuotesEvident

\* Only a fetch brings a call to the issue.
LEMMA OnlyFetched ==
  ASSUME QuoteInv, Next, NEW c \in Call, call'[c].pc = "issuing"
  PROVE  call'[c] = call[c] \/ Fetch(c)
<1>1. ASSUME NEW d \in Call, NEW r, call' = [call EXCEPT ![d] = r], r.pc # "issuing"
      PROVE  call'[c] = call[c]
  BY <1>1 DEF QuoteInv, QuoteTyped
<1>2. ASSUME NEW d \in Call, End(d) PROVE call'[c] = call[c]
  BY <1>1, <1>2 DEF End, Idle
<1>3. ASSUME NEW d \in Call, Go(d, "failing"), call[d] \in Made PROVE call'[c] = call[c]
  <2>. DEFINE r == [call[d] EXCEPT !.pc = "failing"]
  <2>1. call' = [call EXCEPT ![d] = r] /\ r.pc = "failing"
    BY <1>3 DEF Go, QuoteInv, QuoteTyped, Made
  <2>. HIDE DEF r
  <2>. QED
    BY <1>1, <2>1
<1>4. ASSUME NEW d \in Call, NEW i \in Id, NEW by \in Client,
             ReserveXmrQuote(d, i, by) \/ BindLookup(d, i, by)
      PROVE  call'[c] = call[c]
  <2>. DEFINE r(pc, quote) == At(pc, i, by, now, quote)
  <2>1. \A quote : r("fetching", quote).pc = "fetching" /\ r("binding", quote).pc = "binding"
    BY DEF At
  <2>2. \E quote : \/ call' = [call EXCEPT ![d] = r("fetching", quote)]
                   \/ call' = [call EXCEPT ![d] = r("binding", quote)]
    BY <1>4 DEF ReserveXmrQuote, BindLookup
  <2>. HIDE DEF r
  <2>3. PICK x : call' = [call EXCEPT ![d] = x] /\ x.pc # "issuing"
    BY <2>1, <2>2
  <2>. QED
    BY <1>1, <2>3
<1>5. ASSUME NEW d \in Call, Fetch(d) PROVE call'[c] = call[c] \/ Fetch(c)
  BY <1>5 DEF Fetch, QuoteInv, QuoteTyped
<1>6. ASSUME NEW d \in Call, FetchFails(d) \/ CompleteRefused(d) PROVE call'[c] = call[c]
  BY <1>3, <1>6, CallsMade DEF FetchFails, CompleteRefused, QuoteInv
<1>7. ASSUME NEW d \in Call, CompleteXmrQuote(d) PROVE call'[c] = call[c]
  <2>1. call[d] \in Made
    BY <1>7, CallsMade DEF CompleteXmrQuote, QuoteInv
  <2>. QED
    BY <1>2, <1>3, <1>7, <2>1 DEF CompleteXmrQuote
<1>8. ASSUME NEW d \in Call, FailXmrQuote(d) \/ Drop(d) \/ \E scope \in Scope : BindXmrQuote(d, scope)
      PROVE  call'[c] = call[c]
  BY <1>2, <1>8 DEF FailXmrQuote, Drop, BindXmrQuote
<1>. QED
  BY <1>4, <1>5, <1>6, <1>7, <1>8 DEF Next, CreateAgain, Lookup, SetClock

\* Only a call that issues makes a quote ready, with the evidence it has.
LEMMA OnlyIssued ==
  ASSUME QuoteInv, Next, NEW i \in Id, Ready(requests'[i])
  PROVE  \/ requests'[i] = requests[i]
         \/ \E c \in Call : InState(c, "issuing") /\ requests'[i].quote = call[c].quote
<1>1. ASSUME NEW c \in Call, NEW j \in Id, NEW by \in Client,
             ReserveXmrQuote(c, j, by)
      PROVE  requests'[i] = requests[i]
  <2>. DEFINE new == [by |-> by, at |-> now, status |-> "reserved", quote |-> NoRow]
  <2>1. requests' = [requests EXCEPT ![j] = new]
    BY <1>1 DEF ReserveXmrQuote
  <2>2. ~Ready(new)
    BY DEF Ready
  <2>. HIDE DEF new
  <2>. QED
    BY <2>1, <2>2 DEF QuoteInv, QuoteTyped
<1>2. ASSUME NEW c \in Call, CompleteXmrQuote(c)
      PROVE  requests'[i] = requests[i] \/ requests'[i].quote = call[c].quote
  <2>. DEFINE k == call[c].id
              q == call[c].quote
              r == [requests[k] EXCEPT !.status = "ready", !.quote = q]
  <2>1. /\ k \in Id /\ q \in Quote
        /\ requests[k] \in Request /\ ~Ready(requests[k])
        /\ requests' = [requests EXCEPT ![k] = r]
        /\ lastEpoch <= q.issued /\ lastEpoch' = q.issued
        /\ watermark' = [at |-> q.observed, rate |-> q.rate]
        /\ Advances(q)
        /\ UNCHANGED <<now, binding>>
    BY <1>2, CompleteFacts
  <2>2. r.quote = q
    BY <2>1 DEF Request
  <2>. HIDE DEF k, r
  <2>. QED
    BY <2>1, <2>2 DEF QuoteInv, QuoteTyped
<1>3. ASSUME NEW c \in Call, FailXmrQuote(c)
      PROVE  requests'[i] = requests[i]
  <2>. DEFINE k == call[c].id
  <2>1. requests' = requests \/ requests' = [requests EXCEPT ![k].status = "failed"]
    BY <1>3 DEF FailXmrQuote
  <2>2. k \in Id /\ requests[k] # NoRow /\ requests[k] \in Request
    BY <1>3, CallsMade DEF FailXmrQuote, QuoteInv, CallsAreReserved, QuoteTyped
  <2>. QED
    BY <2>1, <2>2 DEF QuoteInv, QuoteTyped, Ready, Request
<1>. QED
  BY <1>1, <1>2, <1>3
  DEF Next, CreateAgain, Lookup, BindLookup, Fetch, FetchFails, CompleteRefused,
      CompleteXmrQuote, Drop, BindXmrQuote, SetClock

\* A fetch takes evidence of the market, fresh at the time of the issue.
LEMMA FetchedIsEvident ==
  ASSUME EvidenceInv, NEW c \in Call, Fetch(c)
  PROVE  Evident(call'[c].quote)
<1>1. PICK observed \in 0..now, rate \in Rate :
        /\ [rate |-> rate, observed |-> observed] \in Evidence(now)
        /\ Fresh(observed, now)
        /\ call' = [call EXCEPT ![c].pc = "issuing",
                     ![c].quote = [rate |-> rate, observed |-> observed, issued |-> now]]
  BY DEF Fetch
<1>2. call[c] \in Made
  BY CallsMade DEF Fetch, EvidenceInv, QuoteInv
<1>3. call'[c].quote = [rate |-> rate, observed |-> observed, issued |-> now]
  BY <1>1, <1>2 DEF EvidenceInv, QuoteInv, QuoteTyped, Made
<1>4. rate \in Market[observed \div Minute + 1] /\ observed + Minute <= now
  BY <1>1, EvidenceIsMarket
<1>. QED
  BY <1>1, <1>3, <1>4 DEF Evident, Fresh, EvidenceInv, QuotesEvident

LEMMA EvidenceInvariant == Spec => []EvidenceInv
<1>1. Init => EvidenceInv
  <2>. SUFFICES ASSUME Init PROVE QuotesEvident
    BY InitQuote DEF EvidenceInv
  <2>1. now <= MaxTime /\ \A c \in Call : call[c] = Idle
    BY DEF Init
  <2>. QED
    BY <2>1 DEF Init, QuotesEvident, Ready, InState, Idle
<1>2. EvidenceInv /\ [Next]_vars => EvidenceInv'
  <2>. SUFFICES ASSUME EvidenceInv, [Next]_vars PROVE QuotesEvident'
    BY StepKeeps DEF EvidenceInv
  <2>1. CASE UNCHANGED vars
    BY <2>1 DEF vars, EvidenceInv, QuotesEvident, InState, Ready, Evident
  <2>2. CASE Next
    <3>1. now' <= MaxTime
      <4>1. CASE SetClock
        BY <4>1 DEF SetClock
      <4>2. CASE UNCHANGED now
        BY <4>2 DEF EvidenceInv, QuotesEvident
      <4>3. SetClock \/ UNCHANGED now
        BY <2>2
        DEF Next, ReserveXmrQuote, CreateAgain, Lookup, BindLookup, Fetch, FetchFails,
            CompleteRefused, CompleteXmrQuote, FailXmrQuote, Drop, BindXmrQuote
      <4>. QED
        BY <4>1, <4>2, <4>3
    <3>2. ASSUME NEW c \in Call, call'[c].pc = "issuing" PROVE Evident(call'[c].quote)
      <4>1. CASE call'[c] = call[c]
        BY <3>2, <4>1 DEF EvidenceInv, QuotesEvident, InState
      <4>2. CASE Fetch(c)
        BY <4>2, FetchedIsEvident
      <4>. QED
        BY <2>2, <3>2, <4>1, <4>2, OnlyFetched DEF EvidenceInv
    <3>3. ASSUME NEW i \in Id, Ready(requests'[i]) PROVE Evident(requests'[i].quote)
      <4>1. CASE requests'[i] = requests[i]
        BY <3>3, <4>1 DEF EvidenceInv, QuotesEvident
      <4>2. ASSUME NEW c \in Call, InState(c, "issuing"), requests'[i].quote = call[c].quote
            PROVE  Evident(requests'[i].quote)
        BY <4>2 DEF EvidenceInv, QuotesEvident
      <4>. QED
        BY <2>2, <3>3, <4>1, <4>2, OnlyIssued DEF EvidenceInv
    <3>. QED
      BY <3>1, <3>2, <3>3 DEF QuotesEvident, InState, Ready, Evident
  <2>. QED
    BY <2>1, <2>2
<1>. QED
  BY <1>1, <1>2, PTL DEF Spec

\* Whatever charts the source answers with, one candle of them damaged or
\* none, a quote has the price of a whole, traded and recent minute.
THEOREM RatesAreTheMarkets == Spec => []RateIsMarket
<1>1. EvidenceInv => RateIsMarket
  BY DEF EvidenceInv, QuotesEvident, Evident, RateIsMarket
<1>. QED
  BY <1>1, EvidenceInvariant, PTL

-----------------------------------------------------------------------------
Terms == [expected : Nat \ {0}, target : Nat \ {0}, limit : Nat,
          issued : Nat, expires : Nat]

CreditTyped ==
  /\ terms \in [Intent -> Quotes \cup {Missing}]
  /\ granted \in [Intent -> SUBSET Key]
  /\ eligible \in [Intent -> Nat]
  /\ credited \in [Intent -> Int]
  /\ hold \in [Intent -> Holds \cup {Missing}]
  /\ paid \in [Intent -> Int]

\* The ledger holds the value of the eligible units, within the limit; an
\* intent that is not registered has none.
ValuedOnce ==
  \A i \in Intent :
    /\ terms[i] = Missing => eligible[i] = 0 /\ credited[i] = 0 /\ paid[i] = 0
    /\ i \in Registered =>
         /\ credited[i] = CumulativeSats(terms[i], eligible[i])
         /\ paid[i] = credited[i]
         /\ credited[i] <= terms[i].limit

CreditInv == CreditTyped /\ ValuedOnce

USE XmrAssumption

LEMMA InitCredit == CreditInit => CreditInv
<1>. SUFFICES ASSUME CreditInit PROVE CreditInv
  OBVIOUS
<1>1. CreditTyped
  BY DEF CreditInit, CreditTyped
<1>2. ValuedOnce
  BY DEF CreditInit, ValuedOnce, Registered
<1>. QED
  BY <1>1, <1>2 DEF CreditInv

\* No units are worth no credit, under any terms.
LEMMA NoUnits ==
  ASSUME NEW q \in Quotes
  PROVE  /\ CumulativeSats(q, 0) = 0 /\ 0 <= q.limit
         /\ q.expected \in Nat \ {0} /\ q.target \in Nat /\ q.limit \in Nat
<1>1. q \in Terms
  BY DEF Terms
<1>2. q.expected \in Nat \ {0} /\ q.target \in Nat /\ q.limit \in Nat
  BY <1>1 DEF Terms
<1>3. 0 * q.target = 0 /\ 0 \div q.expected = 0
  BY <1>2
<1>. QED
  BY <1>2, <1>3 DEF CumulativeSats

\* The value of units is an integer.
LEMMA ValueTyped ==
  ASSUME NEW q \in Quotes, NEW n \in Nat
  PROVE  CumulativeSats(q, n) \in Int
<1>1. q.expected \in Nat \ {0} /\ q.target \in Nat
  BY NoUnits
<1>2. n * q.target \in Int
  BY <1>1
<1>. QED
  BY <1>1, <1>2 DEF CumulativeSats

LEMMA RegisterKeeps ==
  ASSUME CreditInv, NEW i \in Intent, NEW q \in Quotes,
         RegisterXmrCreditIntent(i, q)
  PROVE  CreditInv'
<1>1. terms[i] = Missing /\ terms' = [terms EXCEPT ![i] = q]
      /\ UNCHANGED <<granted, eligible, credited, hold, paid>>
  BY DEF RegisterXmrCreditIntent
<1>2. CreditTyped'
  BY <1>1 DEF CreditInv, CreditTyped
<1>3. ValuedOnce'
  <2>. SUFFICES ASSUME NEW j \in Intent
                PROVE  /\ terms'[j] = Missing => eligible[j] = 0 /\ credited[j] = 0 /\ paid[j] = 0
                       /\ terms'[j] # Missing =>
                            /\ credited[j] = CumulativeSats(terms'[j], eligible[j])
                            /\ paid[j] = credited[j]
                            /\ credited[j] <= terms'[j].limit
    BY <1>1 DEF ValuedOnce, Registered, CumulativeSats
  <2>1. CASE j = i
    BY <1>1, <2>1, NoUnits DEF CreditInv, CreditTyped, ValuedOnce
  <2>2. CASE j # i
    BY <1>1, <2>2 DEF CreditInv, CreditTyped, ValuedOnce, Registered
  <2>. QED
    BY <2>1, <2>2
<1>. QED
  BY <1>2, <1>3 DEF CreditInv

\* A step that grants nothing keeps the books, whatever it holds.
LEMMA HoldKeeps ==
  ASSUME CreditInv, hold' \in [Intent -> Holds \cup {Missing}],
         UNCHANGED <<terms, granted, eligible, credited, paid>>
  PROVE  CreditInv'
BY DEF CreditInv, CreditTyped, ValuedOnce, Registered

LEMMA HoldTyped ==
  ASSUME CreditTyped, NEW i \in Intent, NEW reason \in Holds
  PROVE  [hold EXCEPT ![i] = HoldFor(i, reason)] \in [Intent -> Holds \cup {Missing}]
BY DEF CreditTyped, HoldFor

LEMMA GrantKeeps ==
  ASSUME CreditInv, NEW i \in Intent, NEW k \in Key, NEW o \in Observation,
         terms[i] # Missing, ReportGranted(i, k, o)
  PROVE  CreditInv'
<1>. DEFINE new == NewCredit(i, o)
            units == eligible[i] + o.amount
<1>1. /\ granted' = [granted EXCEPT ![i] = granted[i] \cup {k}]
      /\ eligible' = [eligible EXCEPT ![i] = units]
      /\ credited' = [credited EXCEPT ![i] = new]
      /\ paid' = [paid EXCEPT ![i] = paid[i] + (new - credited[i])]
      /\ UNCHANGED <<terms, hold>>
  BY DEF ReportGranted, Delta, CreditInv, CreditTyped
<1>2. terms[i] \in Quotes /\ units \in Nat
  <2>1. o.amount \in Nat
    BY DEF Observation
  <2>. QED
    BY <2>1 DEF CreditInv, CreditTyped
<1>3. new = CumulativeSats(terms[i], units)
  BY DEF NewCredit
<1>4. new \in Int /\ new <= terms[i].limit
  BY <1>2, <1>3, ValueTyped DEF ReportGranted, WithinLimits
<1>5. paid[i] = credited[i] /\ credited[i] \in Int
  BY DEF CreditInv, CreditTyped, ValuedOnce, Registered
<1>. HIDE DEF new, units
<1>6. paid[i] + (new - credited[i]) = new
  BY <1>4, <1>5
<1>7. CreditTyped'
  BY <1>1, <1>2, <1>4, <1>6 DEF CreditInv, CreditTyped
<1>8. ValuedOnce'
  <2>. SUFFICES ASSUME NEW j \in Intent
                PROVE  /\ terms[j] = Missing => eligible'[j] = 0 /\ credited'[j] = 0 /\ paid'[j] = 0
                       /\ terms[j] # Missing =>
                            /\ credited'[j] = CumulativeSats(terms[j], eligible'[j])
                            /\ paid'[j] = credited'[j]
                            /\ credited'[j] <= terms[j].limit
    BY <1>1 DEF ValuedOnce, Registered, CumulativeSats
  <2>1. CASE j = i
    BY <1>1, <1>3, <1>4, <1>6, <2>1 DEF CreditInv, CreditTyped
  <2>2. CASE j # i
    BY <1>1, <2>2 DEF CreditInv, CreditTyped, ValuedOnce, Registered
  <2>. QED
    BY <2>1, <2>2
<1>. QED
  BY <1>7, <1>8 DEF CreditInv

\* A report that is not granted leaves the books and types its hold.
LEMMA ReportKeeps ==
  ASSUME CreditInv, NEW i \in Intent, NEW k \in Key, NEW o \in Observation,
         ReportConflict(i, k, o) \/ ReportRecorded(i, k, o) \/ ReportOverLimit(i, k, o)
  PROVE  CreditInv'
<1>1. UNCHANGED <<terms, granted, eligible, credited, paid>>
  BY DEF ReportConflict, ReportRecorded, ReportOverLimit
<1>2. ConflictReason(receipts[i][k], o) \in Holds
  BY DEF ConflictReason, Holds
<1>3. hold' \in [Intent -> Holds \cup {Missing}]
  <2>1. CASE ReportConflict(i, k, o)
    BY <1>2, <2>1, HoldTyped DEF ReportConflict, CreditInv
  <2>2. CASE ReportRecorded(i, k, o)
    BY <2>2, HoldTyped DEF ReportRecorded, CreditInv, CreditTyped, Holds
  <2>3. CASE ReportOverLimit(i, k, o)
    BY <2>3, HoldTyped DEF ReportOverLimit, CreditInv, Holds
  <2>. QED
    BY <2>1, <2>2, <2>3
<1>. QED
  BY <1>1, <1>3, HoldKeeps

LEMMA CreditKeeps == CreditInv /\ [CreditNext]_creditVars => CreditInv'
<1>. SUFFICES ASSUME CreditInv, [CreditNext]_creditVars PROVE CreditInv'
  OBVIOUS
<1>1. ASSUME NEW i \in Intent, NEW q \in Quotes, RegisterXmrCreditIntent(i, q)
      PROVE  CreditInv'
  BY <1>1, RegisterKeeps
<1>2. ASSUME NEW i \in Intent, NEW k \in Key, NEW o \in Observation,
             RecordXmrReceipt(i, k, o)
      PROVE  CreditInv'
  BY <1>2, ReportKeeps, GrantKeeps DEF RecordXmrReceipt
<1>3. ASSUME NEW i \in Intent, HoldXmrCreditIntent(i)
      PROVE  CreditInv'
  BY <1>3, HoldTyped, HoldKeeps DEF HoldXmrCreditIntent, CreditInv, Holds
<1>4. CASE MoveFeedCredit
  BY <1>4 DEF MoveFeedCredit, CreditInv, CreditTyped, ValuedOnce, Registered
<1>5. CASE UNCHANGED creditVars
  BY <1>5 DEF creditVars, CreditInv, CreditTyped, ValuedOnce, Registered
<1>. QED
  BY <1>1, <1>2, <1>3, <1>4, <1>5 DEF CreditNext, ReceiptNext

LEMMA CreditInvariant == CreditSpec => []CreditInv
<1>. QED
  BY InitCredit, CreditKeeps, PTL DEF CreditSpec

\* The sats in the ledger for an intent are the value of its eligible units
\* taken together, and never exceed the limit it was registered with.
THEOREM CreditValuedOnce == CreditSpec => []ValuedOnce
<1>1. CreditInv => ValuedOnce
  BY DEF CreditInv
<1>. QED
  BY <1>1, CreditInvariant, PTL

\* What a step may do to a held intent.
HoldIsKept(i) ==
  hold[i] # Missing =>
    /\ hold'[i] = hold[i]
    /\ granted'[i] = granted[i] /\ paid'[i] = paid[i]

\* The first reason stays, on whatever intent a step would put another.
LEMMA FirstReasonStays ==
  ASSUME CreditInv, NEW i \in Intent, NEW j \in Intent, NEW reason,
         hold' = [hold EXCEPT ![j] = HoldFor(j, reason)],
         UNCHANGED <<granted, paid>>
  PROVE  HoldIsKept(i)
BY DEF HoldIsKept, HoldFor, CreditInv, CreditTyped

LEMMA HoldsKept ==
  ASSUME CreditInv, CreditNext, NEW i \in Intent
  PROVE  HoldIsKept(i)
<1>1. ASSUME NEW j \in Intent, NEW k \in Key, NEW o \in Observation,
             RecordXmrReceipt(j, k, o)
      PROVE  HoldIsKept(i)
  <2>1. CASE ReportConflict(j, k, o)
    BY <2>1, FirstReasonStays DEF ReportConflict
  <2>2. CASE ReportRecorded(j, k, o)
    <3>1. CASE o.double
      BY <2>2, <3>1, FirstReasonStays DEF ReportRecorded
    <3>2. CASE ~o.double
      BY <2>2, <3>2 DEF ReportRecorded, HoldIsKept
    <3>. QED
      BY <3>1, <3>2
  <2>3. CASE ReportOverLimit(j, k, o)
    BY <2>3, FirstReasonStays DEF ReportOverLimit
  <2>4. CASE ReportGranted(j, k, o)
    <3>1. hold[j] = Missing
      BY <2>4 DEF ReportGranted, Grantable
    <3>. QED
      BY <2>4, <3>1 DEF ReportGranted, HoldIsKept, CreditInv, CreditTyped
  <2>. QED
    BY <1>1, <2>1, <2>2, <2>3, <2>4 DEF RecordXmrReceipt
<1>2. ASSUME NEW j \in Intent, HoldXmrCreditIntent(j)
      PROVE  HoldIsKept(i)
  BY <1>2, FirstReasonStays DEF HoldXmrCreditIntent
<1>3. ASSUME UNCHANGED <<hold, granted, paid>>
      PROVE  HoldIsKept(i)
  BY <1>3 DEF HoldIsKept
<1>. QED
  BY <1>1, <1>2, <1>3 DEF CreditNext, ReceiptNext, RegisterXmrCreditIntent, MoveFeedCredit

\* A hold is final: its reason stays, and nothing more is granted or paid.
THEOREM HoldsAreFinal == CreditSpec => HoldStopsCredit
<1>1. CreditInv /\ [CreditNext]_creditVars => [\A i \in Intent : HoldIsKept(i)]_creditVars
  BY HoldsKept
<1>2. CreditInv /\ [CreditNext]_creditVars =>
        [\A i \in Intent : hold[i] # Missing =>
           /\ hold'[i] = hold[i]
           /\ granted'[i] = granted[i] /\ paid'[i] = paid[i]]_creditVars
  BY <1>1 DEF HoldIsKept
<1>. QED
  BY <1>2, CreditInvariant, PTL DEF CreditSpec, HoldStopsCredit

-----------------------------------------------------------------------------
(***************************************************************************)
(* The evidence behind the credit.  Per intent: what was granted is good,  *)
(* all that is good was granted unless the intent is held, and the         *)
(* eligible units are the sum of the receipts granted.  An intent without  *)
(* terms has no receipts.                                                  *)
(***************************************************************************)
AmountsOf(i) == [k \in Key |-> receipts[i][k].amount]

GrantedGood(i) ==
  /\ granted[i] \subseteq Good(i)
  /\ hold[i] = Missing => granted[i] = Good(i)

GrantedCounted(i) ==
  IsFiniteSet(granted[i]) /\ eligible[i] = Total(AmountsOf(i), granted[i])

Books(i) ==
  /\ terms[i] = Missing => granted[i] = {} /\ \A k \in Key : receipts[i][k] = Missing
  /\ terms[i] # Missing => GrantedGood(i)
  /\ GrantedCounted(i)

BooksInv ==
  /\ CreditInv
  /\ receipts \in [Intent -> [Key -> Receipt \cup {Missing}]]
  /\ \A i \in Intent : Books(i)

LEMMA InitBooks == CreditInit => BooksInv
<1>. SUFFICES ASSUME CreditInit PROVE BooksInv
  OBVIOUS
<1>1. receipts \in [Intent -> [Key -> Receipt \cup {Missing}]]
  BY DEF CreditInit
<1>2. ASSUME NEW i \in Intent PROVE Books(i)
  <2>1. GrantedCounted(i)
    BY TotalEmpty, FS_EmptySet DEF CreditInit, GrantedCounted
  <2>. QED
    BY <2>1 DEF CreditInit, Books
<1>. QED
  BY <1>1, <1>2, InitCredit DEF BooksInv

\* A good receipt, and one that is good after a step.
LEMMA GoodIs ==
  ASSUME NEW i \in Intent, NEW k
  PROVE  /\ k \in Good(i) <=>
              /\ k \in Key /\ receipts[i][k] # Missing /\ receipts[i][k].unlocked
              /\ Timely(terms[i], receipts[i][k].seen)
         /\ k \in Good(i)' <=>
              /\ k \in Key /\ receipts'[i][k] # Missing /\ receipts'[i][k].unlocked
              /\ Timely(terms'[i], receipts'[i][k].seen)
BY DEF Good, Timely

\* The units granted stay when the amounts granted do.
LEMMA UnitsStay ==
  ASSUME BooksInv, NEW i \in Intent,
         granted'[i] = granted[i], eligible'[i] = eligible[i],
         \A k \in granted[i] : receipts'[i][k].amount = receipts[i][k].amount
  PROVE  GrantedCounted(i)'
<1>1. granted[i] \subseteq Key /\ GrantedCounted(i)
  BY DEF BooksInv, CreditInv, CreditTyped, Books
<1>2. PICK f, e : f = AmountsOf(i) /\ e = AmountsOf(i)'
  OBVIOUS
<1>3. \A k \in granted[i] : f[k] = e[k]
  BY <1>1, <1>2 DEF AmountsOf
<1>4. Total(f, granted[i]) = Total(e, granted[i])
  BY <1>1, <1>3, TotalSame DEF GrantedCounted
<1>. QED
  BY <1>1, <1>2, <1>4 DEF GrantedCounted

\* An intent that a step leaves alone.
LEMMA BooksStay ==
  ASSUME BooksInv, NEW i \in Intent,
         terms'[i] = terms[i], receipts'[i] = receipts[i], hold'[i] = hold[i],
         granted'[i] = granted[i], eligible'[i] = eligible[i]
  PROVE  Books(i)'
<1>1. Books(i)
  BY DEF BooksInv
<1>2. Good(i)' = Good(i)
  BY DEF Good, Timely
<1>3. GrantedCounted(i)'
  BY UnitsStay
<1>. QED
  BY <1>1, <1>2, <1>3 DEF Books, GrantedGood

\* An intent that is held from now on keeps what was granted.
LEMMA BooksHeld ==
  ASSUME BooksInv, NEW i \in Intent, terms[i] # Missing,
         terms'[i] = terms[i], hold'[i] # Missing,
         granted'[i] = granted[i], eligible'[i] = eligible[i],
         \A k \in granted[i] :
           /\ receipts'[i][k].amount = receipts[i][k].amount
           /\ k \in Good(i) => k \in Good(i)'
  PROVE  Books(i)'
<1>1. Books(i)
  BY DEF BooksInv
<1>2. GrantedCounted(i)'
  BY UnitsStay
<1>3. GrantedGood(i)'
  BY <1>1 DEF Books, GrantedGood
<1>. QED
  BY <1>2, <1>3 DEF Books

(***************************************************************************)
(* What saving a report that contradicts nothing makes of its row.         *)
(***************************************************************************)
LEMMA SavedRow ==
  ASSUME BooksInv, NEW i \in Intent, NEW k \in Key, NEW o \in Observation,
         terms[i] # Missing, ~Contradicts(i, k, o), SaveReceipt(i, k, o)
  PROVE  /\ receipts' \in [Intent -> [Key -> Receipt \cup {Missing}]]
         /\ receipts'[i][k] \in Receipt
         /\ receipts'[i][k].amount = o.amount
         /\ receipts'[i][k].seen = o.seen
         /\ receipts'[i][k].unlocked = o.unlocked
         /\ receipts[i][k] # Missing =>
              /\ receipts[i][k].amount = o.amount /\ receipts[i][k].seen = o.seen
              /\ receipts[i][k].unlocked => o.unlocked
              /\ ~o.double
         /\ \A l \in Key \ {k} : receipts'[i][l] = receipts[i][l]
         /\ \A j \in Intent \ {i} : receipts'[j] = receipts[j]
<1>1. /\ receipts \in [Intent -> [Key -> Receipt \cup {Missing}]]
      /\ receipts' = [receipts EXCEPT ![i][k] = Saved(i, k, o)]
  BY DEF BooksInv, SaveReceipt
<1>2. o.amount \in Amounts /\ o.seen \in SeenTimes /\ o.unlocked \in BOOLEAN /\ o.double \in BOOLEAN
  BY DEF Observation
<1>3. CASE receipts[i][k] = Missing
  <2>1. PICK b \in BOOLEAN : b = (Timely(terms[i], o.seen) /\ ~o.double)
    OBVIOUS
  <2>2. PICK row \in Receipt :
          row = [amount |-> o.amount, seen |-> o.seen, unlocked |-> o.unlocked, eligible |-> b]
    BY <1>2 DEF Receipt
  <2>3. row = Saved(i, k, o)
    BY <1>3, <2>1, <2>2 DEF Saved
  <2>. QED
    BY <1>1, <1>3, <2>2, <2>3
<1>4. CASE receipts[i][k] # Missing
  <2>1. PICK old \in Receipt : old = receipts[i][k]
    BY <1>1, <1>4
  <2>2. /\ old.amount = o.amount /\ old.seen = o.seen /\ ~o.double
        /\ old.unlocked => o.unlocked
    BY <1>4, <2>1 DEF Contradicts, Unchanging, Regressing
  <2>3. Saved(i, k, o) = [old EXCEPT !.unlocked = old.unlocked \/ o.unlocked]
    BY <1>4, <2>1 DEF Saved
  <2>4. old.unlocked \in BOOLEAN /\ (old.unlocked \/ o.unlocked) = o.unlocked
    BY <1>2, <2>2 DEF Receipt
  <2>5. PICK b \in BOOLEAN : b = (old.unlocked \/ o.unlocked) /\ b = o.unlocked
    BY <1>2, <2>4
  <2>6. PICK row : row = [old EXCEPT !.unlocked = b]
    OBVIOUS
  <2>7. row \in Receipt /\ row.amount = old.amount /\ row.seen = old.seen /\ row.unlocked = b
    BY <2>6 DEF Receipt
  <2>8. row = Saved(i, k, o)
    BY <2>3, <2>5, <2>6
  <2>. QED
    BY <1>1, <2>1, <2>2, <2>5, <2>7, <2>8
<1>. QED
  BY <1>3, <1>4

\* What was granted is still good, whatever a consistent report adds.
LEMMA GrantedStays ==
  ASSUME BooksInv, NEW i \in Intent, NEW k \in Key, NEW o \in Observation,
         terms[i] # Missing, ~Contradicts(i, k, o), SaveReceipt(i, k, o),
         terms' = terms
  PROVE  \A l \in granted[i] :
           /\ receipts'[i][l].amount = receipts[i][l].amount
           /\ l \in Good(i) /\ l \in Good(i)'
<1>. SUFFICES ASSUME NEW l \in granted[i]
              PROVE  /\ receipts'[i][l].amount = receipts[i][l].amount
                     /\ l \in Good(i) /\ l \in Good(i)'
  OBVIOUS
<1>1. l \in Good(i) /\ l \in Key
  BY DEF BooksInv, Books, GrantedGood, Good
<1>2. CASE l = k
  BY <1>1, <1>2, SavedRow, GoodIs
<1>3. CASE l # k
  BY <1>1, <1>3, SavedRow, GoodIs
<1>. QED
  BY <1>1, <1>2, <1>3

\* A new reason to hold an intent holds it.
LEMMA HeldNow ==
  ASSUME BooksInv, NEW i \in Intent, NEW reason \in Holds,
         hold' = [hold EXCEPT ![i] = HoldFor(i, reason)]
  PROVE  hold'[i] # Missing /\ \A j \in Intent \ {i} : hold'[j] = hold[j]
BY DEF BooksInv, CreditInv, CreditTyped, HoldFor

\* A registered intent starts with no receipts, so none of them is good.
LEMMA RegisterBooks ==
  ASSUME BooksInv, NEW i \in Intent, NEW q \in Quotes, RegisterXmrCreditIntent(i, q)
  PROVE  \A j \in Intent : Books(j)'
<1>. SUFFICES ASSUME NEW j \in Intent PROVE Books(j)'
  OBVIOUS
<1>1. /\ terms[i] = Missing /\ terms' = [terms EXCEPT ![i] = q]
      /\ UNCHANGED <<receipts, granted, eligible, hold>>
  BY DEF RegisterXmrCreditIntent
<1>2. CASE j # i
  <2>1. terms'[j] = terms[j]
    BY <1>1, <1>2 DEF BooksInv, CreditInv, CreditTyped
  <2>. QED
    BY <1>1, <2>1, BooksStay
<1>3. CASE j = i
  <2>1. terms'[i] # Missing
    BY <1>1 DEF BooksInv, CreditInv, CreditTyped
  <2>2. granted'[i] = {} /\ Good(i)' = {}
    BY <1>1 DEF BooksInv, Books, Good
  <2>3. GrantedCounted(i)'
    BY <1>1, UnitsStay
  <2>. QED
    BY <1>3, <2>1, <2>2, <2>3 DEF Books, GrantedGood
<1>. QED
  BY <1>2, <1>3

\* A report that contradicts the books, and a hold, leave the receipts alone.
LEMMA ConflictBooks ==
  ASSUME BooksInv, NEW i \in Intent, terms[i] # Missing, NEW reason \in Holds,
         hold' = [hold EXCEPT ![i] = HoldFor(i, reason)],
         UNCHANGED <<terms, receipts, granted, eligible>>
  PROVE  \A j \in Intent : Books(j)'
<1>. SUFFICES ASSUME NEW j \in Intent PROVE Books(j)'
  OBVIOUS
<1>1. CASE j = i
  <2>1. Good(i)' = Good(i)
    BY DEF Good, Timely
  <2>. QED
    BY <1>1, <2>1, HeldNow, BooksHeld
<1>2. CASE j # i
  BY <1>2, HeldNow, BooksStay
<1>. QED
  BY <1>1, <1>2

\* Over the limit the receipt is kept, and the intent is held for good.
LEMMA OverLimitBooks ==
  ASSUME BooksInv, NEW i \in Intent, NEW k \in Key, NEW o \in Observation,
         terms[i] # Missing, ~Contradicts(i, k, o), SaveReceipt(i, k, o),
         NEW reason \in Holds, hold' = [hold EXCEPT ![i] = HoldFor(i, reason)],
         UNCHANGED <<terms, granted, eligible>>
  PROVE  \A j \in Intent : Books(j)'
<1>. SUFFICES ASSUME NEW j \in Intent PROVE Books(j)'
  OBVIOUS
<1>1. CASE j = i
  BY <1>1, HeldNow, GrantedStays, BooksHeld
<1>2. CASE j # i
  BY <1>2, HeldNow, SavedRow, BooksStay
<1>. QED
  BY <1>1, <1>2

\* A report that is only recorded brings nothing good that is not granted.
LEMMA RecordedBooks ==
  ASSUME BooksInv, NEW i \in Intent, NEW k \in Key, NEW o \in Observation,
         terms[i] # Missing, ReportRecorded(i, k, o)
  PROVE  \A j \in Intent : Books(j)'
<1>0. /\ ~Contradicts(i, k, o) /\ ~Grantable(i, k, o) /\ SaveReceipt(i, k, o)
      /\ UNCHANGED <<terms, granted, eligible>>
  BY DEF ReportRecorded
<1>1. CASE o.double
  BY <1>0, <1>1, OverLimitBooks DEF ReportRecorded, Holds
<1>2. CASE ~o.double
  <2>. SUFFICES ASSUME NEW j \in Intent PROVE Books(j)'
    OBVIOUS
  <2>1. hold' = hold
    BY <1>2 DEF ReportRecorded
  <2>2. CASE j # i
    BY <1>0, <2>1, <2>2, SavedRow, BooksStay
  <2>3. CASE j = i /\ hold[i] # Missing
    BY <1>0, <2>1, <2>3, GrantedStays, BooksHeld
  <2>4. CASE j = i /\ hold[i] = Missing
    <3>1. granted[i] = Good(i)
      BY <2>4 DEF BooksInv, Books, GrantedGood
    <3>2. \A l \in Good(i)' : l \in Good(i)
      <4>1. ASSUME NEW l \in Good(i)', l # k PROVE l \in Good(i)
        BY <1>0, <4>1, SavedRow, GoodIs
      <4>2. ASSUME k \in Good(i)' PROVE k \in Good(i)
        BY <1>0, <1>2, <2>4, <3>1, <4>2, SavedRow, GoodIs DEF Grantable
      <4>. QED
        BY <4>1, <4>2
    <3>3. \A l \in Good(i) : l \in Good(i)'
      BY <1>0, <3>1, GrantedStays
    <3>4. Good(i)' = Good(i)
      BY <3>2, <3>3
    <3>5. GrantedCounted(i)'
      BY <1>0, GrantedStays, UnitsStay
    <3>. QED
      BY <1>0, <2>4, <3>1, <3>4, <3>5 DEF Books, GrantedGood
  <2>. QED
    BY <2>2, <2>3, <2>4
<1>. QED
  BY <1>1, <1>2

\* Receipts are of whole units.
LEMMA AmountsTyped ==
  /\ \A o \in Observation : o.amount \in Nat
  /\ \A row \in Receipt : row.amount \in Nat
<1>1. \A n \in Amounts : n \in Nat
  OBVIOUS
<1>2. \A o \in Observation : o.amount \in Amounts
  BY DEF Observation
<1>3. \A row \in Receipt : row.amount \in Amounts
  BY DEF Receipt
<1>. QED
  BY <1>1, <1>2, <1>3

\* A grant adds one good receipt to both sides.
LEMMA GrantBooks ==
  ASSUME BooksInv, NEW i \in Intent, NEW k \in Key, NEW o \in Observation,
         terms[i] # Missing, ReportGranted(i, k, o)
  PROVE  \A j \in Intent : Books(j)'
<1>0. /\ ~Contradicts(i, k, o) /\ SaveReceipt(i, k, o)
      /\ hold[i] = Missing /\ ~o.double /\ o.unlocked /\ Timely(terms[i], o.seen)
      /\ k \notin granted[i]
      /\ UNCHANGED <<terms, hold>>
  BY DEF ReportGranted, Grantable
<1>1. /\ granted'[i] = granted[i] \cup {k} /\ eligible'[i] = eligible[i] + o.amount
      /\ \A j \in Intent \ {i} : granted'[j] = granted[j] /\ eligible'[j] = eligible[j]
  BY DEF ReportGranted, BooksInv, CreditInv, CreditTyped
<1>. SUFFICES ASSUME NEW j \in Intent PROVE Books(j)'
  OBVIOUS
<1>2. CASE j # i
  BY <1>0, <1>1, <1>2, SavedRow, BooksStay
<1>3. CASE j = i
  <2>1. granted[i] = Good(i) /\ granted[i] \subseteq Key /\ GrantedCounted(i)
    BY <1>0 DEF BooksInv, Books, GrantedGood, Good
  <2>2. Good(i)' = Good(i) \cup {k}
    <3>1. k \in Good(i)'
      BY <1>0, SavedRow, GoodIs
    <3>2. ASSUME NEW l, l # k PROVE l \in Good(i)' <=> l \in Good(i)
      BY <1>0, <3>2, SavedRow, GoodIs
    <3>. QED
      BY <3>1, <3>2
  <2>3. PICK f, e : f = AmountsOf(i) /\ e = AmountsOf(i)'
    OBVIOUS
  <2>4. /\ \A l \in granted[i] : f[l] = e[l] /\ e[l] \in Int
        /\ e[k] = o.amount /\ o.amount \in Int
    <3>1. \A l \in Key : f[l] = receipts[i][l].amount /\ e[l] = receipts'[i][l].amount
      BY <2>3 DEF AmountsOf
    <3>2. \A l \in granted[i] : receipts'[i][l].amount = receipts[i][l].amount
      BY <1>0, GrantedStays
    <3>3. \A l \in granted[i] : receipts[i][l] \in Receipt
      BY <2>1 DEF BooksInv, Good
    <3>4. \A row \in Receipt : row.amount \in Int
      BY AmountsTyped
    <3>5. e[k] = o.amount /\ o.amount \in Int
      BY <1>0, <3>1, SavedRow, AmountsTyped
    <3>. QED
      BY <2>1, <3>1, <3>2, <3>3, <3>4, <3>5
  <2>5. Total(e, granted[i]) = Total(f, granted[i]) /\ IsFiniteSet(granted[i])
    BY <2>1, <2>4, TotalSame DEF GrantedCounted
  <2>6. /\ Total(e, granted[i] \cup {k}) = e[k] + Total(e, granted[i])
        /\ IsFiniteSet(granted[i] \cup {k}) /\ Total(e, granted[i]) \in Int
    <3>1. PICK G : G = granted[i]
      OBVIOUS
    <3>2. /\ IsFiniteSet(G) /\ k \notin G /\ \A l \in G \cup {k} : e[l] \in Int
          /\ \A l \in G : e[l] \in Int
      BY <1>0, <2>4, <2>5, <3>1
    <3>3. IsFiniteSet(G \cup {k})
      BY <3>2, FS_AddElement
    <3>4. Total(e, G) \in Int
      BY <3>2, TotalType
    <3>5. Total(e, G \cup {k}) = e[k] + Total(e, G)
      BY <3>2, TotalAdded
    <3>. QED
      BY <3>1, <3>3, <3>4, <3>5
  <2>7. eligible[i] = Total(f, granted[i])
    BY <2>1, <2>3 DEF GrantedCounted
  <2>8. GrantedCounted(i)'
    BY <1>1, <2>3, <2>4, <2>5, <2>6, <2>7 DEF GrantedCounted
  <2>. QED
    BY <1>0, <1>1, <1>3, <2>1, <2>2, <2>8 DEF Books, GrantedGood
<1>. QED
  BY <1>2, <1>3

LEMMA StepBooks == BooksInv /\ [CreditNext]_creditVars => BooksInv'
<1>. SUFFICES ASSUME BooksInv, [CreditNext]_creditVars
              PROVE  /\ \A j \in Intent : Books(j)'
                     /\ receipts' \in [Intent -> [Key -> Receipt \cup {Missing}]]
  BY CreditKeeps DEF BooksInv
<1>1. ASSUME NEW i \in Intent, NEW q \in Quotes, RegisterXmrCreditIntent(i, q)
      PROVE  \A j \in Intent : Books(j)'
  BY <1>1, RegisterBooks
<1>2. ASSUME NEW i \in Intent, NEW k \in Key, NEW o \in Observation,
             RecordXmrReceipt(i, k, o)
      PROVE  \A j \in Intent : Books(j)'
  <2>0. terms[i] # Missing
    BY <1>2 DEF RecordXmrReceipt
  <2>1. CASE ReportConflict(i, k, o)
    <3>1. ConflictReason(receipts[i][k], o) \in Holds
      BY DEF ConflictReason, Holds
    <3>. QED
      BY <2>0, <2>1, <3>1, ConflictBooks DEF ReportConflict
  <2>2. CASE ReportRecorded(i, k, o)
    BY <2>0, <2>2, RecordedBooks
  <2>3. CASE ReportOverLimit(i, k, o)
    BY <2>0, <2>3, OverLimitBooks DEF ReportOverLimit, Holds
  <2>4. CASE ReportGranted(i, k, o)
    BY <2>0, <2>4, GrantBooks
  <2>. QED
    BY <1>2, <2>1, <2>2, <2>3, <2>4 DEF RecordXmrReceipt
<1>3. ASSUME NEW i \in Intent, HoldXmrCreditIntent(i)
      PROVE  \A j \in Intent : Books(j)'
  BY <1>3, ConflictBooks DEF HoldXmrCreditIntent, Holds
<1>4. ASSUME UNCHANGED <<terms, receipts, granted, eligible, hold>>
      PROVE  \A j \in Intent : Books(j)'
  BY <1>4, BooksStay
<1>5. receipts' \in [Intent -> [Key -> Receipt \cup {Missing}]]
  <2>1. ASSUME NEW i \in Intent, NEW k \in Key, NEW o \in Observation,
               RecordXmrReceipt(i, k, o)
        PROVE  receipts' \in [Intent -> [Key -> Receipt \cup {Missing}]]
    BY <2>1, SavedRow
       DEF RecordXmrReceipt, ReportConflict, ReportRecorded, ReportOverLimit, ReportGranted,
           BooksInv
  <2>. QED
    BY <2>1 DEF BooksInv, CreditNext, ReceiptNext, RegisterXmrCreditIntent,
                HoldXmrCreditIntent, MoveFeedCredit, creditVars
<1>. QED
  BY <1>1, <1>2, <1>3, <1>4, <1>5 DEF CreditNext, ReceiptNext, MoveFeedCredit, creditVars

\* The sum of EvidenceDecidesCredit is the sum of the amounts as a function.
LEMMA SumOfUnits ==
  ASSUME NEW i, NEW S \in SUBSET Key
  PROVE  Units(i, S) = Total(AmountsOf(i), S)
<1>. DEFINE F(g) == g = [s \in SUBSET S |->
                          IF s = {} THEN 0 ELSE receipts[i][Some(s)].amount + g[s \ {Some(s)}]]
<1>1. ASSUME NEW g PROVE F(g) <=> Solves(AmountsOf(i), S, g)
  <2>1. \A s \in SUBSET S : s # {} => AmountsOf(i)[Some(s)] = receipts[i][Some(s)].amount
    BY DEF AmountsOf, Some
  <2>. QED
    BY <2>1 DEF Solves
<1>2. (CHOOSE g : F(g)) = (CHOOSE g : Solves(AmountsOf(i), S, g))
  <2>. HIDE DEF F
  <2>. QED
    BY <1>1
<1>3. Units(i, S) = (CHOOSE g : F(g))[S]
  BY DEF Units, MapThenSumSet, MapThenFoldSet, Some
<1>. QED
  BY <1>2, <1>3, TotalIs

LEMMA BooksInvariant == CreditSpec => []BooksInv
BY InitBooks, StepBooks, PTL DEF CreditSpec

\* The evidence is the credit.
LEMMA EvidenceIsCredit ==
  ASSUME BooksInv
  PROVE  EvidenceDecidesCredit
<1>. SUFFICES ASSUME NEW i \in Registered
              PROVE  /\ granted[i] \subseteq Good(i)
                     /\ hold[i] = Missing => granted[i] = Good(i)
                     /\ credited[i] = CumulativeSats(terms[i], Units(i, granted[i]))
                     /\ paid[i] = credited[i]
                     /\ credited[i] <= terms[i].limit
  BY DEF EvidenceDecidesCredit
<1>1. i \in Intent /\ Books(i) /\ granted[i] \in SUBSET Key
  BY DEF BooksInv, Registered, CreditInv, CreditTyped
<1>2. Units(i, granted[i]) = eligible[i]
  BY <1>1, SumOfUnits DEF Books, GrantedCounted
<1>. QED
  BY <1>1, <1>2 DEF BooksInv, CreditInv, ValuedOnce, Books, GrantedGood, Registered

(***************************************************************************)
(* Whatever the number and order of the reports, the credit of an intent   *)
(* is that of its evidence valued at once.                                 *)
(***************************************************************************)
THEOREM CreditIsDecided == CreditSpec => []EvidenceDecidesCredit
BY BooksInvariant, EvidenceIsCredit, PTL

-----------------------------------------------------------------------------
(***************************************************************************)
(* The two together.  A step of a payment is a step of the quote service   *)
(* or of the credit ledger, or of both: what was shown of each holds of    *)
(* the payment.                                                            *)
(***************************************************************************)
LEMMA QuoteSteps == [PaymentNext]_payment => [Next]_vars
BY DEF PaymentNext, QuoteStep, CreditStep, payment, vars

\* The quote service is what it was without the credit.
THEOREM PaymentsQuote == PaymentSpec => Spec
<1>1. PaymentInit => Init
  BY DEF PaymentInit
<1>. QED
  BY <1>1, QuoteSteps, PTL DEF PaymentSpec, Spec

\* Only a first bind changes a binding, that of one quote, and no request.
LEMMA BindsOne ==
  ASSUME QuoteInv, Next, NEW i \in Id, binding'[i] # binding[i]
  PROVE  /\ binding[i] = NoRow /\ binding'[i] # NoRow
         /\ Ready(requests[i]) /\ UNCHANGED requests
         /\ \A j \in Id \ {i} : binding'[j] = binding[j]
<1>1. PICK c \in Call, scope \in Scope : BindXmrQuote(c, scope)
  BY DEF Next, ReserveXmrQuote, CreateAgain, Lookup, BindLookup, Fetch, FetchFails,
         CompleteXmrQuote, CompleteRefused, FailXmrQuote, Drop, SetClock
<1>. DEFINE k == call[c].id
<1>2. /\ Binds(k, call[c].quote, scope, now)
      /\ binding' = [binding EXCEPT ![k] = scope]
      /\ requests[k].status = "ready" /\ UNCHANGED requests
  BY <1>1 DEF BindXmrQuote
<1>3. k \in Id /\ requests[k] # NoRow
  BY <1>1, CallsMade DEF BindXmrQuote, QuoteInv, CallsAreReserved
<1>4. i = k /\ binding'[i] = scope
  BY <1>2, <1>3 DEF QuoteInv, QuoteTyped
<1>5. binding[i] = NoRow /\ scope # NoRow
  BY <1>2, <1>4 DEF Binds
<1>. QED
  BY <1>2, <1>3, <1>4, <1>5 DEF Ready, QuoteInv, QuoteTyped

\* The terms of a quote are ones that an intent may be registered with.
LEMMA TermsAreTyped ==
  ASSUME EvidenceInv, NEW i \in Id, Ready(requests[i])
  PROVE  TermsOf(requests[i].quote) \in Quotes
<1>1. PICK q \in Quote : q = requests[i].quote
  BY DEF EvidenceInv, QuoteInv, QuotesBounded, BoundedBy
<1>2. q.rate \in Rate /\ q.issued \in Nat
  BY DEF Quote
<1>3. q.issued \in 0..MaxTime
  BY <1>1, <1>2 DEF EvidenceInv, QuotesEvident, Evident
<1>4. PICK p : p = [rate |-> q.rate, observed |-> q.issued, issued |-> q.issued]
  OBVIOUS
<1>5. TermsOf(p) \in Quotes
  BY <1>2, <1>3, <1>4, PaymentAssumption
<1>6. TermsOf(p) = TermsOf(q)
  BY <1>4 DEF TermsOf, Expires
<1>. QED
  BY <1>1, <1>5, <1>6

\* What a step of a payment does to the credit.
LEMMA CreditSteps ==
  ASSUME EvidenceInv, [PaymentNext]_payment
  PROVE  [CreditNext]_creditVars
<1>1. CASE UNCHANGED payment
  BY <1>1 DEF payment
<1>2. CASE CreditStep
  BY <1>2 DEF CreditStep, CreditNext
<1>3. CASE QuoteStep
  <2>1. CASE binding' = binding
    BY <1>3, <2>1 DEF QuoteStep
  <2>2. CASE binding' # binding
    <3>1. PICK i \in Id : /\ binding'[i] # binding[i]
                          /\ RegisterXmrCreditIntent(i, TermsOf(requests[i].quote))
      BY <1>3, <2>2 DEF QuoteStep
    <3>2. Ready(requests[i])
      BY <1>3, <3>1, BindsOne DEF QuoteStep, EvidenceInv
    <3>3. i \in Intent /\ TermsOf(requests[i].quote) \in Quotes
      BY <3>2, TermsAreTyped, PaymentAssumption
    <3>. QED
      BY <3>1, <3>3 DEF CreditNext
  <2>. QED
    BY <2>1, <2>2
<1>. QED
  BY <1>1, <1>2, <1>3 DEF PaymentNext

\* The credit ledger is what it was without the quotes: the intents that are
\* registered have the terms of quotes, and those are terms it may be given.
THEOREM PaymentsCredit == PaymentSpec => CreditSpec
<1>1. PaymentInit => CreditInit
  BY DEF PaymentInit
<1>2. EvidenceInv /\ [PaymentNext]_payment => [CreditNext]_creditVars
  BY CreditSteps
<1>. QED
  BY <1>1, <1>2, PaymentsQuote, EvidenceInvariant, PTL DEF PaymentSpec, CreditSpec

\* A quote that is ready stays what it is.
LEMMA ReadyStays ==
  ASSUME QuoteInv, Next, NEW i \in Id, Ready(requests[i])
  PROVE  requests'[i] = requests[i]
<1>1. ASSUME NEW c \in Call, NEW j \in Id, NEW by \in Client,
             ReserveXmrQuote(c, j, by)
      PROVE  requests'[i] = requests[i]
  <2>1. requests[j] = NoRow /\ \E row : requests' = [requests EXCEPT ![j] = row]
    BY <1>1 DEF ReserveXmrQuote, Rows
  <2>. QED
    BY <2>1 DEF Ready, QuoteInv, QuoteTyped
<1>2. ASSUME NEW c \in Call, CompleteXmrQuote(c) PROVE requests'[i] = requests[i]
  <2>. DEFINE k == call[c].id
  <2>1. requests[k].status = "reserved" /\ \E row : requests' = [requests EXCEPT ![k] = row]
    <3>1. k \in Id
      BY <1>2, CallsMade DEF CompleteXmrQuote, QuoteInv
    <3>. QED
      BY <1>2, <3>1 DEF CompleteXmrQuote, Completes, QuoteInv, QuoteTyped
  <2>. HIDE DEF k
  <2>. QED
    BY <2>1 DEF Ready, QuoteInv, QuoteTyped
<1>3. ASSUME NEW c \in Call, FailXmrQuote(c) PROVE requests'[i] = requests[i]
  BY <1>3 DEF FailXmrQuote, Ready, QuoteInv, QuoteTyped
<1>. QED
  BY <1>1, <1>2, <1>3
  DEF Next, CreateAgain, Lookup, BindLookup, Fetch, FetchFails, CompleteRefused,
      Drop, BindXmrQuote, SetClock

(***************************************************************************)
(* What joins the two: an intent is registered when its quote is bound,    *)
(* under the terms of that quote.                                          *)
(***************************************************************************)
BoundUnderTerms ==
  \A i \in Id :
    /\ terms[i] = Missing <=> binding[i] = NoRow
    /\ binding[i] # NoRow => /\ Ready(requests[i])
                             /\ terms[i] = TermsOf(requests[i].quote)

LEMMA StepJoins ==
  ASSUME EvidenceInv, BooksInv, BoundUnderTerms, [PaymentNext]_payment
  PROVE  BoundUnderTerms'
<1>1. CASE UNCHANGED payment
  BY <1>1 DEF payment, vars, creditVars, BoundUnderTerms, Ready, TermsOf, Expires
<1>2. CASE CreditStep
  <2>1. UNCHANGED <<requests, binding, terms>>
    BY <1>2
    DEF CreditStep, vars, ReceiptNext, RecordXmrReceipt, ReportConflict, ReportRecorded,
        ReportOverLimit, ReportGranted, HoldXmrCreditIntent, MoveFeedCredit
  <2>. QED
    BY <2>1 DEF BoundUnderTerms, Ready, TermsOf, Expires
<1>3. CASE QuoteStep
  <2>. SUFFICES ASSUME NEW j \in Id
                PROVE  /\ terms'[j] = Missing <=> binding'[j] = NoRow
                       /\ binding'[j] # NoRow =>
                            /\ Ready(requests'[j])
                            /\ terms'[j] = TermsOf(requests'[j].quote)
    BY DEF BoundUnderTerms, Ready, TermsOf, Expires
  <2>0. Next /\ QuoteInv
    BY <1>3 DEF QuoteStep, EvidenceInv
  <2>1. ASSUME binding'[j] = binding[j], terms'[j] = terms[j]
        PROVE  /\ terms'[j] = Missing <=> binding'[j] = NoRow
               /\ binding'[j] # NoRow =>
                    /\ Ready(requests'[j])
                    /\ terms'[j] = TermsOf(requests'[j].quote)
    BY <2>0, <2>1, ReadyStays DEF BoundUnderTerms
  <2>2. CASE binding' = binding
    <3>1. terms' = terms
      BY <1>3, <2>2 DEF QuoteStep, creditVars
    <3>. QED
      BY <2>1, <2>2, <3>1
  <2>3. CASE binding' # binding
    <3>1. PICK i \in Id : /\ binding'[i] # binding[i]
                          /\ RegisterXmrCreditIntent(i, TermsOf(requests[i].quote))
      BY <1>3, <2>3 DEF QuoteStep
    <3>2. /\ binding'[i] # NoRow /\ Ready(requests[i]) /\ requests' = requests
          /\ \A l \in Id \ {i} : binding'[l] = binding[l]
      BY <2>0, <3>1, BindsOne
    <3>3. PICK t \in Quotes : t = TermsOf(requests[i].quote)
      BY <3>2, TermsAreTyped
    <3>4. i \in Intent /\ j \in Intent /\ t # Missing /\ terms' = [terms EXCEPT ![i] = t]
      BY <3>1, <3>3, PaymentAssumption DEF RegisterXmrCreditIntent
    <3>5. terms'[i] = t /\ (j # i => terms'[j] = terms[j])
      BY <3>4 DEF BooksInv, CreditInv, CreditTyped
    <3>6. CASE j = i
      BY <3>2, <3>3, <3>4, <3>5, <3>6
    <3>7. CASE j # i
      BY <2>1, <3>2, <3>5, <3>7
    <3>. QED
      BY <3>6, <3>7
  <2>. QED
    BY <2>2, <2>3
<1>. QED
  BY <1>1, <1>2, <1>3 DEF PaymentNext

PaymentInv == EvidenceInv /\ BooksInv /\ BoundUnderTerms

LEMMA PaymentInvariant == PaymentSpec => []PaymentInv
<1>1. PaymentInit => BoundUnderTerms
  BY PaymentAssumption DEF PaymentInit, Init, CreditInit, BoundUnderTerms
<1>2. EvidenceInv /\ BooksInv /\ BoundUnderTerms /\ [PaymentNext]_payment => BoundUnderTerms'
  BY StepJoins
<1>3. PaymentSpec => []EvidenceInv
  BY PaymentsQuote, EvidenceInvariant
<1>4. PaymentSpec => []BooksInv
  BY PaymentsCredit, BooksInvariant
<1>. QED
  BY <1>1, <1>2, <1>3, <1>4, PTL DEF PaymentSpec, PaymentInv

-----------------------------------------------------------------------------
\* The amount of a quote is worth its target, and not less.
LEMMA AmountCovers ==
  ASSUME NEW rate \in Rate
  PROVE  /\ Expected(rate) \in Nat /\ Expected(rate) > 0
         /\ Target * Unit <= Expected(rate) * rate
<1>1. rate \in Nat /\ rate > 0 /\ Target \in Nat /\ Target > 0 /\ Unit \in Nat /\ Unit > 0
  BY DEF Rate
<1>2. PICK w \in Nat : w = Target * Unit /\ w >= 1
  <2>1. Target * 1 <= Target * Unit /\ Target * Unit \in Nat
    BY <1>1, Multiples
  <2>. QED
    BY <1>1, <2>1
<1>3. PICK a \in Nat : a = w + rate - 1
  BY <1>1, <1>2
<1>4. PICK x \in Nat : x = a \div rate /\ a < rate * x + rate
  BY <1>1, <1>3, Quotient
<1>5. PICK y \in Nat : y = rate * x /\ y = x * rate
  BY <1>1, Multiples
<1>6. w <= y
  BY <1>1, <1>3, <1>4, <1>5
<1>7. x > 0
  BY <1>1, <1>2, <1>5, <1>6
<1>8. x = Expected(rate)
  BY <1>2, <1>3, <1>4 DEF Expected
<1>. QED
  BY <1>2, <1>5, <1>6, <1>7, <1>8

\* If x units are worth at least the target's, and the credit is the units'
\* share of the target rounded down, the credit is worth at most the units.
LEMMA WorthAtMost ==
  ASSUME NEW a \in Nat, NEW e \in Nat, NEW t \in Nat, NEW u \in Nat, NEW r \in Nat,
         NEW x \in Nat, t > 0, x * a <= e * t, t * u <= x * r
  PROVE  a * u <= e * r
<1>1. PICK au \in Nat, er \in Nat : au = a * u /\ er = e * r
  OBVIOUS
<1>2. a * (t * u) <= a * (x * r)
  <2>1. t * u \in Nat /\ x * r \in Nat
    OBVIOUS
  <2>. QED
    BY <2>1, Multiples
<1>3. r * (x * a) <= r * (e * t)
  <2>1. x * a \in Nat /\ e * t \in Nat
    OBVIOUS
  <2>. QED
    BY <2>1, Multiples
<1>4. a * (t * u) = t * au /\ r * (e * t) = t * er /\ a * (x * r) = r * (x * a)
  BY <1>1
<1>5. t * au <= t * er
  <2>1. t * au \in Nat /\ t * er \in Nat /\ a * (x * r) \in Nat
    OBVIOUS
  <2>. QED
    BY <1>2, <1>3, <1>4, <2>1
<1>6. ~(er < au)
  <2>1. er < au => t * er + t <= t * au
    BY Multiples
  <2>2. t * er \in Nat /\ t * au \in Nat
    OBVIOUS
  <2>. QED
    BY <1>5, <2>1, <2>2
<1>. QED
  BY <1>1, <1>6

\* And who has paid the amount has the target.
LEMMA TargetReached ==
  ASSUME NEW e \in Nat, NEW t \in Nat, NEW x \in Nat, x > 0, x <= e
  PROVE  t <= (e * t) \div x
<1>1. PICK et \in Nat : et = e * t /\ et = t * e
  BY Multiples
<1>2. PICK q \in Nat : q = et \div x /\ et < x * q + x
  BY Quotient
<1>3. t * x <= et /\ t * x = x * t /\ t * x \in Nat
  BY <1>1, Multiples
<1>4. q < t => x * q + x <= x * t
  BY Multiples
<1>5. ~(q < t)
  <2>1. x * q \in Nat
    OBVIOUS
  <2>. QED
    BY <1>2, <1>3, <1>4, <2>1
<1>. QED
  BY <1>1, <1>2, <1>5

\* What the credit of an intent is worth, of the units it is for.
LEMMA CreditIsWorth ==
  ASSUME NEW rate \in Rate, NEW e \in Nat
  PROVE  LET c == (e * Target) \div Expected(rate) IN
           /\ c * Unit <= e * rate
           /\ e >= Expected(rate) => c >= Target
<1>1. PICK x \in Nat : x = Expected(rate) /\ x > 0 /\ Target * Unit <= x * rate
  BY AmountCovers
<1>2. /\ Target \in Nat /\ Target > 0 /\ Unit \in Nat /\ rate \in Nat
      /\ e * Target \in Nat
  BY DEF Rate
<1>3. PICK c \in Nat : c = (e * Target) \div x /\ x * c <= e * Target
  BY <1>1, <1>2, Quotient
<1>4. c * Unit <= e * rate
  BY <1>1, <1>2, <1>3, WorthAtMost
<1>5. e >= x => c >= Target
  BY <1>1, <1>2, <1>3, TargetReached
<1>. QED
  BY <1>1, <1>3, <1>4, <1>5

LEMMA PromiseIsKept ==
  ASSUME PaymentInv
  PROVE  QuotePromise
<1>. SUFFICES ASSUME NEW i \in Id, paid[i] # 0 \/ terms[i] # Missing,
                     NEW q, q = requests[i].quote,
                     NEW settled,
                     settled = {k \in Key : /\ receipts[i][k] # Missing
                                            /\ q.issued <= receipts[i][k].seen
                                            /\ receipts[i][k].seen < Expires(q)
                                            /\ receipts[i][k].unlocked}
              PROVE  /\ Ready(requests[i]) /\ binding[i] # NoRow
                     /\ \A k \in granted[i] : /\ receipts[i][k] # Missing
                                              /\ q.issued <= receipts[i][k].seen
                                              /\ receipts[i][k].seen < Expires(q)
                     /\ paid[i] * Unit <= Units(i, granted[i]) * q.rate
                     /\ hold[i] = Missing /\ Units(i, settled) >= Expected(q.rate)
                          => paid[i] >= Target
  BY DEF QuotePromise
<1>1. i \in Intent
  BY PaymentAssumption
<1>2. terms[i] # Missing
  BY <1>1 DEF PaymentInv, BooksInv, CreditInv, ValuedOnce
<1>3. /\ Ready(requests[i]) /\ binding[i] # NoRow
      /\ terms[i] = TermsOf(q)
  BY <1>2 DEF PaymentInv, BoundUnderTerms
<1>4. q.rate \in Rate
  BY <1>3 DEF PaymentInv, EvidenceInv, QuoteInv, QuotesBounded, BoundedBy, Quote
<1>5. /\ terms[i].issued = q.issued /\ terms[i].expires = Expires(q)
      /\ terms[i].expected = Expected(q.rate) /\ terms[i].target = Target
  BY <1>3 DEF TermsOf
<1>6. Good(i) = settled
  BY <1>5 DEF Good, Timely
<1>7. /\ granted[i] \subseteq settled /\ granted[i] \in SUBSET Key
      /\ hold[i] = Missing => granted[i] = settled
      /\ eligible[i] = Total(AmountsOf(i), granted[i]) /\ eligible[i] \in Nat
  BY <1>1, <1>2, <1>6 DEF PaymentInv, BooksInv, Books, GrantedGood, GrantedCounted,
                          CreditInv, CreditTyped
<1>8. Units(i, granted[i]) = eligible[i]
  BY <1>7, SumOfUnits
<1>9. paid[i] = (eligible[i] * Target) \div Expected(q.rate)
  BY <1>1, <1>2, <1>5 DEF PaymentInv, BooksInv, CreditInv, ValuedOnce, Registered, CumulativeSats
<1>10. /\ paid[i] * Unit <= eligible[i] * q.rate
       /\ eligible[i] >= Expected(q.rate) => paid[i] >= Target
  BY <1>4, <1>7, <1>9, CreditIsWorth
<1>. QED
  BY <1>3, <1>7, <1>8, <1>10

(***************************************************************************)
(* Who pays the quoted amount in time is credited the target, no one is    *)
(* credited more than the receipts granted are worth, and none of them was *)
(* first seen outside the quote's life: for every number of quotes,        *)
(* receipts and retries, every rate, and every clock.                      *)
(***************************************************************************)
THEOREM QuotesAreHonoured == PaymentSpec => []QuotePromise
BY PaymentInvariant, PromiseIsKept, PTL

=============================================================================
