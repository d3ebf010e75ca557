------------------------------ MODULE XmrQuote -------------------------------
(***************************************************************************)
(* Quotes of an amount of monero for an amount of credit: the service in   *)
(* src/quotes.rs and its transactions in src/ledger/quotes.rs.  A call     *)
(* reserves its request, asks the rate source without holding the          *)
(* database, and completes the reservation or fails it; callers repeat     *)
(* their requests, and a quote they were given is later bound to a receive *)
(* address.  The wall clock may be set back or forward between any two     *)
(* steps; a call may be dropped, or lose the reply of its commit.  Of a    *)
(* request's inputs only the client that makes it is kept, and the one     *)
(* rate source has one watermark.  Every request is for the same number of *)
(* sats.                                                                   *)
(***************************************************************************)
EXTENDS RateOracle

CONSTANTS
  Call,         \* calls in progress; create and lookup take one of 4 slots
  Id,           \* quote request UUIDs
  Client,       \* client buckets
  Scope,        \* receive scopes of a wallet
  MinRate, MaxRate,    \* bounds on the rate, sats per XMR
  Target,       \* target_sats of a request
  Unit,         \* PICONERO_PER_XMR
  MaxPiconero,  \* policy.max_piconero
  NoRow,        \* a row that does not exist
  Window, MaxRecent, MaxPerClient, MaxPending, MaxRetained,  \* QuotePolicy
  Reservation,  \* RESERVATION_SECONDS
  Lifetime,     \* policy.lifetime_seconds
  MaxRateAge,   \* policy.max_rate_age_seconds
  MaxTime       \* bound on the wall clock

Rate == MinRate..MaxRate

(* The columns of a quote's document, of a request and of the watermark.   *)
Quote == [rate : Rate, observed : Nat, issued : Nat]
Request == [by : Client, at : Nat, status : {"reserved", "ready", "failed"},
            quote : Quote \cup {NoRow}]
Watermark == [at : Nat, rate : Rate]

(* QuotePolicy::validate. *)
ValidPolicy ==
  /\ {Window, MaxRecent, MaxPerClient, MaxPending, MaxRetained, Lifetime, MaxRateAge,
      MinRate, MaxRate, MaxPiconero} \subseteq Nat \ {0}
  /\ MaxPerClient <= MaxRecent /\ MaxPending <= MaxRecent
  /\ MaxRecent <= MaxRetained
  /\ MinRate <= MaxRate

ASSUME QuoteAssumption ==
  /\ ValidPolicy
  /\ {Reservation, Target, Unit} \subseteq Nat \ {0}
  /\ MaxTime \in Nat
  /\ NoRow \notin Request \cup Watermark

VARIABLES
  now,        \* the wall clock
  lastEpoch,  \* xmr_quote_clock.last_epoch
  requests,   \* xmr_quote_requests by id
  watermark,  \* xmr_rate_watermarks: the newest rate a quote was made with
  binding,    \* xmr_quote_bindings: the receive scope of a quote
  call,       \* the calls of the service
  given       \* history: the quotes that callers were given, by id

vars == <<now, lastEpoch, requests, watermark, binding, call, given>>

Idle == [pc |-> "idle"]

(* The id and inputs of a call, and what it has read so far. *)
At(pc, id, by, since, quote) ==
  [pc |-> pc, id |-> id, by |-> by, since |-> since, quote |-> quote]
InState(c, pc) == call[c].pc = pc
Go(c, pc) == call' = [call EXCEPT ![c].pc = pc]
End(c) == call' = [call EXCEPT ![c] = Idle]

Expires(q) == q.issued + Lifetime

\* Mutant: the quoted amount is rounded down.
MutantFloor(rate) == (Target * Unit) \div rate

\* XmrBtcRate::quote: the amount, rounded up.
Expected(rate) == (Target * Unit + rate - 1) \div rate

-----------------------------------------------------------------------------
Init ==
  /\ now \in 0..MaxTime
  /\ lastEpoch = 0
  /\ requests = [i \in Id |-> NoRow]
  /\ watermark = NoRow
  /\ binding = [i \in Id |-> NoRow]
  /\ call = [c \in Call |-> Idle]
  /\ given = [i \in Id |-> {}]

\* Mutant: the quote clock follows the wall clock back.
MutantClockFollows(t) == lastEpoch' = t

(* Every transaction that reads the clock refuses a time before the last. *)
CheckClock(t) == lastEpoch <= t /\ lastEpoch' = t

Rows == {i \in Id : requests[i] # NoRow}
Recent(t) == {i \in Rows : requests[i].at > t - Window}
Until(row) == row.at + Reservation
Pending(t) == {i \in Rows : requests[i].status = "reserved"
                            /\ t < Until(requests[i])}

Admits(by, t) ==
  /\ Cardinality(Rows) < MaxRetained
  /\ Cardinality(Recent(t)) < MaxRecent
  /\ Cardinality({i \in Recent(t) : requests[i].by = by}) < MaxPerClient
  /\ Cardinality(Pending(t)) < MaxPending

(* What a repeated request may be answered with: only the quote it got. *)
Answers(i, by, t) ==
  /\ i \in Rows
  /\ requests[i].by = by
  /\ requests[i].at <= t
  /\ requests[i].status = "ready"

Give(i, q) == given' = [given EXCEPT ![i] = @ \cup {q}]

ReserveXmrQuote(c, i, by) ==
  /\ InState(c, "idle")
  /\ CheckClock(now)
  /\ i \notin Rows /\ Admits(by, now)
  /\ requests' = [requests EXCEPT ![i] =
                    [by |-> by, at |-> now, status |-> "reserved", quote |-> NoRow]]
  /\ call' = [call EXCEPT ![c] = At("fetching", i, by, now, NoRow)]
  /\ UNCHANGED <<now, watermark, binding, given>>

CreateAgain(c, i, by) ==
  /\ InState(c, "idle")
  /\ CheckClock(now)
  /\ Answers(i, by, now)
  /\ Give(i, requests[i].quote)
  /\ UNCHANGED <<now, requests, watermark, binding, call>>

(* A read outside any transaction: it does not move the quote clock. *)
Lookup(c, i, by) ==
  /\ InState(c, "idle")
  /\ Answers(i, by, now)
  /\ Give(i, requests[i].quote)
  /\ UNCHANGED <<now, lastEpoch, requests, watermark, binding, call>>

Fresh(observed, t) == t - observed <= MaxRateAge

(* The source answers: evidence fetched between the reservation and the     *)
(* issue, observed at most MaxRateAge before it, within the policy's bounds. *)
Fetch(c) ==
  /\ InState(c, "fetching")
  /\ call[c].since <= now
  /\ \E observed \in 0..now, rate \in Rate :
       /\ [rate |-> rate, observed |-> observed] \in Evidence(now)
       /\ Fresh(observed, now)
       /\ Expected(rate) <= MaxPiconero
       /\ call' = [call EXCEPT ![c].pc = "issuing",
                     ![c].quote = [rate |-> rate, observed |-> observed,
                                   issued |-> now]]
  /\ UNCHANGED <<now, lastEpoch, requests, watermark, binding, given>>

(* The deadline of 10 s, an error, or evidence that a check refuses. *)
FetchFails(c) ==
  /\ InState(c, "fetching")
  /\ Go(c, "failing")
  /\ UNCHANGED <<now, lastEpoch, requests, watermark, binding, given>>

Advances(q) ==
  watermark # NoRow =>
    \/ watermark.at < q.observed
    \/ watermark.at = q.observed /\ watermark.rate = q.rate

Completes(c) ==
  LET row == requests[call[c].id] q == call[c].quote IN
  /\ row.status = "reserved" /\ row.by = call[c].by
  /\ q.issued < Until(row)
  /\ Advances(q)

(* Whether or not its reply arrives, what has committed stays. *)
CompleteXmrQuote(c) ==
  LET i == call[c].id q == call[c].quote IN
  /\ InState(c, "issuing")
  /\ CheckClock(q.issued)
  /\ Completes(c)
  /\ requests' = [requests EXCEPT ![i].status = "ready", ![i].quote = q]
  /\ watermark' = [at |-> q.observed, rate |-> q.rate]
  /\ \/ End(c) /\ Give(i, q)
     \/ Go(c, "failing") /\ UNCHANGED given
  /\ UNCHANGED <<now, binding>>

CompleteRefused(c) ==
  /\ InState(c, "issuing")
  /\ ~(lastEpoch <= call[c].quote.issued /\ Completes(c))
  /\ Go(c, "failing")
  /\ UNCHANGED <<now, lastEpoch, requests, watermark, binding, given>>

\* Mutant: a call that failed takes its request down whatever became of it.
MutantFailsAnything(c) ==
  /\ InState(c, "failing")
  /\ requests' = [requests EXCEPT ![call[c].id].status = "failed"]
  /\ End(c)
  /\ UNCHANGED <<now, lastEpoch, watermark, binding, given>>

FailXmrQuote(c) ==
  LET i == call[c].id IN
  /\ InState(c, "failing")
  /\ requests' = IF requests[i].status = "reserved"
                   THEN [requests EXCEPT ![i].status = "failed"] ELSE requests
  /\ End(c)
  /\ UNCHANGED <<now, lastEpoch, watermark, binding, given>>

(* bind() looks its quote up, and binds what it read in a transaction. *)
BindLookup(c, i, by) ==
  /\ InState(c, "idle")
  /\ Answers(i, by, now)
  /\ call' = [call EXCEPT ![c] = At("binding", i, by, now, requests[i].quote)]
  /\ UNCHANGED <<now, lastEpoch, requests, watermark, binding, given>>

(* A retry of the same binding succeeds after the quote has expired; the   *)
(* receive scope of a valuation is UNIQUE.                                 *)
Binds(i, q, scope, t) ==
  \/ binding[i] = scope
  \/ /\ binding[i] = NoRow /\ \A j \in Id : binding[j] # scope
     /\ q.issued <= t /\ t < Expires(q)

BindXmrQuote(c, scope) ==
  LET i == call[c].id q == call[c].quote IN
  /\ InState(c, "binding")
  /\ CheckClock(now)
  /\ requests[i].status = "ready" /\ requests[i].quote = q
  /\ Binds(i, q, scope, now)
  /\ binding' = [binding EXCEPT ![i] = scope]
  /\ End(c)
  /\ UNCHANGED <<now, requests, watermark, given>>

(* The caller goes away, a bind is refused, or the process stops. *)
Drop(c) ==
  /\ ~InState(c, "idle")
  /\ End(c)
  /\ UNCHANGED <<now, lastEpoch, requests, watermark, binding, given>>

SetClock ==
  /\ now' \in 0..MaxTime
  /\ UNCHANGED <<lastEpoch, requests, watermark, binding, call, given>>

Next ==
  \/ \E c \in Call, i \in Id, by \in Client :
       \/ ReserveXmrQuote(c, i, by)
       \/ CreateAgain(c, i, by)
       \/ Lookup(c, i, by)
       \/ BindLookup(c, i, by)
  \/ \E c \in Call :
       \/ Fetch(c) \/ FetchFails(c)
       \/ CompleteXmrQuote(c) \/ CompleteRefused(c)
       \/ FailXmrQuote(c) \/ Drop(c)
  \/ \E c \in Call, scope \in Scope : BindXmrQuote(c, scope)
  \/ SetClock

Spec == Init /\ [][Next]_vars

-----------------------------------------------------------------------------
(***************************************************************************)
(* A quote that anyone was given stays the one quote of its request: a     *)
(* repeated create or a lookup never answers with another one, and a call  *)
(* that lost the reply of its commit does not take the quote away when it  *)
(* fails its reservation (create, fail_xmr_quote).                         *)
(***************************************************************************)
QuotesAreKept ==
  \A i \in Id : \A q \in given[i] :
    requests[i] # NoRow /\ requests[i].status = "ready" /\ requests[i].quote = q

(***************************************************************************)
(* Whatever the wall clock does and in whatever order slow calls finish, a *)
(* quote is issued no earlier and with a rate no older than any before it, *)
(* never with two rates of one instant, and a quote is first bound only    *)
(* while no recorded time has reached its expiry (check_clock,             *)
(* complete_xmr_quote, bind_xmr_quote).                                    *)
(***************************************************************************)
Ready(row) == row # NoRow /\ row.status = "ready"
Follows(new, old) ==
  /\ old.issued <= new.issued
  /\ \/ old.observed < new.observed
     \/ old.observed = new.observed /\ old.rate = new.rate

StaleIsRefused ==
  [][\A i \in Id :
       /\ Ready(requests'[i]) /\ ~Ready(requests[i]) =>
            \A j \in Id : Ready(requests[j]) =>
              Follows(requests'[i].quote, requests[j].quote)
       /\ binding'[i] # NoRow /\ binding[i] = NoRow =>
            \A t \in {lastEpoch, lastEpoch'} : t < Expires(requests[i].quote)]_vars

(***************************************************************************)
(* A quote has the average price of a whole minute of the market, in which *)
(* there was trade, and every trade of it is at most MaxRateAge old at the *)
(* issue: never an unfinished candle, an empty one, or one that does not   *)
(* agree with itself (parse_kraken_ohlc).                                  *)
(***************************************************************************)
RateIsMarket ==
  \A i \in Id : Ready(requests[i]) =>
    LET q == requests[i].quote IN
      /\ q.rate \in Market[q.observed \div Minute + 1]
      /\ q.observed + Minute <= q.issued
      /\ q.issued - q.observed <= MaxRateAge
=============================================================================
