# Lightning Goats: a verification development

Lightning Goats turns payments into goat feed. The Rust daemon `lightning-goats` receives
Lightning and Monero payments, keeps a ledger of feed credit in SQLite, and, when the credit
reaches the price of a feed, asks a second program, the gateway at the goats' house, to have
openHAB switch the feeder on for a second. Every payment and feed becomes an event, which a web
page shows and a Nostr account posts.

The modules in this directory are TLA+ models of that program, translated from its source. Their
runs are checked with TLC on small instances. Every safety property and action property that the
runs check is also a theorem, proved with TLAPS for every value of the constants, and so are the
refinements; liveness is model-checked. `PROJECT.json` maps each definition to the lines it models.

Reading order: `FeedLedger`, `FeederGateway`, `Feeder`, then any of the others. `Feeder` extends
`FeederGateway`, `LightningAddress`
extends `InvoiceAdmission` and `Invoice`, `XmrPayment` extends `XmrQuote` (which extends
`RateOracle`) and `XmrCredit`, `Outbox` extends `Presentation` and `Nostr`, `Informational` extends
`Weather`.

## Inventory

Each part with its state, what changes it, what makes it hard, and what makes it correct.

### The path to the feeder

| Part | Source | State | Operations |
| --- | --- | --- | --- |
| feed ledger | `src/ledger/feed.rs`, `ledger/events.rs` | `ledger_entries`, `feed_attempts`, `feeder_cooldown`, `event_log` | begin, mark unknown, confirm, reconcile as fed or not fed, not dispatched, interrupted at start |
| accounting model | `src/domain/feed.rs` | an in-memory ledger with at most one attempt | the same, as pure functions: the program's own specification of its ledger |
| feed worker | `src/feeder/mod.rs`, `gateway/client.rs` | none beside the ledger | one step: poll an unresolved attempt, or check credit and safety, record an intent, POST it, apply the outcome |
| gateway | `src/gateway/server.rs`, `gateway/store.rs` | `feeder_requests`, `feeder_refusals` | POST and GET of a feed request, each a chain of awaits |
| feeder owner | `deploy/openhab/feeder-owner-v2.js` | one String item persisted by JDBC, a token and a time in a shared cache, the plug | admit, accept, switch on, timer, complete |

The worker calls the ledger in single transactions and the gateway over HTTP; the gateway calls
openHAB over HTTP; the owner is a rule in openHAB triggered by an item command. Nothing on the way
is atomic with anything else. A crash, a lost request or a timeout may fall between any two steps,
and an answer may be late, or of an older request.

Correct: each attempt is pulsed at most once; a confirmed attempt was fed, and one released was
not and will not be; no attempt is debited twice or is left unpayable; rate limits hold; what is
known to the gateway reaches the ledger.

### Money in

| Part | Source | State | Operations |
| --- | --- | --- | --- |
| invoice admission | `src/ledger/admission.rs`, `create_and_record_receive_request` in `src/strike.rs` | `invoice_admissions` | reserve, create at Strike under a deadline, record, release |
| Lightning Address and invoices | `src/lnurl.rs`, `src/domain/invoice.rs`, `src/bolt11.rs`, `ledger/strike.rs` | `strike_receive_requests` | discovery, callback: check Strike's answer and the signed invoice, record, hand out |
| Strike settlement | `src/strike.rs`, `ledger/inbox.rs`, `ledger/strike.rs`, `ledger/mod.rs` | `strike_inbox`, `strike_recovery_scan`, `settled_payments`, `ledger_entries` | webhook, work step, page scan, retry, settlement |
| rate oracle | `src/quotes/oracle.rs` | none | make a rate of the exchange's list of candles |
| Monero quotes | `src/quotes.rs`, `ledger/quotes.rs` | `xmr_quote_requests`, clock, watermarks, bindings | create, lookup, bind |
| Monero credit | `src/ledger/credit.rs`, `domain/credit.rs` | valuations, receipts, grants, allocations | register, record a receipt, hold |

Webhooks are lost, repeated or early; pages shift under the scan; two daemons may overlap on one
database; clocks step; commits succeed whose reply is lost. Correct: each payment is credited
once, on Strike's own word, and some time; the limits hold; a quote once given stays and
is honoured; an invoice is what the wallet asked for; Monero dust is neither lost nor paid twice.

### News out

| Part | Source | State | Operations |
| --- | --- | --- | --- |
| message outbox | `src/messaging.rs`, `ledger/outbox.rs` | cursor, `message_outbox` | take an event, sign, store, publish, mark |
| presentation | `src/presentation.rs`, `src/templates/phase1.toml` | none | render an event for Nostr and for the overlay |
| Nostr signing and relays | `src/nostr.rs` | none | run `nak` to sign, verify and post |
| weather | `deploy/weather/`, `src/gateway/weather.rs`, `gateway/store.rs` | the exporter's row, `weather_high_water` | record a frame, read, validate, move the mark, answer |
| informational worker | `src/informational.rs` | none beside the event log | sleep, ask for safety, draw, ask for weather, append an event |
| overlay stream | `src/overlay.rs`, `ledger/overlay.rs`, `ledger/events.rs` | stream identity, the queue of each socket | snapshot, resume, poll, send; reset after a restore |

Correct: one message per event, in order, none lost, each genuine and saying what its event says; a
page's view is a prefix of the history it names, and it is told of every gap; the weather shown is
never older than what was shown before, and a wrong clock locks nothing out.

### Not modelled

* The syntax of what is parsed (openHAB items, Bolt11, decimals of prices and units, JSON), the
  wording of messages, and the digests, keys and encodings of Nostr: pure functions of their input.
  Where their success matters it is chosen freely; a signed invoice is a record of what it commits to.
* Configuration and secrets: read once at start. The limits that `config.rs` enforces are the named
  assumptions of the modules (`GatewayAssumption`, `AdmissionAssumption`, `AddressAssumption`,
  `QuoteAssumption`, `InformationalAssumption` and others).
* HTTP routing, status pages and their counters: they keep no state that anything else reads.
* The HTTP requests to openHAB, the temperature item, and the v1 and canary protocols of the owner:
  the gateway's adapter is in `FeederOwner` and `FeederGateway` by what it concludes.
* The website's drawing, and the deployment scripts: outside of the program's own states. A restore
  of the database is an action of `Overlay`, the weather exporter is in `Weather`.

## Plan

The order puts the path from money to feed first, then money in, then news out.

1. `FeedRuntime`, `FeedLedger`, their refinement, and the proofs of the ledger. Done.
2. `FeederGateway`, `Feeder` (ledger, worker and gateway composed) against the abstract
   `FeedPromise`. Done, with proofs of the gateway, of the composition and of the refinement.
3. `FeederOwner`. Done, with proofs.
4. `StrikeSettlement`, `InvoiceAdmission`, `XmrQuote`, `XmrCredit`. Done, with proofs.
5. `Outbox`, `Overlay`. Done, with proofs.
6. The parts around them, each composed with what it feeds: `Invoice` and `LightningAddress` with the
   admission, `RateOracle` and `XmrPayment` with quotes and credit, `Presentation` and `Nostr` with the
   outbox, `Weather` with `Informational`. Done, with proofs.
7. Left to prove, in this order: that the owner does what `FeederGateway` assumes of it, as a
   refinement of one by the other; the direction of the wind (`NearestDirection`) and the difference
   to the next feeding, for every input; that the signature and the credit of a settlement follow
   `FeedLedger`'s receipt.
8. Left to model: `retry_delay` against a reference definition over bounded inputs.

## Modules

A mutant, an operator named `Mutant...`, stands before the operator it changes. Each is a plausible
bug; no specification uses one. It shows that the property named in `PROJECT.json` would notice.

### FeedLedger, FeedRuntime, FeedLedgerRuntime

`FeedLedger` has one action per transaction of `ledger/feed.rs`, and the receipt of a payment.

| Variable | In the database |
| --- | --- |
| `status`, `threshold` | `feed_attempts.status`, `.threshold_sats`, by attempt |
| `credit`, `debited` | the sum of `ledger_entries`, and the attempts with a `FEED_DEBIT` row |
| `resumeAfter` | `feeder_cooldown.resume_after` |
| `events` | `event_log`, with the credit each row published |
| `clock` | `unixepoch()`, which may be set back |

`resolve_as_fed` is one operator with the status it expects as a parameter, as in the code, and
`ConfirmFeedAttempt` and `ReconcileUnknownAsFed` are its two callers. Thresholds are chosen anew at
each begin, since the configuration may change between restarts. `FeedRuntime` is `domain/feed.rs`: credit, and at most one attempt that is
either committed or unknown. `FeedLedgerRuntime` maps the ledger to it (`ActiveAttempt` is the
unresolved row). The one commit of `resolve_feed_not_dispatched` is `ReleaseIntent`, which is the
abstract model's `mark_feed_unknown` followed by `reconcile_unknown_as_not_fed`; cooldown, clock and
event log are not visible to the abstract model.

### FeederGateway

A handler is a small program that stops at every await of `submit_feed_request` or
`lookup_feed_request`: read the stored status, read the safety switches, run the admission
transaction, send the command, wait, read the receipt, mark it. Between any two of them other
handlers, a timeout (`feed_request`'s budget), a closed connection or a restart (`Close`) may come.
The store survives. The owner is kept to what the gateway may rely on, and is not assumed to
recognise a repeated UUID: that the gateway never repeats a command is what is checked.

### Feeder and FeedPromise

The composition: `Feeder` extends `FeederGateway` and has the ledger as an instance over the same
variables; its own specification is `FeederSpec`. `worker` is the step each daemon's loop has reached. `Start` includes the recovery in `main` that turns interrupted
intents to unknown before anything else runs. `ReconcileFeed` is `lightning-goatsctl
reconcile-feed`.

Two simplifications. The hosts share one clock here; `FeedLedger` and `FeederGateway` each allow any
reading of their own. And the operator looks at what is on its way to the feeder before saying "not
fed": `OnItsWay` is a requirement on the person, nothing in the code makes them do so, and the hazard
list names it. `FeedPromise` is what the payers are told: money stays, and no more sats' worth of
feeds take place than were received, each attempt at most once.

### FeederOwner

The openHAB rule, its receipts in an item and in the rows JDBC keeps of it (`item`, `history`; `jdbc`
is the last row), the result item, its token (`guard`), the cached last start, and its timer. A write
of the receipts may fail with neither, the item or both changed. A restart restores the item from JDBC or leaves it NULL; a script reload renews the cache
but may leave a timer. The clock does not step back here.

`FeederResult` is `feeder_result_v2` of `src/openhab.rs`: what the gateway concludes from the items
and, for a completion, from the rows stored within 10 seconds (`Window`) of it. It is read in one
instant here; the code reads item and rows one after the other, which the receipts allow because
none is ever taken back, as `CompletionIsTrue` shows. The pages of rows, of which the code reads at
most eight, and the v1 and canary protocols are left out.

### StrikeSettlement

An inbox row per key, `webhook` or `recovery` with a receive; one scan offset per request; the
settled receives; and for each worker the step of `recovery_step` it is at. Strike is external: it
lists receives in any order and completes them at any time, with any of the evidence in `Reports`.
Evidence is a record of what the validations of `reconcile_completed_receive` compare (`Valid` and
its parts); decimals are millisatoshis, or "bad" ones the code cannot read, and identifiers and
hashes are the issued ones or others. LIGHTNING receives of a request share its payment hash. A
webhook names one receive.

The attempts that decide whether an item is quarantined are those the worker read (`retry_strike_work`
is given them). With two workers a stale value can put a quarantined row back to pending beyond the
bound of the inbox, which costs room and nothing else. The safety properties are checked with two workers and
two receives, one of which may contradict itself. That no record of evidence which differs in one field
from a sound invoice payment, a sound payment in dollars or a sound one in bitcoin is valid unless it
agrees with itself is the assumption `ValidIsUncontradicted` of `MCStrikeSettlement`, which TLC
evaluates; `CreditIsAuthoritative` proves it of any evidence. A scan begins again at `MaxOffset`, whatever
it finds; beyond it a payment needs its webhook, and `PaymentsAreCredited` is checked below it.

### InvoiceAdmission

One reservation row per call; `call` is where the call is; `issued` and `admitted` are times. The
calls are cut off by their deadline, dropped with their client or lost in a crash. The clock is
monotone: the code uses the database's `unixepoch()` for rows and tokio's timer for the deadline,
and the model gives them one time. Two daemons are possible during an overlapping start, since only
the listen address keeps them apart.

### Invoice and LightningAddress

`Invoice` is what the daemon accepts of Strike: the signed invoice (signature, network, amount,
payment hash, description hash, expiry) and the fields around it, which may be missing but must not
disagree. Amounts in bitcoin are a whole part and digits, so that the padding of the conversion is
modelled. `LightningAddress` extends `InvoiceAdmission`: `Callback` is `ReserveInvoice` for a user and an
amount, `Issue` the answer that was accepted and recorded, `HandOut` the release of the reservation and
the reply. Strike may answer with an identifier or a payment hash that is recorded already, another
amount, another description, an expired or a forged invoice (`Responses`). The metadata's hash stands
for its user. `handed` is a history variable.

### RateOracle and XmrQuote

`RateOracle` makes a rate of a list of candles as `parse_kraken_ohlc` does: the last candle is not
finished, empty ones are passed over, and an answer with one candle that does not agree with itself
is refused as a whole. The exchange is external; its answers (`Charts`) are those of any of its
minutes, with prices it may revise, or damaged in one place.

A call is reserved, fetches without a transaction, and completes or fails; `now` is a wall clock
that may be set to any value, `lastEpoch` the quote clock that refuses to go back, `watermark` the
newest rate that a quote was made with. The commit of a quote may lose its reply; the caller then
fails its request, which must not hurt the quote. One rate source is modelled, and of a request's
inputs only the client is kept: it stands for all of them when a repeated request is compared with
the stored one. `given` is a history variable: the quotes callers have seen.

### XmrCredit and XmrPayment

An intent has immutable terms, receipts by key, and an allocation: the eligible units, the sats
credited for them and the first hold reason. The wallet's reports are external and may say anything
about any receipt in any order. `AllocationMismatch` is not modelled: `EvidenceDecidesCredit` and
`CreditValuedOnce` say that the branch is unreachable. The width of the intermediate product is left
out; the code uses `u128` for it.

`XmrPayment` composes the two: the step of the quote service that binds a quote also registers the
intent, with the terms of that very quote (`TermsOf`), in the one transaction of `bind_xmr_quote`.
`QuotePromise` is about the whole path. The run restricts the composition by `PaidAlone`: receipts
and other movements of the ledger are looked at only when there is a single quote and no call under
way, for the quote service reads nothing of the credit.

### Presentation, Nostr and Outbox

`Presentation` is a function from an event to the two texts, given by the template chosen and the
values filled in. A template is the set of its placeholders; the digest that chooses one is a
constant. `MCOutbox` checks as assumptions, over bounded inputs, that every payload the daemon writes
can be rendered and that the difference to the next feeding adds up. `Nostr` is a run of `nak`: the
one event it printed or nothing, and which events are accepted. An event's identifier is a function of
author, content and second.

`Outbox` has processor and publisher of each daemon, the cursor, the outbox rows and what the relays
have in the order they first took it. The key, or the mode without Nostr, is chosen at each start of a
daemon. A daemon without Nostr only moves the cursor; `muted` remembers what it passed. A stored row
that another daemon has marked in the meantime ends the daemon, as `main` does when a task returns.
Two events that say the same in the same second would have one identifier: the second is refused and
signed again. A row signed with a key that no daemon is configured with any more cannot be verified
and holds back all that follow it (`HeldByOldKey`): the one way in which the outbox stops for ever.

### Weather and Informational

`Weather` follows a reading from the radio through the exporter's row and the gateway's checks to its
answer; the persisted mark moves only after every check. The transaction of a frame may fail: the
radio's hook swallows the error, the frame is lost, and the reading before it stays exported until it is
stale, even if the lost frame should have withdrawn it. So the exporter's promise is about what was
recorded (`ExportGoesForward`; `recorded` and `exported` are history variables). Requests overlap, since one that the daemon
gave up goes on in the gateway. What the radio sends may have any time around the clock and any
fault (`Contents`). `Informational` adds the worker, whose cycle is the clock divided by the interval
and whose draw is a function of the cycle (`InterfaceDraw`, `WeatherDraw`). The daemon checks an answer
again when it arrives. Exporter, gateway and daemon share one clock that does not step back, and the
timer of the worker's sleep runs with it: in the code these are the wall clocks of the hosts and
tokio's monotonic timer. A wall clock that is set back, or that a sleep outruns, may give a cycle a second
event. That the direction of the wind is the nearest of the sixteen is an assumption of
`MCInformational`, which TLC evaluates for every tenth of a degree.

### Overlay

The log, the stream's identity, for each client the server's side of its socket (`conn`) and what
it was told (`client`). `SnapshotNow` carries the whole history as its state, so that the model can
tell whether an event was missed or repeated. Heartbeats, deadlines and the limit on input are
ways to lose the socket; a stale weather event that the code skips is still an event that the cursor
passes. A restore takes place while the daemon is down and includes `reset-overlay-stream`, as the
restore procedure does.

## Runs

`MC<Module>.tla` gives the constants of a module as model values and the symmetry where values are
interchangeable; a `.cfg` is one run. Deadlock is checked, except where the bounds stop the system:
the runs that set `CHECK_DEADLOCK FALSE` have finitely many attempts, requests, events, restarts or
seconds, and end when these are used up.

| Run | Bounds | Shows |
| --- | --- | --- |
| feed_ledger | 2 attempts, prices 2 and 3, receipts 1 and 3, at most 5 sats, clock to 3 | The ledger's transactions in any order by any callers: `UnresolvedIsPayable` (the unique index never rejects, and an attempt can always be paid, though the price changed), `DebitedExactlyConfirmed`, `CooldownCoversRefusals` (the clock stepped back), `PublishedCreditIsCurrent`, and every step is one of `FeedRuntime` (`ImplementsFeedRuntime`) |
| feeder_gateway | 2 handlers, 3 UUIDs, interval 1, 2 feeds per window of 2, time to 4 | Overlapping, repeated, abandoned, timed-out requests: `AtMostOneDispatch` (with refusals as tombstones), `OneFeedAtATime`, `RepliesAreTrue`, `RateLimitsHold` |
| feeder | 2 attempts, 2 handlers, 1 daemon with crashes, time to 1 | `LedgerTellsTheTruth` and `KeepsPromise`, the refinement of `FeedPromise` |
| feeder_liveness | 1 attempt, 2 handlers, 1 daemon | `KnownOutcomeIsRecorded` |
| feeder_owner | 3 requests, 2 executions, 2 restarts or reloads, 2 receipts, cooldown 2, window 1, time to 4 | `PulsesAreAccountedFor`, `CompletionIsTrue`, `StartsAreSpaced` |
| strike_settlement | 2 workers, 2 receives, of one invoice or with other evidence, pages and inbox of 1, quarantine after 1 retry | `CreditedOnce` (per receive and per invoice), `OnlyAuthoritativeCredit`, `DoneMeansSettled` |
| strike_settlement_liveness | 1 worker, 2 receives that may pay one invoice, pages and inbox of 1 | `PaymentsAreCredited`, also of a receive inserted behind the offset |
| lightning_address | 2 daemons, 4 callbacks for 2 addresses, 3 receive requests; limits 2, 3, 2; deadline 1, lease, window and day 2, time to 2 | `InvoiceIsAsAsked`, and the admission's `ActiveBound`, `RateBound`, `DayBound` |
| xmr_payment | 2 calls, 2 requests, 2 scopes, a market of 4 minutes, clock over 0..3; then 2 receipts of 1 or 3 units seen at 0..2 for one quote (`PaidAlone`) | `QuotePromise`, `EvidenceDecidesCredit`, `HoldStopsCredit`, `QuotesAreKept`, `RateIsMarket`, `StaleIsRefused` |
| outbox | 2 daemons, 2 keys and a mode without Nostr, 2 public events that say the same, 2 seconds | `OneMessagePerEvent`, `PostedInOrder`, `NothingLost`, `EveryEventIsPosted` |
| overlay | 1 page, events of 3 kinds of which one is unfit, 4 sequence numbers, windows of 2, 1 restore | `ViewIsHistory`, `NoSilentSkip`, `CatchesUp` |
| informational | 2 requests in the gateway, readings that are complete, faulty or with a control character, skew 1, stale after 1 and 2, cycles of 2, time to 6 | `MarkNeverAhead`, `ExportGoesForward`, `OncePerCycle`, `WeatherGoesForward` |

Why the bounds are enough to be interesting. Two attempts with two prices are the fewest in which
one attempt can spend what another one needs, and a receipt of 1 leaves credit between the prices.
Three UUIDs with a cap of two per window bring the third to the cap, and a time of 4 passes the
window once. The feeder's second attempt is the one whose POST may overtake the first one's answer.
Two handlers are what one poll and one abandoned POST need. A page of one with two receives shifts
under the offset; an inbox of one is full with the first item. The safety run keeps to one order of
the two in Strike's list (`MCOrder`; the other is the same with their names exchanged, but for what
each may report), the liveness run has both. Two receipts with amounts 1 and 3 leave
dust in either order, and together exceed the limit. In the address run the times keep an order
that the code's have, Deadline < Lease <= Window <= Day; four callbacks exceed each limit, and a third
receive request can meet the payment hash of the first. The market has a minute whose price is
revised, one without trade, and a last one that is never finished. Two keys and one old daemon make a
row that nobody can verify. Cycles of two seconds let a restart end the sleep in the
middle of one; the first of three shows the interface, the others weather, and a reading goes from
ahead of the clock to stale through every check. Four events exceed both a batch and a replay window.

The feeder runs have one daemon. The specification allows several; their interleaved ledger
transactions are among those of feed_ledger, which has no callers at all and lets any transaction
follow any other, and their overlapping requests are among those of feeder_gateway.

Every property has a mutant of a definition it depends on, under which its run fails.

## Fairness

Liveness is stated only for what some loop retries for ever.

* Feeder. The worker's loop never ends (weak fairness of its steps). The gateway answers or drops
  each request within its budget (weak fairness of timeout and close). A poll repeated for ever is
  answered some time, a receipt that is there is read some time, and a transaction that is tried
  again and again commits some time: strong fairness, since losses, timeouts and errors may preempt
  each of these any number of times. `KnownOutcomeIsRecorded` presumes that daemons stop crashing
  some time, and speaks of what the gateway knows: a feed whose receipt never comes stays unknown
  until an operator decides it, which is not promised.
* StrikeSettlement. The worker's loop never ends. Items and scans are taken in the order of
  `next_attempt`, which every retry moves on, so each one's turn comes: strong fairness of taking
  each key and each request. A provider asked for ever answers some time, a transaction tried for
  ever commits some time. No webhook is relied on.
* Outbox. Both tasks loop, and systemd starts the daemon again. A signer or relay asked for ever
  answers some time, and an event that is signed again, 5 seconds after the last time, is signed in a
  later second, so its identifier is new some time. `EveryEventIsPosted` presumes that daemons stop
  being halted and that some daemon is in a mode with Nostr from then on; events that a quiet daemon
  passed over are excepted, deliberately in the code too, and so is what `HeldByOldKey` holds back.
* Overlay. The server's loop goes on, pages reconnect, systemd starts the daemon, and a socket tried
  for ever takes a message some time. `CatchesUp` presumes that sockets stop breaking.

## Proofs

A module with proofs is named for the largest module it is about. All of them hold for every value of
the constants that meets the named assumptions. An inductive invariant was checked by TLC on the run
of its module before it was proved.

| Module | Proves about |
| --- | --- |
| `FeedLedger_proofs` | `FeedLedger`, `FeedLedgerRuntime` |
| `Feeder_proofs` | `FeederGateway`, `Feeder`, `FeedPromise` |
| `FeederOwner_proofs` | `FeederOwner` |
| `StrikeSettlement_proofs` | `StrikeSettlement` |
| `LightningAddress_proofs` | `InvoiceAdmission`, `LightningAddress`, `Invoice` |
| `XmrPayment_proofs` | `RateOracle`, `XmrQuote`, `XmrCredit`, `XmrPayment` |
| `Messages_proofs` | `Outbox` with `Presentation` and `Nostr`, `Overlay`, `Weather`, `Informational` |
| `SumLemmas` | sums over finite sets, least and greatest numbers, quotients rounded down |

**FeedLedger.** `LedgerInv` is `TypeOK` with `Accounting`: at most one attempt
is unresolved, the credit covers its threshold and it has no debit, and the debited attempts are the
confirmed ones. The parts need each other: only a confirmation lowers the credit, and that it leaves
no unresolved attempt uncovered holds because the confirmed attempt was the one unresolved. From it
follow `LedgerTypeCorrect`, `AttemptStaysPayable` and `ConfirmedOnceDebitedOnce`. `CooldownCovers`
and `PublishedCredit` are each inductive next to it: the ledger takes the later of two refusals, and
a transaction that moves the credit publishes it.
`ResolutionsAreFinal` is an action property: a resolved attempt keeps its status and price, an
attempt never disappears.

**FeedRuntime.** `LedgerImplementsFeedRuntime`: every transaction is a
step of `domain/feed.rs` or a stutter. It uses the ledger's invariant, for the single unresolved
attempt is what `ActiveAttempt` chooses, and `AttemptsPriced`: an unresolved attempt is priced at a
threshold that was configured.

**FeederGateway.** `GatewayInv` says of every UUID who may act on it: one about
to be commanded is pending, at one handler, and not sent (`Senders`); one without a row was never sent,
and only such a one has a tombstone (`Dispatched`); whoever acknowledges has the receipt, which comes
after the pulse (`Receipts`); one row is pending (`OnePending`); replies are true (`Truth`). Most steps
only move a handler on, and one lemma, `HandlerMovesOn`, covers them. The parts need each other: an
acknowledgement frees the way for the next feed, and can do so only because the acknowledged UUID is no
longer at any handler that might send it. Hence `DispatchedOnce`, `FeedsOneAtATime` and
`ClientsAreToldTheTruth`, without any assumption on the clock.
`FeedsKeepTheLimits` adds `RateInv`: a feed takes place between its admission and its acknowledgement,
and its row tells the time of the one or of the other (`FedInBetween`); what an admission counted is
still what is stored while the feed is pending, for nobody else is admitted (`AdmittedInTime`). So an
hour that begins with any feed has no more of them than the hour that some admission looked at.

**Feeder.** `FeederInv` is the ledger's invariant and the gateway's, with what lies between: a worker
that waits has a handler of its own about its attempt (`Attended`), an answer it holds is still true
(`Working`), and an attempt without a row, or recorded as not fed, was not fed and nothing that could
still feed it is on its way, unless it is refused for good (`Fate`). Hence `LedgerIsTrue`.
`FeederUsesGateway` and `FeederUsesLedger` show that the composition does nothing to either part that
the part's own specification does not allow, so that the theorems above hold of it.
`FeederKeepsPromise` is the refinement of `FeedPromise`, step by step: a receipt is `Receive`, a pulse
is `Feed`, everything else a stutter. A debit must leave the sum of credit and debits as it was, and a
pulse must be paid for: by the debits so far and the credit that covers the attempt's threshold.

**FeederOwner.** `OwnerInv` relates item, JDBC's rows and what the execution with the token knows. The
item is one write ahead of JDBC at most (`ItemFollows`), one request is accepted and not complete
(`OneUncertain`), a completion in any row is in all later ones (`CompletionsStay`), a pulsed request
has a receipt (`Pulsed`), and the owner of the token acts on receipts that JDBC has (`Owning`); a timer
that outlived a reload has no token and changes nothing but the plug. Hence `PulsesAccounted` and
`PulsesSpaced`. `CompletionTrue` takes the rows around a completion: any of them that has the request
complete says the same, and any before has it accepted.

**StrikeSettlement.** `SettlementInv`: what is settled has sound evidence and
no two of it share an invoice; a worker that is to record has seen sound evidence, one that is to
finish has its payment settled (`WorkersHold`); a done item is settled. It is inductive because what
Strike said of a completed receive, and that a request was issued, never changes (`EvidenceStays`):
the evidence a worker saw before a call is still true when it commits. Hence `DoneItemsAreSettled`,
`CreditIsAuthoritative` and `InvoiceCreditedOnce`, and, as an action property,
`CreditMovesWithReceives`: the ledger moves only with a receive that was not settled, by its amount.
`EachCreditedOnce` is the sum over all settled receives, by the lemmas of `SumLemmas`.

**InvoiceAdmission and LightningAddress.** `AdmissionInv` adds to the types that a running
call has its open row, made when the call was admitted and younger than the deadline
(`CallsHaveRows`), and that the rows of the current window are all still there (`RecentRowsStay`).
The running calls are then among the active rows since Deadline < Lease, and the reservations of a
window among the recent rows since Lease <= Window. Hence `RunningRequestsBounded` and
`ReservationsRateBounded`, by lemmas on cardinalities of finite sets. `RequestsOfDayBounded` rests on
`DayInv`, which counts the calls under way with the requests of the day, as the admission does.
`AddressesAreAdmitted` shows that callbacks are calls of the admission, so the bounds hold of the
invoices wallets ask for. `InvoicesAreAsAsked` rests on `AddressInv`: what a call will answer with is
as it was asked, and is a row that nothing replaces.

**Monero.** `QuoteInv` says that a call has its row, and that the quote clock and
the watermark bound the times and rates of every ready quote; a row becomes ready once, from
reserved, and nothing changes a ready row. Hence `GivenQuotesStay` and `StaleEvidenceRefused`,
without any assumption on the wall clock. `RatesAreTheMarkets`: of any chart, damaged in one candle or
not, the candle that is used is the market's, and `QuotesEvident` carries that from the fetch to the row.
For the credit, `ValuedOnce`: what the ledger holds for an intent is the value of
all its eligible units, rounded down once, within the limit (`CreditValuedOnce`); `HoldsAreFinal` is an
action property. `CreditIsDecided` adds `Books`: the granted receipts are good, all good ones are
granted unless the intent is held, and the eligible units are their sum.
`PaymentsQuote` and `PaymentsCredit` show that the composition is each of its parts; with
`BoundUnderTerms`, that a registered intent has the terms of its quote, they give
`QuotesAreHonoured`: the amount rounded up, paid in parts and rounded down once, is worth the target.

**Outbox.** `OutboxInv` says what each task may still believe of a database that other daemons have moved
since it read: a processor is at most one event ahead of the cursor and holds a genuine signature of
its event (`Processing`); before a message that a publisher holds, everything is published
(`Publishing`, `Clear`), and the relays have no message before all older ones (`Relayed`). Hence
`OneMessage`, `InOrder` and `NoneLost`.

**Overlay.** `OverlayInv` is about queues: every message follows the one before it and the first one what
the page has, or is a snapshot that says it does not (`Queued`); the server's idea of the last event is
that of the page once the queue is empty (`Socket`). A restore makes a new stream, which no page or
socket has. Hence `PagesSeeHistory` and, as an action property, `PagesSkipOpenly`.

**Weather and Informational.** `InformationalInv` orders four times: the weather shown, the answer that the
worker waits for, the mark, and the clock with its tolerance; an answer is of a time the mark had
reached, and the worker asks one thing at a time. Of cycles it says that one decided upon has begun and
is later than the last one shown, and that a sleep ends in a later one, by laws of the quotient. Hence
`MarksAreNeverAhead`, and the action properties `CyclesAreShownOnce` and `ShownWeatherGoesForward`.
Of the exporter it says that an exported reading is the last one recorded and of the time of the high
water, which no withdrawal lowers and nothing exported is ahead of: `ExportedWeatherGoesForward`.

**SumLemmas.** Sums in the models are `MapThenSumSet`, whose recursion takes elements in an order of its
own. Its laws (`Total...`) are proved without induction over an operator, which is out of the prover's
reach: a set of naturals has a least element, so of the finite sets with a property one is minimal
(`SmallestSet`), and a minimal counterexample leads to a contradiction.

### Only model-checked

Liveness under fairness, which TLAPS does not prove: `KnownOutcomeIsRecorded`, `PaymentsAreCredited`,
`EveryEventIsPosted` and `CatchesUp`. The assumptions that `MCOutbox`, `MCInformational`,
`MCLightningAddress` and `MCStrikeSettlement` state of pure functions, which TLC evaluates over bounded inputs.

## Assumptions to keep in mind

* SQLite transactions are atomic and durable; a statement that fails changes nothing.
* The receipt "complete" in openHAB is posted after the pulse (`FeederGateway` assumes it of its
  owner, and `CompletionIsTrue` checks it of the rule).
* The clock of the owner, of the admission store, and of the weather and the informational worker does
  not step back (for the last, the sleep timer and the wall clock are one); those of the feed ledger and
  the quotes may.
* The operator's "not fed" is said only when nothing is on its way; nothing in the code enforces it.
* Strike does not change what it said of a completed receive.
* Each bound of a model (`MaxSats`, `MaxClock`, `MaxTime`, `MaxSeq`, `MaxStream`, `MaxRestarts`,
  `MaxUnits`, `MaxOther`, `Asks`, `RequestId`) is a constant of its module, commented where it is
  declared; `PaidAlone` bounds the run xmr_payment. `MaxUnits` is the code's own
  `MAX_ACCOUNTING_UNITS`; the others are no claim about the code.
