-------------------------- MODULE StrikeSettlement ---------------------------
(***************************************************************************)
(* From a payment at Strike to feed credit: webhooks and the periodic scan *)
(* put completed receives into a durable inbox (src/ledger/inbox.rs); the  *)
(* recovery worker (src/strike.rs) asks Strike again about each of them    *)
(* and settles it in one transaction (src/ledger/mod.rs).  Notifications   *)
(* are lost, repeated or early, pages shift under the scan, the provider   *)
(* and the database fail, workers crash, and two may share a database.     *)
(***************************************************************************)
EXTENDS Integers, Sequences, SequencesExt, FiniteSets, FiniteSetsExt

CONSTANTS
  Request,      \* receive requests, one BOLT11 invoice each
  Receive,      \* receives Strike may report
  RequestOf,    \* the receive request each belongs to
  Issued,       \* millisatoshis of the invoice of each request
  Reports,      \* a list of what Strike may come to report of each receive
  Worker,       \* recovery workers on the database
  PageSize,     \* 100 receives per page
  MaxOffset,    \* 1,000,000, where a scan begins again whatever it finds
  Capacity,     \* 10,000 pending inbox rows
  Patience,     \* 7 failed attempts before quarantine
  MaxAttempts   \* 30, where the attempts counter stops

ASSUME SettlementAssumption ==
  /\ RequestOf \in [Receive -> Request]
  /\ Issued \in [Request -> Nat \ {0}]
  /\ \A q \in Request : Issued[q] % 1000 = 0
  /\ \A r \in Receive : \A n \in DOMAIN Reports[r] :
       /\ n # 0
       /\ {Reports[r][n].received, Reports[r][n].credited}
            \subseteq [currency : STRING, msat : Int]
  /\ PageSize \in Nat \ {0}
  /\ MaxOffset \in Nat
  /\ Capacity \in Nat \ {0}
  /\ Patience \in Nat
  /\ MaxAttempts \in Nat \ {0}

VARIABLES
  listing,     \* Strike's list of the receives of each request
  report,      \* and which of Reports it gives of each, once it is COMPLETED
  stored,      \* strike_receive_requests
  inbox,       \* strike_inbox by work_key
  offset,      \* strike_recovery_scan.page_offset
  settled,     \* receives with a settled_payments row
  credit,      \* SUM of their ledger entries
  worker       \* what each recovery worker is about to do

provider == <<listing, report>>
ledger == <<settled, credit>>
vars == <<provider, stored, inbox, offset, ledger, worker>>

Key == {"webhook", "recovery"} \X Receive
Row(status, attempts) == [status |-> status, attempts |-> attempts]
Absent == Row("absent", 0)
Waiting == {"pending", "quarantined"}

Pending == {k \in Key : inbox[k].status = "pending"}
Listed == UNION {ToSet(listing[q]) : q \in Request}

NotCompleted == 0
Completed == {r \in Receive : report[r] # NotCompleted}
Told(r) == Reports[r][report[r]]

Idle == [pc |-> "idle"]
Step(pc) == [pc |-> pc]
Work(pc, k, attempts) == [pc |-> pc, key |-> k, attempts |-> attempts]
Page(q, items, next) == [pc |-> "page", request |-> q, items |-> items, next |-> next]

Is(w, pc) == worker[w].pc = pc
Become(w, next) == worker' = [worker EXCEPT ![w] = next]
OnlyWorker == UNCHANGED <<provider, stored, inbox, offset, ledger>>

-----------------------------------------------------------------------------
\* Evidence: decimals are read as millisatoshis, unreadable ones as "bad".
Amount(currency, msat) == [currency |-> currency, msat |-> msat]
Btc(msat) == Amount("BTC", msat)
None == Amount("none", 0)
Evidence(request, target, type, lightning, received, credited, rate) ==
  [request |-> request, target |-> target, type |-> type,
   lightning |-> lightning, received |-> received, credited |-> credited, rate |-> rate]

\* The request as Strike reports it is the one that was issued and recorded.
ValidStoredRequest(e) == e.request = "issued" /\ e.target \in {"BTC", "none"}

ValidReceived(e) ==
  /\ e.received.currency \in {"BTC", "USD"} /\ e.received.msat > 0
  /\ e.rate \in {"none", e.received.currency}   \* converts it to BTC

ValidLightning(e, msat) ==
  /\ e.received = Btc(msat)
  /\ e.credited \in {None, Btc(msat)}
  /\ e.lightning = "issued"

ValidP2P(e) ==
  /\ e.target = "BTC" /\ e.lightning = "none"
  /\ e.credited.currency = "BTC"
  /\ e.credited.msat > 0 /\ e.credited.msat % 1000 = 0
  /\ e.received.currency = "BTC" => e.received = e.credited

Valid(r, e) ==
  /\ ValidStoredRequest(e) /\ ValidReceived(e)
  /\ \/ e.type = "LIGHTNING" /\ ValidLightning(e, Issued[RequestOf[r]])
     \/ e.type = "P2P" /\ ValidP2P(e)

Msat(e) == IF e.type = "LIGHTNING" THEN e.received.msat ELSE e.credited.msat
Sats(r) == Msat(Told(r)) \div 1000
-----------------------------------------------------------------------------
Init ==
  /\ listing = [q \in Request |-> <<>>]
  /\ report = [r \in Receive |-> NotCompleted]
  /\ stored = {}
  /\ inbox = [k \in Key |-> Absent]
  /\ offset = [q \in Request |-> 0]
  /\ settled = {}
  /\ credit = 0
  /\ worker = [w \in Worker |-> Idle]

\* A request is issued and recorded; one the daemon failed to record never is.
RecordReceiveRequest(q) ==
  /\ q \notin stored
  /\ stored' = stored \cup {q}
  /\ UNCHANGED <<provider, inbox, offset, ledger, worker>>

\* Strike lists a new receive anywhere in its order, and completes it later.
Arrive(r) ==
  /\ r \notin Listed
  /\ \E i \in 1..(Len(listing[RequestOf[r]]) + 1) :
       listing' = [listing EXCEPT ![RequestOf[r]] = InsertAt(@, i, r)]
  /\ UNCHANGED <<report, stored, inbox, offset, ledger, worker>>

CompleteReceive(r) ==
  /\ r \in Listed \ Completed
  /\ \E n \in DOMAIN Reports[r] : report' = [report EXCEPT ![r] = n]
  /\ UNCHANGED <<listing, stored, inbox, offset, ledger, worker>>

\* enqueue_strike_work: known keys are kept, a full inbox refuses new ones.
HasRoom(k) == inbox[k] # Absent \/ Cardinality(Pending) < Capacity

Enqueue(k) ==
  /\ HasRoom(k)
  /\ inbox' = IF inbox[k] = Absent THEN [inbox EXCEPT ![k] = Row("pending", 0)] ELSE inbox

\* What Strike signs names a receive of its own; nothing else gets in.
Authentic(r) == r \in Listed

\* A notification: a hint, which may be early, repeated or never come.
Webhook(r) ==
  /\ Authentic(r)
  /\ Enqueue(<<"webhook", r>>)
  /\ UNCHANGED <<provider, stored, offset, ledger, worker>>

-----------------------------------------------------------------------------
\* recovery_step: first one item of the inbox that is due, if any is.
TakeWork(w, k) ==
  /\ Is(w, "idle")
  /\ inbox[k].status \in Waiting
  /\ Become(w, Work("reconcile", k, inbox[k].attempts))
  /\ OnlyWorker

NoWorkDue(w) ==
  /\ Is(w, "idle")
  /\ Become(w, Step("scan"))
  /\ OnlyWorker

\* Strike's own answer decides; no answer, or a contradictory one, is retried.
Recorded(r) == RequestOf[r] \in stored

\* Mutant: only what pays an invoice is compared with what was issued.
MutantInvoiceOnly(r) ==
  /\ Recorded(r)
  /\ r \in Completed /\ (Told(r).type = "LIGHTNING" => Valid(r, Told(r)))

Creditable(r) ==
  /\ Recorded(r)
  /\ r \in Completed /\ Valid(r, Told(r))

Reconcile(w) ==
  /\ Is(w, "reconcile")
  /\ LET k == worker[w].key IN
       \/ Creditable(k[2]) /\ Become(w, Work("record", k, worker[w].attempts))
       \/ Become(w, Work("retry", k, worker[w].attempts))
  /\ OnlyWorker

\* record_payment: once per receive, and once per payment hash.
HasHash(r) == r \in Completed /\ Told(r).type = "LIGHTNING"
SameInvoice(r, s) == HasHash(r) /\ HasHash(s) /\ RequestOf[r] = RequestOf[s]

\* Mutant: no look at the settled payment of the same source and id.
MutantCreditAgain(w) ==
  /\ Is(w, "record")
  /\ LET k == worker[w].key IN
       /\ settled' = settled \cup {k[2]}
       /\ credit' = credit + Sats(k[2])
       /\ Become(w, Work("finish", k, worker[w].attempts))
  /\ UNCHANGED <<provider, stored, inbox, offset>>

\* Mutant: no look at the payment hash.
MutantIgnorePaymentHash(w) ==
  /\ Is(w, "record")
  /\ LET k == worker[w].key IN
       /\ settled' = settled \cup {k[2]}
       /\ credit' = IF k[2] \in settled THEN credit ELSE credit + Sats(k[2])
       /\ Become(w, Work("finish", k, worker[w].attempts))
  /\ UNCHANGED <<provider, stored, inbox, offset>>

RecordPayment(w) ==
  /\ Is(w, "record")
  /\ LET k == worker[w].key
         r == k[2]
         collides == \E s \in settled \ {r} : SameInvoice(r, s)
     IN \/ /\ r \in settled
           /\ Become(w, Work("finish", k, worker[w].attempts))
           /\ UNCHANGED ledger
        \/ /\ r \notin settled /\ ~collides /\ Msat(Told(r)) % 1000 = 0
           /\ settled' = settled \cup {r}
           /\ credit' = credit + Sats(r)
           /\ Become(w, Work("finish", k, worker[w].attempts))
        \/ /\ Become(w, Work("retry", k, worker[w].attempts))   \* bail or SQLite error
           /\ UNCHANGED ledger
  /\ UNCHANGED <<provider, stored, inbox, offset>>

FinishWork(w) ==
  /\ Is(w, "finish")
  /\ inbox' = [inbox EXCEPT ![worker[w].key].status = "done"]
  /\ Become(w, Step("scan"))
  /\ UNCHANGED <<provider, stored, offset, ledger>>

\* Mutant: an item that failed often is given up.
MutantGiveUp(w) ==
  /\ Is(w, "retry")
  /\ LET k == worker[w].key
         status == IF worker[w].attempts >= Patience THEN "done" ELSE "pending"
     IN inbox' = IF inbox[k].status \in Waiting
                 THEN [inbox EXCEPT ![k] = Row(status, Min({@.attempts + 1, MaxAttempts}))]
                 ELSE inbox
  /\ Become(w, Step("scan"))
  /\ UNCHANGED <<provider, stored, offset, ledger>>

\* The attempts that decide are those the worker read; a done row stays done.
RetryWork(w) ==
  /\ Is(w, "retry")
  /\ LET k == worker[w].key
         status == IF worker[w].attempts >= Patience THEN "quarantined" ELSE "pending"
     IN inbox' = IF inbox[k].status \in Waiting
                 THEN [inbox EXCEPT ![k] = Row(status, Min({@.attempts + 1, MaxAttempts}))]
                 ELSE inbox
  /\ Become(w, Step("scan"))
  /\ UNCHANGED <<provider, stored, offset, ledger>>

ReceivePage(q) ==
  SubSeq(listing[q], offset[q] + 1, Min({offset[q] + PageSize, Len(listing[q])}))

\* Mutant: the scan goes on from the last receive it saw.
MutantScanOnward(w) ==
  /\ Is(w, "scan")
  /\ \/ Become(w, Idle)
     \/ \E q \in stored :
          LET items == ReceivePage(q)
              found == SelectSeq(items, LAMBDA r : r \in Completed)
          IN Become(w, Page(q, found, offset[q] + Len(items)))
  /\ OnlyWorker

\* Then one page of one request that is due; a failed request changes nothing.
ScanPage(w) ==
  /\ Is(w, "scan")
  /\ \/ Become(w, Idle)
     \/ \E q \in stored :
          LET items == ReceivePage(q)
              found == SelectSeq(items, LAMBDA r : r \in Completed)
              next == IF Len(items) = PageSize /\ offset[q] < MaxOffset THEN offset[q] + PageSize ELSE 0
          IN Become(w, Page(q, found, next))
  /\ OnlyWorker

EnqueueFound(w) ==
  /\ Is(w, "page") /\ worker[w].items # <<>>
  /\ LET page == worker[w]
         k == <<"recovery", Head(page.items)>>
     IN \/ Enqueue(k) /\ Become(w, Page(page.request, Tail(page.items), page.next))
        \/ ~HasRoom(k) /\ Become(w, Idle) /\ UNCHANGED inbox
  /\ UNCHANGED <<provider, stored, offset, ledger>>

RecordScan(w) ==
  /\ Is(w, "page") /\ worker[w].items = <<>>
  /\ offset' = [offset EXCEPT ![worker[w].request] = worker[w].next]
  /\ Become(w, Idle)
  /\ UNCHANGED <<provider, stored, inbox, ledger>>

\* A crash, or an error of SQLite that ends the step: the next begins anew.
Abandon(w) ==
  /\ ~Is(w, "idle") /\ ~Is(w, "down")
  /\ Become(w, Step("down"))
  /\ OnlyWorker

BeginAnew(w) ==
  /\ Is(w, "down")
  /\ Become(w, Idle)
  /\ OnlyWorker

RecoveryStep(w) ==
  \/ \E k \in Key : TakeWork(w, k)
  \/ NoWorkDue(w)
  \/ Reconcile(w)
  \/ RecordPayment(w)
  \/ FinishWork(w)
  \/ RetryWork(w)
  \/ ScanPage(w)
  \/ EnqueueFound(w)
  \/ RecordScan(w)
  \/ BeginAnew(w)

Next ==
  \/ \E q \in Request : RecordReceiveRequest(q)
  \/ \E r \in Receive : Arrive(r) \/ CompleteReceive(r) \/ Webhook(r)
  \/ \E w \in Worker : RecoveryStep(w) \/ Abandon(w)

Spec == Init /\ [][Next]_vars

(***************************************************************************)
(* Fairness.  The worker's loop never ends.  Items and scans that are due  *)
(* are taken in the order of next_attempt, so each one's turn comes; a     *)
(* provider that is asked for ever answers some time, and a transaction    *)
(* that is tried for ever commits some time.  Webhooks are not relied on.  *)
(***************************************************************************)
Advances(w, r, pc) == worker'[w].pc = pc /\ worker[w].key[2] = r

Fairness ==
  \A w \in Worker :
    /\ WF_vars(RecoveryStep(w))
    /\ \A k \in Key : SF_vars(TakeWork(w, k))
    /\ \A r \in Receive :
         /\ SF_vars(Is(w, "reconcile") /\ Reconcile(w) /\ Advances(w, r, "record"))
         /\ SF_vars(Is(w, "record") /\ RecordPayment(w) /\ Advances(w, r, "finish"))
    /\ \A q \in Request :
         SF_vars(ScanPage(w) /\ worker'[w].pc = "page" /\ worker'[w].request = q)

FairSpec == Spec /\ Fairness
-----------------------------------------------------------------------------
(***************************************************************************)
(* Each receive is credited exactly once, although its webhook and its     *)
(* scan are two inbox items, workers overlap, and a crash between the      *)
(* credit and the finished item repeats the whole work; and an invoice is  *)
(* credited once, even if Strike reports two receives for its payment hash.*)
(***************************************************************************)
CreditedOnce ==
  /\ credit = MapThenSumSet(LAMBDA r : Sats(r), settled)
  /\ \A r, s \in settled : SameInvoice(r, s) => r = s

\* Nothing in the evidence speaks against its amount or its request.
Uncontradicted(r, e) ==
  /\ \A a \in {e.received, e.credited} :
       a.currency = "BTC" => a = Btc(1000 * (Msat(e) \div 1000))
  /\ e.received.currency = "BTC" \/ e.credited.currency = "BTC"
  /\ e.type = "LIGHTNING" => Msat(e) = Issued[RequestOf[r]]
  /\ "altered" \notin {e.request, e.lightning} /\ e.target \in {"BTC", "none"}

(***************************************************************************)
(* A credited receive was completed at Strike, for a request this daemon   *)
(* recorded, and nothing Strike reports of it contradicts the credit: no   *)
(* other amount, no other invoice, no fraction of a satoshi.               *)
(***************************************************************************)
OnlyAuthoritativeCredit ==
  \A r \in settled :
    RequestOf[r] \in stored /\ r \in Completed /\ Uncontradicted(r, Told(r))

(***************************************************************************)
(* No item is closed before its payment is credited, with a crash at any   *)
(* point between the two transactions.                                     *)
(***************************************************************************)
DoneMeansSettled ==
  \A k \in Key : inbox[k].status = "done" => k[2] \in settled

(***************************************************************************)
(* A completed payment of an issued request is credited some time, without *)
(* any webhook, once workers are no longer interrupted; of two receives    *)
(* for one invoice, one is.                                                *)
(***************************************************************************)
PaymentsAreCredited ==
  <>[][\A w \in Worker : ~Abandon(w)]_vars =>
    \A r \in Receive :
      Creditable(r) ~> (\E s \in settled : s = r \/ SameInvoice(r, s))
=============================================================================
