------------------------ MODULE StrikeSettlement_proofs ------------------------
(***************************************************************************)
(* For any number of workers, receives and requests, any page size, inbox  *)
(* and patience, and anything Strike may report: credit is given once per  *)
(* invoice and receive, on Strike's own word, and before an item is done.  *)
(***************************************************************************)
EXTENDS StrikeSettlement, SumLemmas, TLAPS

Typed ==
  /\ report = [r \in Receive |-> report[r]]
  /\ \A r \in Receive : report[r] # NotCompleted => report[r] \in DOMAIN Reports[r]
  /\ inbox = [k \in Key |-> inbox[k]]
  /\ worker = [w \in Worker |-> worker[w]]
  /\ settled \subseteq Receive

\* The evidence of a credited receive stays sound, for it never changes.
Sound(r) == Creditable(r) /\ Msat(Told(r)) % 1000 = 0
SettledSound == \A r \in settled : Sound(r)

OnePerInvoice == \A r, s \in settled : SameInvoice(r, s) => r = s

\* A worker works on a key; before it records it has seen sound evidence, and
\* before it finishes the payment is credited.
Holds(work) ==
  work.pc \in {"reconcile", "record", "finish", "retry"} =>
    /\ work.key \in Key
    /\ work.pc = "record" => Creditable(work.key[2])
    /\ work.pc = "finish" => work.key[2] \in settled

WorkersHold == \A w \in Worker : Holds(worker[w])

SettlementInv ==
  Typed /\ SettledSound /\ OnePerInvoice /\ WorkersHold /\ DoneMeansSettled

LEMMA InitSettlement == Init => SettlementInv
<1>. SUFFICES ASSUME Init PROVE SettlementInv
  OBVIOUS
<1>1. Typed
  BY DEF Init, Typed
<1>2. SettledSound /\ OnePerInvoice /\ WorkersHold /\ DoneMeansSettled
  BY DEF Init, SettledSound, OnePerInvoice, WorkersHold, Holds, Idle, DoneMeansSettled,
         Absent, Row
<1>. QED
  BY <1>1, <1>2 DEF SettlementInv

-----------------------------------------------------------------------------
(***************************************************************************)
(* What Strike said of a completed receive, and that a request was issued, *)
(* is for ever: evidence that was read before a step holds after it.       *)
(***************************************************************************)
EvidenceStays ==
  /\ stored \subseteq stored'
  /\ \A r \in Completed : report'[r] = report[r]

LEMMA ProviderKeepsEvidence ==
  ASSUME Typed, Next
  PROVE  EvidenceStays
<1>1. ASSUME NEW r \in Receive, CompleteReceive(r) PROVE EvidenceStays
  BY <1>1 DEF CompleteReceive, EvidenceStays, Typed, Completed
<1>2. ASSUME UNCHANGED report, stored \subseteq stored' PROVE EvidenceStays
  BY <1>2 DEF EvidenceStays
<1>3. ASSUME NEW w \in Worker, RecoveryStep(w) \/ Abandon(w)
      PROVE  UNCHANGED <<report, stored>>
  <2>1. ASSUME OnlyWorker PROVE UNCHANGED <<report, stored>>
    BY <2>1 DEF OnlyWorker, provider
  <2>. QED
    BY <1>3, <2>1
       DEF RecoveryStep, TakeWork, NoWorkDue, Reconcile, RecordPayment, FinishWork, RetryWork,
           ScanPage, EnqueueFound, RecordScan, BeginAnew, Abandon, provider
<1>. QED
  BY <1>1, <1>2, <1>3 DEF Next, RecordReceiveRequest, Arrive, Webhook, provider

LEMMA CreditableStays ==
  ASSUME EvidenceStays, NEW r, Creditable(r)
  PROVE  Creditable(r)' /\ Told(r)' = Told(r)
<1>1. r \in Completed /\ report'[r] = report[r] /\ report[r] # NotCompleted
  BY DEF Creditable, EvidenceStays, Completed
<1>2. r \in Completed' /\ Told(r)' = Told(r)
  BY <1>1 DEF Completed, Told
<1>. QED
  BY <1>2 DEF Creditable, Recorded, EvidenceStays, Valid, ValidStoredRequest, ValidReceived,
              ValidLightning, ValidP2P

\* An invoice that two credited receives share, they shared before.
LEMMA InvoicesStay ==
  ASSUME EvidenceStays, NEW r, NEW s, Creditable(r), Creditable(s), SameInvoice(r, s)'
  PROVE  SameInvoice(r, s)
<1>1. r \in Completed /\ s \in Completed /\ Told(r)' = Told(r) /\ Told(s)' = Told(s)
  BY CreditableStays DEF Creditable
<1>. QED
  BY <1>1 DEF SameInvoice, HasHash

-----------------------------------------------------------------------------
\* A step that leaves the credited receives alone.
LEMMA LedgerStays ==
  ASSUME SettlementInv, EvidenceStays, settled' = settled
  PROVE  SettledSound' /\ OnePerInvoice'
<1>1. \A r \in settled : Creditable(r) /\ Msat(Told(r)) % 1000 = 0
  BY DEF SettlementInv, SettledSound, Sound
<1>2. SettledSound'
  <2>. SUFFICES ASSUME NEW r \in settled PROVE Sound(r)'
    BY DEF SettledSound
  <2>1. Creditable(r)' /\ Told(r)' = Told(r)
    BY <1>1, CreditableStays
  <2>. QED
    BY <1>1, <2>1 DEF Sound, Msat
<1>3. OnePerInvoice'
  <2>. SUFFICES ASSUME NEW r \in settled, NEW s \in settled, SameInvoice(r, s)' PROVE r = s
    BY DEF OnePerInvoice
  <2>1. SameInvoice(r, s)
    BY <1>1, InvoicesStay
  <2>. QED
    BY <2>1 DEF SettlementInv, OnePerInvoice
<1>. QED
  BY <1>2, <1>3

\* What a worker holds, it holds after any step of another; and a step of its
\* own leaves it with what it has seen.
LEMMA WorkersKeep ==
  ASSUME SettlementInv, EvidenceStays, settled \subseteq settled',
         \A v \in Worker :
           \/ worker'[v] = worker[v]
           \/ worker'[v].pc \in {"reconcile", "record", "finish", "retry"} =>
                /\ worker'[v].key \in Key
                /\ worker'[v].pc = "record" => Creditable(worker'[v].key[2])
                /\ worker'[v].pc = "finish" => worker'[v].key[2] \in settled'
  PROVE  WorkersHold'
<1>1. ASSUME NEW v \in Worker, NEW work, work = worker'[v]
      PROVE  Holds(work)'
  <2>1. CASE work = worker[v]
    <3>1. Holds(work)
      BY <2>1 DEF SettlementInv, WorkersHold
    <3>. QED
      BY <3>1, CreditableStays DEF Holds
  <2>2. CASE work.pc \in {"reconcile", "record", "finish", "retry"} =>
               /\ work.key \in Key
               /\ work.pc = "record" => Creditable(work.key[2])
               /\ work.pc = "finish" => work.key[2] \in settled'
    BY <2>2, CreditableStays DEF Holds
  <2>. QED
    BY <1>1, <2>1, <2>2
<1>2. ASSUME NEW v \in Worker PROVE Holds(worker[v])'
  <2>1. PICK work : work = worker'[v]
    OBVIOUS
  <2>2. Holds(work)'
    BY <1>1, <2>1
  <2>. QED
    BY <2>1, <2>2 DEF Holds
<1>. QED
  BY <1>2 DEF WorkersHold

LEMMA Becomes ==
  ASSUME Typed, NEW w \in Worker, NEW next, Become(w, next)
  PROVE  /\ worker' = [v \in Worker |-> worker'[v]]
         /\ worker'[w] = next /\ \A v \in Worker \ {w} : worker'[v] = worker[v]
BY DEF Typed, Become

\* What follows for a step of one worker.
LEMMA WorkerMoves ==
  ASSUME SettlementInv, EvidenceStays, NEW w \in Worker, NEW next, Become(w, next),
         UNCHANGED report, settled \subseteq settled', settled' \subseteq Receive,
         inbox' = [k \in Key |-> inbox'[k]],
         next.pc \in {"reconcile", "record", "finish", "retry"} =>
           /\ next.key \in Key
           /\ next.pc = "record" => Creditable(next.key[2])
           /\ next.pc = "finish" => next.key[2] \in settled',
         \A k \in Key : inbox'[k].status = "done" => inbox[k].status = "done" \/ k[2] \in settled
  PROVE  Typed' /\ WorkersHold' /\ DoneMeansSettled'
<1>1. /\ worker' = [v \in Worker |-> worker'[v]]
      /\ worker'[w] = next /\ \A v \in Worker \ {w} : worker'[v] = worker[v]
  BY Becomes DEF SettlementInv
<1>2. Typed'
  BY <1>1 DEF SettlementInv, Typed
<1>3. WorkersHold'
  BY <1>1, WorkersKeep
<1>4. DoneMeansSettled'
  BY DEF SettlementInv, DoneMeansSettled
<1>. QED
  BY <1>2, <1>3, <1>4

\* A step that only moves a worker, to anything it has the ground for.
LEMMA OnlyMoves ==
  ASSUME SettlementInv, EvidenceStays, NEW w \in Worker, NEW next, Become(w, next),
         UNCHANGED <<report, inbox, settled>>,
         next.pc \in {"reconcile", "record", "finish", "retry"} =>
           /\ next.key \in Key
           /\ next.pc = "record" => Creditable(next.key[2])
           /\ next.pc = "finish" => next.key[2] \in settled
  PROVE  SettlementInv'
<1>1. SettledSound' /\ OnePerInvoice'
  BY LedgerStays
<1>2. Typed' /\ WorkersHold' /\ DoneMeansSettled'
  BY WorkerMoves DEF SettlementInv, Typed
<1>. QED
  BY <1>1, <1>2 DEF SettlementInv

-----------------------------------------------------------------------------
\* A receive is credited when its evidence is sound and its invoice is new.
LEMMA RecordKeeps ==
  ASSUME SettlementInv, EvidenceStays, NEW w \in Worker, RecordPayment(w)
  PROVE  SettlementInv'
<1>. PICK k : k = worker[w].key
  OBVIOUS
<1>. DEFINE r == k[2]
<1>0. /\ k \in Key /\ r \in Receive /\ Creditable(r)
      /\ UNCHANGED <<report, inbox>>
  BY DEF RecordPayment, Is, SettlementInv, WorkersHold, Holds, Key, provider
<1>1. CASE /\ UNCHANGED ledger
           /\ \/ r \in settled /\ Become(w, Work("finish", k, worker[w].attempts))
              \/ Become(w, Work("retry", k, worker[w].attempts))
  <2>1. PICK next : /\ Become(w, next) /\ next.key = k
                    /\ next.pc = "retry" \/ (next.pc = "finish" /\ r \in settled)
    BY <1>1 DEF Work
  <2>. QED
    BY <1>0, <1>1, <2>1, OnlyMoves DEF ledger
<1>2. CASE /\ r \notin settled /\ Msat(Told(r)) % 1000 = 0
           /\ ~\E s \in settled \ {r} : SameInvoice(r, s)
           /\ settled' = settled \cup {r}
           /\ Become(w, Work("finish", k, worker[w].attempts))
  <2>1. PICK next : Become(w, next) /\ next.key = k /\ next.pc = "finish"
    BY <1>2 DEF Work
  <2>2. Typed' /\ WorkersHold' /\ DoneMeansSettled'
    BY <1>0, <1>2, <2>1, WorkerMoves DEF SettlementInv, Typed
  <2>3. \A s \in settled' : Creditable(s) /\ Msat(Told(s)) % 1000 = 0
    BY <1>0, <1>2 DEF SettlementInv, SettledSound, Sound
  <2>4. SettledSound'
    <3>. SUFFICES ASSUME NEW s, s \in settled' PROVE Sound(s)'
      BY DEF SettledSound
    <3>1. Creditable(s)' /\ Told(s)' = Told(s)
      BY <2>3, CreditableStays
    <3>. QED
      BY <2>3, <3>1 DEF Sound, Msat
  <2>5. OnePerInvoice'
    <3>. SUFFICES ASSUME NEW s, NEW t, s \in settled', t \in settled', SameInvoice(s, t)'
                  PROVE  s = t
      BY DEF OnePerInvoice
    <3>1. SameInvoice(s, t) /\ SameInvoice(t, s)
      BY <2>3, InvoicesStay DEF SameInvoice
    <3>. QED
      BY <1>2, <3>1 DEF SettlementInv, OnePerInvoice
  <2>. QED
    BY <2>2, <2>4, <2>5 DEF SettlementInv
<1>. QED
  BY <1>1, <1>2 DEF RecordPayment

\* Only a finished item becomes done; one tried again is pending or set aside.
LEMMA InboxKeeps ==
  ASSUME SettlementInv, EvidenceStays, NEW w \in Worker,
         FinishWork(w) \/ RetryWork(w) \/ EnqueueFound(w)
  PROVE  SettlementInv'
<1>0. UNCHANGED <<report, settled>>
  BY DEF FinishWork, RetryWork, EnqueueFound, provider, ledger
<1>1. PICK next : Become(w, next) /\ next.pc \in {"scan", "page", "idle"}
  BY DEF FinishWork, RetryWork, EnqueueFound, Step, Page, Idle
<1>2. /\ inbox' = [k \in Key |-> inbox'[k]]
      /\ \A k \in Key :
           inbox'[k].status = "done" => inbox[k].status = "done" \/ k[2] \in settled
  <2>1. CASE FinishWork(w)
    <3>1. worker[w].key[2] \in settled
      BY <2>1 DEF FinishWork, Is, SettlementInv, WorkersHold, Holds
    <3>. QED
      BY <2>1, <3>1 DEF FinishWork, SettlementInv, Typed
  <2>2. CASE RetryWork(w)
    BY <2>2 DEF RetryWork, Row, SettlementInv, Typed
  <2>3. CASE EnqueueFound(w)
    BY <2>3 DEF EnqueueFound, Enqueue, Row, SettlementInv, Typed
  <2>. QED
    BY <2>1, <2>2, <2>3
<1>3. Typed' /\ WorkersHold' /\ DoneMeansSettled'
  BY <1>0, <1>1, <1>2, WorkerMoves DEF SettlementInv, Typed
<1>. QED
  BY <1>0, <1>3, LedgerStays DEF SettlementInv

LEMMA WorkerKeeps ==
  ASSUME SettlementInv, EvidenceStays, NEW w \in Worker, RecoveryStep(w) \/ Abandon(w)
  PROVE  SettlementInv'
<1>0. ASSUME OnlyWorker PROVE UNCHANGED <<report, inbox, settled>>
  BY <1>0 DEF OnlyWorker, provider, ledger
<1>1. ASSUME NEW k \in Key, TakeWork(w, k) PROVE SettlementInv'
  <2>1. PICK next : Become(w, next) /\ next.pc = "reconcile" /\ next.key = k
    BY <1>1 DEF TakeWork, Work
  <2>. QED
    BY <1>0, <1>1, <2>1, OnlyMoves DEF TakeWork
<1>2. CASE Reconcile(w)
  <2>1. worker[w].key \in Key
    BY <1>2 DEF Reconcile, Is, SettlementInv, WorkersHold, Holds
  <2>2. PICK next : /\ Become(w, next) /\ next.key \in Key
                    /\ next.pc = "retry" \/ (next.pc = "record" /\ Creditable(next.key[2]))
    BY <1>2, <2>1 DEF Reconcile, Work
  <2>. QED
    BY <1>0, <1>2, <2>2, OnlyMoves DEF Reconcile
<1>3. CASE NoWorkDue(w) \/ ScanPage(w) \/ RecordScan(w) \/ BeginAnew(w) \/ Abandon(w)
  <2>1. PICK next : Become(w, next) /\ next.pc \in {"scan", "page", "idle", "down"}
    <3>1. CASE ScanPage(w)
      <4>1. \A q, items, n : Page(q, items, n).pc = "page"
        BY DEF Page
      <4>2. Idle.pc = "idle"
        BY DEF Idle
      <4>. QED
        BY <3>1, <4>1, <4>2 DEF ScanPage
    <3>2. CASE NoWorkDue(w) \/ RecordScan(w) \/ BeginAnew(w) \/ Abandon(w)
      BY <3>2 DEF NoWorkDue, RecordScan, BeginAnew, Abandon, Step, Idle
    <3>. QED
      BY <1>3, <3>1, <3>2
  <2>2. UNCHANGED <<report, inbox, settled>>
    BY <1>0, <1>3 DEF NoWorkDue, ScanPage, RecordScan, BeginAnew, Abandon, provider, ledger
  <2>. QED
    BY <2>1, <2>2, OnlyMoves
<1>. QED
  BY <1>1, <1>2, <1>3, RecordKeeps, InboxKeeps DEF RecoveryStep

\* Requests, arrivals and webhooks move no worker and credit nothing.
LEMMA OutsideKeeps ==
  ASSUME SettlementInv, EvidenceStays,
         \/ \E q \in Request : RecordReceiveRequest(q)
         \/ \E r \in Receive : Arrive(r) \/ CompleteReceive(r) \/ Webhook(r)
  PROVE  SettlementInv'
<1>1. worker' = worker /\ settled' = settled
  BY DEF RecordReceiveRequest, Arrive, CompleteReceive, Webhook, ledger
<1>2. /\ inbox' = [k \in Key |-> inbox'[k]]
      /\ \A k \in Key : inbox'[k].status = "done" => inbox[k].status = "done"
  <2>1. CASE UNCHANGED inbox
    BY <2>1 DEF SettlementInv, Typed
  <2>2. ASSUME NEW k, Enqueue(k) PROVE <1>2!:
    BY <2>2 DEF Enqueue, Row, SettlementInv, Typed
  <2>. QED
    BY <2>1, <2>2 DEF RecordReceiveRequest, Arrive, CompleteReceive, Webhook
<1>3. /\ report' = [r \in Receive |-> report'[r]]
      /\ \A r \in Receive : report'[r] # NotCompleted => report'[r] \in DOMAIN Reports[r]
  BY DEF RecordReceiveRequest, Arrive, CompleteReceive, Webhook, provider,
         SettlementInv, Typed
<1>4. Typed' /\ DoneMeansSettled'
  BY <1>1, <1>2, <1>3 DEF SettlementInv, Typed, DoneMeansSettled
<1>5. WorkersHold'
  BY <1>1, WorkersKeep
<1>. QED
  BY <1>1, <1>4, <1>5, LedgerStays DEF SettlementInv

LEMMA StepSettlement == SettlementInv /\ [Next]_vars => SettlementInv'
<1>. SUFFICES ASSUME SettlementInv, [Next]_vars PROVE SettlementInv'
  OBVIOUS
<1>1. CASE Next
  <2>1. EvidenceStays
    BY <1>1, ProviderKeepsEvidence DEF SettlementInv
  <2>. QED
    BY <1>1, <2>1, WorkerKeeps, OutsideKeeps DEF Next
<1>2. CASE UNCHANGED vars
  <2>1. /\ report' = report /\ stored' = stored /\ inbox' = inbox
        /\ settled' = settled /\ worker' = worker
    BY <1>2 DEF vars, provider, ledger
  <2>2. EvidenceStays
    BY <2>1 DEF EvidenceStays
  <2>3. Typed' /\ DoneMeansSettled'
    BY <2>1 DEF SettlementInv, Typed, DoneMeansSettled
  <2>. QED
    BY <2>1, <2>2, <2>3, LedgerStays, WorkersKeep DEF SettlementInv
<1>. QED
  BY <1>1, <1>2

LEMMA SettlementAlways == Spec => []SettlementInv
BY InitSettlement, StepSettlement, PTL DEF Spec

-----------------------------------------------------------------------------
(***************************************************************************)
(* No crash, retry or second worker closes an item before its payment is   *)
(* credited: the credit is committed before the item is.                   *)
(***************************************************************************)
THEOREM DoneItemsAreSettled == Spec => []DoneMeansSettled
<1>1. SettlementInv => DoneMeansSettled
  BY DEF SettlementInv
<1>. QED
  BY <1>1, SettlementAlways, PTL

(***************************************************************************)
(* An invoice is credited once, whichever of its receives comes first.     *)
(***************************************************************************)
THEOREM InvoiceCreditedOnce ==
  Spec => [](\A r, s \in settled : SameInvoice(r, s) => r = s)
<1>1. SettlementInv => \A r, s \in settled : SameInvoice(r, s) => r = s
  BY DEF SettlementInv, OnePerInvoice
<1>. QED
  BY <1>1, SettlementAlways, PTL

\* Whole satoshis, given back in millisatoshis.
LEMMA WholeSats ==
  ASSUME NEW m \in Int, m % 1000 = 0
  PROVE  1000 * (m \div 1000) = m
OBVIOUS

\* Evidence that the validations of reconcile_completed_receive let through.
LEMMA SoundEvidence ==
  ASSUME Typed, NEW r \in Receive, Sound(r)
  PROVE  RequestOf[r] \in stored /\ r \in Completed /\ Uncontradicted(r, Told(r))
<1>. DEFINE e == Told(r)
<1>1. r \in Completed /\ RequestOf[r] \in stored /\ Valid(r, e) /\ Msat(e) % 1000 = 0
  BY DEF Sound, Creditable, Recorded
<1>2. {e.received, e.credited} \subseteq [currency : STRING, msat : Int]
  BY <1>1, SettlementAssumption DEF Typed, Told, Completed
<1>3. Msat(e) \in Int
  BY <1>2 DEF Msat
<1>4. 1000 * Sats(r) = Msat(e)
  BY <1>1, <1>3, WholeSats DEF Sats
<1>. HIDE DEF e
<1>5. CASE e.type = "LIGHTNING" /\ ValidLightning(e, Issued[RequestOf[r]])
  <2>1. /\ e.received = Btc(Issued[RequestOf[r]])
        /\ e.credited \in {None, Btc(Issued[RequestOf[r]])}
        /\ e.lightning = "issued"
    BY <1>5 DEF ValidLightning
  <2>2. Msat(e) = Issued[RequestOf[r]]
    BY <1>5, <2>1 DEF Msat, Btc, Amount
  <2>3. \A a \in {e.received, e.credited} :
          a.currency = "BTC" => a = Btc(1000 * Sats(r))
    BY <1>4, <2>1, <2>2 DEF None, Btc, Amount
  <2>4. e.received.currency = "BTC"
    BY <2>1 DEF Btc, Amount
  <2>. QED
    BY <1>1, <2>1, <2>2, <2>3, <2>4 DEF Valid, ValidStoredRequest, Uncontradicted, Sats, e
<1>6. CASE e.type = "P2P" /\ ValidP2P(e)
  <2>1. /\ e.credited.currency = "BTC" /\ e.lightning = "none"
        /\ e.received.currency = "BTC" => e.received = e.credited
    BY <1>6 DEF ValidP2P
  <2>2. e.credited = Btc(1000 * Sats(r))
    BY <1>2, <1>4, <1>6, <2>1 DEF Msat, Btc, Amount
  <2>. QED
    BY <1>1, <1>6, <2>1, <2>2 DEF Valid, ValidStoredRequest, Uncontradicted, Sats, e
<1>. QED
  BY <1>1, <1>5, <1>6 DEF Valid

(***************************************************************************)
(* Whatever Strike reports, in whatever order and however often: what is   *)
(* credited was completed, for an issued request, and for the full amount. *)
(***************************************************************************)
THEOREM CreditIsAuthoritative == Spec => []OnlyAuthoritativeCredit
<1>1. SettlementInv => OnlyAuthoritativeCredit
  BY SoundEvidence DEF SettlementInv, Typed, SettledSound, OnlyAuthoritativeCredit
<1>. QED
  BY <1>1, SettlementAlways, PTL

(***************************************************************************)
(* The ledger moves only with a receive that had not been credited, by the *)
(* amount of its evidence; so its sum is that of the settled receives.     *)
(***************************************************************************)
CreditMoves ==
  \/ UNCHANGED ledger
  \/ \E r \in Receive \ settled :
       Creditable(r) /\ settled' = settled \cup {r} /\ credit' = credit + Sats(r)

LEMMA CreditMovesSo == SettlementInv /\ [Next]_vars => [CreditMoves]_vars
<1>. SUFFICES ASSUME SettlementInv, Next PROVE CreditMoves
  OBVIOUS
<1>1. ASSUME NEW w \in Worker, RecordPayment(w) PROVE CreditMoves
  <2>1. worker[w].key \in Key /\ Creditable(worker[w].key[2])
    BY <1>1 DEF RecordPayment, Is, SettlementInv, WorkersHold, Holds
  <2>2. worker[w].key[2] \in Receive
    BY <2>1 DEF Key
  <2>. QED
    BY <1>1, <2>1, <2>2 DEF RecordPayment, CreditMoves
<1>2. ASSUME NEW w \in Worker, RecoveryStep(w) \/ Abandon(w), ~RecordPayment(w)
      PROVE  UNCHANGED ledger
  <2>1. ASSUME OnlyWorker PROVE UNCHANGED ledger
    BY <2>1 DEF OnlyWorker
  <2>. QED
    BY <1>2, <2>1 DEF RecoveryStep, TakeWork, NoWorkDue, Reconcile, FinishWork, RetryWork,
       ScanPage, EnqueueFound, RecordScan, BeginAnew, Abandon
<1>. QED
  BY <1>1, <1>2 DEF Next, RecordReceiveRequest, Arrive, CompleteReceive, Webhook, CreditMoves

THEOREM CreditMovesWithReceives == Spec => [][CreditMoves]_vars
BY CreditMovesSo, SettlementAlways, PTL DEF Spec

-----------------------------------------------------------------------------
\* The sats of each receive, as a function: what the credit is the sum of.
SatsOf == [r \in Receive |-> Sats(r)]

Summed == IsFiniteSet(settled) /\ credit = Total(SatsOf, settled)

\* The sum of CreditedOnce is the sum of that function: the recursion behind
\* both reads it at the same receives.
LEMMA SumOfSats ==
  ASSUME settled \subseteq Receive
  PROVE  MapThenSumSet(LAMBDA r : Sats(r), settled) = Total(SatsOf, settled)
<1>1. ASSUME NEW g
      PROVE  g = [s \in SUBSET settled |->
                    IF s = {} THEN 0 ELSE Sats(Some(s)) + g[s \ {Some(s)}]]
             <=> Solves(SatsOf, settled, g)
  <2>1. \A s \in SUBSET settled : s # {} => SatsOf[Some(s)] = Sats(Some(s))
    BY DEF SatsOf, Some
  <2>. QED
    BY <2>1 DEF Solves
<1>2. (CHOOSE g : g = [s \in SUBSET settled |->
                         IF s = {} THEN 0 ELSE Sats(Some(s)) + g[s \ {Some(s)}]])
      = (CHOOSE g : Solves(SatsOf, settled, g))
  BY <1>1
<1>3. MapThenSumSet(LAMBDA r : Sats(r), settled)
      = (CHOOSE g : g = [s \in SUBSET settled |->
                           IF s = {} THEN 0 ELSE Sats(Some(s)) + g[s \ {Some(s)}]])[settled]
  BY DEF MapThenSumSet, MapThenFoldSet, Some
<1>. QED
  BY <1>2, <1>3, TotalIs

\* What Strike reports is an amount.
LEMMA SatsTyped ==
  ASSUME Typed, NEW r \in Receive, Creditable(r)
  PROVE  Sats(r) \in Int
<1>1. {Told(r).received, Told(r).credited} \subseteq [currency : STRING, msat : Int]
  BY SettlementAssumption DEF Creditable, Typed, Told, Completed
<1>2. Msat(Told(r)) \in Int
  BY <1>1 DEF Msat
<1>. QED
  BY <1>2 DEF Sats

\* The credit stays the sum: what Strike said of a settled receive stays, and a
\* receive is added with its own amount.
LEMMA StepSummed == SettlementInv /\ Summed /\ [Next]_vars => Summed'
<1>. SUFFICES ASSUME SettlementInv, Summed, Next PROVE Summed'
  BY DEF Summed, vars, ledger, SatsOf, Sats, Told, provider
<1>1. EvidenceStays
  BY ProviderKeepsEvidence DEF SettlementInv
<1>2. \A r \in settled : r \in Receive /\ Creditable(r)
  BY DEF SettlementInv, Typed, SettledSound, Sound
<1>3. \A r \in Receive : Creditable(r) => Sats(r)' = Sats(r) /\ Sats(r) \in Int
  BY <1>1, CreditableStays, SatsTyped DEF Sats, SettlementInv
<1>4. PICK f, e : f = SatsOf /\ e = SatsOf'
  OBVIOUS
<1>5. \A r \in Receive : f[r] = Sats(r) /\ e[r] = Sats(r)'
  BY <1>4 DEF SatsOf
<1>6. \A r \in settled : f[r] = e[r] /\ f[r] \in Int
  BY <1>2, <1>3, <1>5
<1>7. Total(e, settled) = Total(f, settled) /\ IsFiniteSet(settled)
  BY <1>6, TotalSame DEF Summed
<1>8. CASE UNCHANGED ledger
  BY <1>4, <1>7, <1>8 DEF Summed, ledger
<1>9. ASSUME NEW r \in Receive \ settled,
             Creditable(r), settled' = settled \cup {r}, credit' = credit + Sats(r)
      PROVE  Summed'
  <2>1. e[r] = Sats(r) /\ e[r] \in Int
    BY <1>3, <1>5, <1>9
  <2>2. Total(e, settled \cup {r}) = e[r] + Total(e, settled) /\ IsFiniteSet(settled \cup {r})
    BY <1>6, <1>7, <2>1, TotalAdded, FS_AddElement
  <2>3. Total(e, settled) \in Int
    BY <1>6, <1>7, TotalType
  <2>. QED
    BY <1>4, <1>7, <1>9, <2>1, <2>2, <2>3 DEF Summed
<1>10. CreditMoves
  BY CreditMovesSo DEF CreditMoves, vars
<1>. QED
  BY <1>8, <1>9, <1>10 DEF CreditMoves

(***************************************************************************)
(* The ledger holds the sats of the settled receives, each of them once,   *)
(* whatever crashed, overlapped or was repeated, and an invoice is settled *)
(* by one receive.                                                         *)
(***************************************************************************)
THEOREM EachCreditedOnce == Spec => []CreditedOnce
<1>1. Init => Summed
  BY TotalEmpty, FS_EmptySet DEF Init, Summed
<1>2. SettlementInv /\ Summed => CreditedOnce
  BY SumOfSats DEF SettlementInv, Typed, OnePerInvoice, Summed, CreditedOnce
<1>. QED
  BY <1>1, <1>2, StepSummed, SettlementAlways, PTL DEF Spec
=============================================================================
