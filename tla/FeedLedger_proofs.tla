-------------------------- MODULE FeedLedger_proofs --------------------------
(***************************************************************************)
(* Proofs about the feed ledger, for every set of attempts, thresholds,    *)
(* receipts and refusals.  LedgerInv is the inductive invariant: the       *)
(* single unresolved attempt is what keeps its threshold covered, because  *)
(* only a confirmation lowers the credit and the confirmed attempt was the *)
(* one unresolved attempt.                                                 *)
(***************************************************************************)
EXTENDS FeedLedgerRuntime, TLAPS

Accounting == SingleUnresolved /\ ResolvableAttempts /\ DebitedExactlyConfirmed

LedgerInv == TypeOK /\ Accounting

\* Publishing a row keeps event_log a sequence of rows (append_event_in_transaction).
LEMMA PublishType ==
  ASSUME events \in Seq(EventRow),
         NEW type \in EventTypes, NEW id \in Attempt \cup {NoAttempt},
         NEW amount \in Nat, NEW remaining \in Int,
         Publish(type, id, amount, remaining)
  PROVE  /\ events' \in Seq(EventRow)
         /\ Len(events') = Len(events) + 1
         /\ \A i \in 1..Len(events) : events'[i] = events[i]
         /\ events'[Len(events) + 1].type = type
         /\ events'[Len(events) + 1].amount = amount
         /\ events'[Len(events) + 1].credit = remaining
<1>1. Event(type, id, amount, remaining) \in EventRow
  BY DEF Event, EventRow
<1>2. /\ Event(type, id, amount, remaining).type = type
      /\ Event(type, id, amount, remaining).amount = amount
      /\ Event(type, id, amount, remaining).credit = remaining
  BY DEF Event
<1>. QED
  BY <1>1, <1>2 DEF Publish

\* The initial, empty ledger satisfies the invariant.
LEMMA InitLedgerInv == Init => LedgerInv
BY LedgerAssumption
DEF Init, LedgerInv, Accounting, TypeOK, Statuses, Unresolved, Resolved,
    SingleUnresolved, ResolvableAttempts, DebitedExactlyConfirmed,
    UnresolvedAttempts

\* A settlement (record_payment) keeps the invariant.
LEMMA CreditReceiptInv ==
  ASSUME LedgerInv, NEW sats \in PaymentSats, CreditReceipt(sats)
  PROVE  LedgerInv'
<1>1. sats \in Nat /\ sats > 0 /\ MaxSats \in Nat
  BY LedgerAssumption
<1>2. TypeOK'
  <2>1. events' \in Seq(EventRow)
    <3>1. /\ Publish("payment_received", NoAttempt, sats, credit + sats)
          /\ credit \in Int /\ credit + sats \in Int /\ events \in Seq(EventRow)
      BY <1>1 DEF LedgerInv, TypeOK, CreditReceipt
    <3>2. "payment_received" \in EventTypes
      BY DEF EventTypes
    <3>. QED
      BY <1>1, <3>1, <3>2, PublishType
  <2>. QED
    BY <1>1, <2>1 DEF LedgerInv, TypeOK, CreditReceipt
<1>3. Accounting'
  BY <1>1 DEF LedgerInv, TypeOK, Accounting, SingleUnresolved, ResolvableAttempts,
              DebitedExactlyConfirmed, UnresolvedAttempts, CreditReceipt
<1>. QED
  BY <1>2, <1>3 DEF LedgerInv

\* The restart transaction keeps the invariant.
LEMMA MarkInterruptedInv ==
  ASSUME LedgerInv, MarkInterruptedFeedIntentsUnknown
  PROVE  LedgerInv'
<1>1. TypeOK'
  <2>1. events' \in Seq(EventRow)
    <3>1. Publish("processing_error", NoAttempt, 0, credit)
      BY DEF MarkInterruptedFeedIntentsUnknown
    <3>2. credit \in Int /\ events \in Seq(EventRow) /\ "processing_error" \in EventTypes
      BY LedgerAssumption DEF LedgerInv, TypeOK, EventTypes
    <3>. QED
      BY <3>1, <3>2, PublishType
  <2>2. status' \in [Attempt -> Statuses]
    BY DEF LedgerInv, TypeOK, MarkInterruptedFeedIntentsUnknown, Statuses, Unresolved
  <2>. QED
    BY <2>1, <2>2 DEF LedgerInv, TypeOK, MarkInterruptedFeedIntentsUnknown
<1>2. Accounting'
  BY DEF LedgerInv, TypeOK, Accounting, SingleUnresolved, ResolvableAttempts,
         DebitedExactlyConfirmed, UnresolvedAttempts, Unresolved,
         MarkInterruptedFeedIntentsUnknown
<1>. QED
  BY <1>1, <1>2 DEF LedgerInv

\* A new intent is the only unresolved one, is covered, and has no debit.
LEMMA BeginInv ==
  ASSUME LedgerInv, NEW a \in Attempt, NEW t \in ThresholdSats,
         BeginFeedAttempt(a, t)
  PROVE  LedgerInv'
<1>1. t \in Nat
  BY LedgerAssumption
<1>2. TypeOK'
  BY <1>1 DEF LedgerInv, TypeOK, BeginFeedAttempt, Statuses, Unresolved
<1>3. UnresolvedAttempts' = {a}
  BY DEF LedgerInv, TypeOK, BeginFeedAttempt, UnresolvedAttempts, Unresolved
<1>4. a \notin debited
  BY DEF LedgerInv, Accounting, DebitedExactlyConfirmed, BeginFeedAttempt
<1>5. SingleUnresolved' /\ ResolvableAttempts'
  BY <1>1, <1>3, <1>4
  DEF LedgerInv, TypeOK, BeginFeedAttempt, SingleUnresolved, ResolvableAttempts
<1>6. DebitedExactlyConfirmed'
  BY DEF LedgerInv, TypeOK, Accounting, BeginFeedAttempt, DebitedExactlyConfirmed
<1>. QED
  BY <1>2, <1>5, <1>6 DEF LedgerInv, Accounting

\* Marking an intent unknown keeps it the one unresolved attempt.
LEMMA MarkUnknownInv ==
  ASSUME LedgerInv, NEW a \in Attempt, MarkFeedUnknown(a)
  PROVE  LedgerInv'
<1>1. TypeOK'
  <2>1. events' \in Seq(EventRow)
    BY PublishType DEF LedgerInv, TypeOK, MarkFeedUnknown, EventTypes
  <2>. QED
    BY <2>1 DEF LedgerInv, TypeOK, MarkFeedUnknown, Statuses, Unresolved
<1>2. UnresolvedAttempts' = UnresolvedAttempts
  BY DEF LedgerInv, TypeOK, MarkFeedUnknown, UnresolvedAttempts, Unresolved
<1>3. Accounting'
  BY <1>2 DEF LedgerInv, TypeOK, Accounting, SingleUnresolved, ResolvableAttempts,
              DebitedExactlyConfirmed, MarkFeedUnknown
<1>. QED
  BY <1>1, <1>3 DEF LedgerInv

\* Leaving the unresolved statuses empties the set of unresolved attempts.
LEMMA ResolvingEmpties ==
  ASSUME LedgerInv, NEW a \in Attempt, status[a] \in Unresolved,
         NEW s \in Resolved, status' = [status EXCEPT ![a] = s]
  PROVE  UnresolvedAttempts' = {} /\ status' \in [Attempt -> Statuses]
BY DEF LedgerInv, TypeOK, Accounting, SingleUnresolved, UnresolvedAttempts,
       Unresolved, Resolved, Statuses

\* Confirming debits the stored threshold, which the credit covers.
LEMMA ResolveAsFedInv ==
  ASSUME LedgerInv, NEW a \in Attempt, NEW expected \in Unresolved,
         ResolveAsFed(a, expected)
  PROVE  LedgerInv'
<1>1. UnresolvedAttempts' = {} /\ status' \in [Attempt -> Statuses]
  BY ResolvingEmpties DEF ResolveAsFed, Resolved
<1>2. credit' \in 0..MaxSats
  BY LedgerAssumption DEF LedgerInv, TypeOK, ResolveAsFed
<1>3. events' \in Seq(EventRow)
  BY PublishType, LedgerAssumption
  DEF LedgerInv, TypeOK, ResolveAsFed, EventTypes
<1>4. TypeOK'
  BY <1>1, <1>2, <1>3 DEF LedgerInv, TypeOK, ResolveAsFed
<1>5. DebitedExactlyConfirmed'
  BY DEF LedgerInv, TypeOK, Accounting, DebitedExactlyConfirmed, ResolveAsFed
<1>. QED
  BY <1>1, <1>4, <1>5
  DEF LedgerInv, Accounting, SingleUnresolved, ResolvableAttempts

\* Releasing an attempt without a debit keeps the invariant (operator and gateway).
LEMMA ReleaseInv ==
  ASSUME LedgerInv, NEW a \in Attempt,
         \/ ReconcileUnknownAsNotFed(a)
         \/ \E retry \in RetrySeconds : ResolveFeedNotDispatched(a, retry)
  PROVE  LedgerInv'
<1>1. /\ status[a] \in Unresolved
      /\ status' = [status EXCEPT ![a] = "reconciled_not_fed"]
      /\ UNCHANGED <<threshold, credit, debited, clock>>
  BY DEF ReconcileUnknownAsNotFed, ResolveFeedNotDispatched, Unresolved
<1>2. UnresolvedAttempts' = {} /\ status' \in [Attempt -> Statuses]
  BY <1>1, ResolvingEmpties DEF Resolved
<1>3. resumeAfter' \in Nat /\ events' \in Seq(EventRow)
  <2>1. CASE ReconcileUnknownAsNotFed(a)
    BY <2>1, PublishType, LedgerAssumption
    DEF LedgerInv, TypeOK, ReconcileUnknownAsNotFed, EventTypes
  <2>2. CASE \E retry \in RetrySeconds : ResolveFeedNotDispatched(a, retry)
    <3>1. PICK retry \in RetrySeconds : ResolveFeedNotDispatched(a, retry)
      BY <2>2
    <3>2. clock + retry \in Nat /\ credit \in Int
      BY LedgerAssumption DEF LedgerInv, TypeOK
    <3>3. events' \in Seq(EventRow)
      BY <3>1, <3>2, PublishType
      DEF LedgerInv, TypeOK, ResolveFeedNotDispatched, EventTypes
    <3>. QED
      BY <3>1, <3>2, <3>3 DEF LedgerInv, TypeOK, ResolveFeedNotDispatched, Later
  <2>. QED
    BY <2>1, <2>2
<1>4. TypeOK'
  BY <1>1, <1>2, <1>3 DEF LedgerInv, TypeOK
<1>5. DebitedExactlyConfirmed'
  BY <1>1
  DEF LedgerInv, TypeOK, Accounting, DebitedExactlyConfirmed, Unresolved
<1>. QED
  BY <1>2, <1>4, <1>5
  DEF LedgerInv, Accounting, SingleUnresolved, ResolvableAttempts

\* Every step, stuttering included, keeps the invariant.
LEMMA StepLedgerInv == LedgerInv /\ [Next]_vars => LedgerInv'
<1> SUFFICES ASSUME LedgerInv, [Next]_vars PROVE LedgerInv'
  OBVIOUS
<1>1. CASE \E sats \in PaymentSats : CreditReceipt(sats)
  BY <1>1, CreditReceiptInv
<1>2. CASE MarkInterruptedFeedIntentsUnknown
  BY <1>2, MarkInterruptedInv
<1>3. CASE \E a \in Attempt, t \in ThresholdSats : BeginFeedAttempt(a, t)
  BY <1>3, BeginInv
<1>4. CASE \E a \in Attempt : MarkFeedUnknown(a)
  BY <1>4, MarkUnknownInv
<1>5. CASE \E a \in Attempt : Resolve(a)
  BY <1>5, ResolveAsFedInv, ReleaseInv
  DEF Resolve, ConfirmFeedAttempt, ReconcileUnknownAsFed, Unresolved
<1>6. CASE \E t \in 0..MaxClock : SetClock(t)
  BY <1>6, LedgerAssumption
  DEF SetClock, LedgerInv, TypeOK, Accounting, SingleUnresolved, ResolvableAttempts,
      DebitedExactlyConfirmed, UnresolvedAttempts
<1>7. CASE UNCHANGED vars
  BY <1>7
  DEF vars, LedgerInv, TypeOK, Accounting, SingleUnresolved, ResolvableAttempts,
      DebitedExactlyConfirmed, UnresolvedAttempts
<1>. QED
  BY <1>1, <1>2, <1>3, <1>4, <1>5, <1>6, <1>7 DEF Next

(***************************************************************************)
(* The columns keep their types whatever the callers do.                   *)
(***************************************************************************)
THEOREM LedgerInvariant == Spec => []LedgerInv
BY InitLedgerInv, StepLedgerInv, PTL DEF Spec

\* Type correctness of the feed ledger.
THEOREM LedgerTypeCorrect == Spec => []TypeOK
<1>1. LedgerInv => TypeOK
  BY DEF LedgerInv
<1>. QED
  BY <1>1, LedgerInvariant, PTL

(***************************************************************************)
(* begin_feed_attempt never creates a second unresolved attempt, and       *)
(* resolve_as_fed never bails for want of credit or a duplicate debit.     *)
(***************************************************************************)
THEOREM AttemptStaysPayable == Spec => []UnresolvedIsPayable
<1>1. LedgerInv => UnresolvedIsPayable
  BY DEF LedgerInv, Accounting, UnresolvedIsPayable
<1>. QED
  BY <1>1, LedgerInvariant, PTL

(***************************************************************************)
(* A feed is debited once, when and only when it is confirmed.             *)
(***************************************************************************)
THEOREM ConfirmedOnceDebitedOnce == Spec => []DebitedExactlyConfirmed
<1>1. LedgerInv => DebitedExactlyConfirmed
  BY DEF LedgerInv, Accounting
<1>. QED
  BY <1>1, LedgerInvariant, PTL

(***************************************************************************)
(* The refusals recorded so far stay covered by the cooldown row.          *)
(***************************************************************************)
THEOREM CooldownCovers == Spec => []CooldownCoversRefusals
<1>1. Init => CooldownCoversRefusals
  BY DEF Init, CooldownCoversRefusals
<1>2. LedgerInv /\ CooldownCoversRefusals /\ [Next]_vars => CooldownCoversRefusals'
  <2> SUFFICES ASSUME LedgerInv, CooldownCoversRefusals, [Next]_vars
               PROVE  CooldownCoversRefusals'
    OBVIOUS
  <2>1. events \in Seq(EventRow) /\ resumeAfter \in Nat /\ clock \in Nat /\ credit \in Int
    BY LedgerAssumption DEF LedgerInv, TypeOK
  <2>2. ASSUME NEW type \in EventTypes \ {"feeder_not_dispatched"},
               NEW id \in Attempt \cup {NoAttempt}, NEW amount \in Nat,
               NEW remaining \in Int,
               Publish(type, id, amount, remaining), resumeAfter' = resumeAfter
        PROVE  CooldownCoversRefusals'
    <3>1. /\ Len(events') = Len(events) + 1
          /\ \A i \in 1..Len(events) : events'[i] = events[i]
          /\ events'[Len(events) + 1].type = type
      BY <2>1, <2>2, PublishType
    <3>. QED
      BY <2>1, <2>2, <3>1 DEF CooldownCoversRefusals
  <2>3. CASE events' = events /\ resumeAfter' = resumeAfter
    BY <2>3 DEF CooldownCoversRefusals
  <2>4. CASE \E sats \in PaymentSats : CreditReceipt(sats)
    BY <2>1, <2>2, <2>4, LedgerAssumption DEF CreditReceipt, EventTypes
  <2>5. CASE MarkInterruptedFeedIntentsUnknown
    BY <2>1, <2>2, <2>5 DEF MarkInterruptedFeedIntentsUnknown, EventTypes
  <2>6. CASE \E a \in Attempt : MarkFeedUnknown(a)
    BY <2>1, <2>2, <2>6 DEF MarkFeedUnknown, EventTypes
  <2>7. CASE \E a \in Attempt : ResolveAsFed(a, "intent_committed") \/ ResolveAsFed(a, "unknown")
    <3>1. PICK a \in Attempt : /\ Publish("feeder_confirmed", a, threshold[a], credit - threshold[a])
                               /\ resumeAfter' = resumeAfter
      BY <2>7 DEF ResolveAsFed
    <3>2. threshold[a] \in Nat /\ credit - threshold[a] \in Int
      BY <2>1 DEF LedgerInv, TypeOK
    <3>. QED
      BY <2>2, <3>1, <3>2 DEF EventTypes
  <2>8. CASE \E a \in Attempt : ReconcileUnknownAsNotFed(a)
    BY <2>1, <2>2, <2>8 DEF ReconcileUnknownAsNotFed, EventTypes
  <2>9. CASE \E a \in Attempt, retry \in RetrySeconds : ResolveFeedNotDispatched(a, retry)
    <3>1. PICK a \in Attempt, retry \in RetrySeconds : ResolveFeedNotDispatched(a, retry)
      BY <2>9
    <3>2. retry \in Nat /\ clock + retry \in Nat
      BY <2>1, LedgerAssumption
    <3>3. /\ Len(events') = Len(events) + 1
          /\ \A i \in 1..Len(events) : events'[i] = events[i]
          /\ events'[Len(events) + 1].amount = clock + retry
      <4>1. /\ Publish("feeder_not_dispatched", a, clock + retry, credit)
            /\ "feeder_not_dispatched" \in EventTypes
        BY <3>1 DEF ResolveFeedNotDispatched, EventTypes
      <4>. QED
        BY <2>1, <3>2, <4>1, PublishType
    <3>4. resumeAfter' >= resumeAfter /\ resumeAfter' >= clock + retry /\ resumeAfter' \in Nat
      BY <2>1, <3>1, <3>2 DEF ResolveFeedNotDispatched, Later
    <3>5. ASSUME NEW i \in 1..Len(events'), events'[i].type = "feeder_not_dispatched"
          PROVE  resumeAfter' >= events'[i].amount
      <4>1. CASE i = Len(events) + 1
        BY <3>3, <3>4, <4>1
      <4>2. CASE i # Len(events) + 1
        <5>1. i \in 1..Len(events)
          BY <2>1, <3>3, <4>2
        <5>2. events[i] = events'[i] /\ events[i].amount \in Nat
          <6>1. events[i] = events'[i] /\ events[i] \in EventRow
            BY <2>1, <3>3, <5>1
          <6>. QED
            BY <6>1 DEF EventRow
        <5>. QED
          BY <2>1, <3>4, <3>5, <5>1, <5>2 DEF CooldownCoversRefusals
      <4>. QED
        BY <4>1, <4>2
    <3>. QED
      BY <3>5 DEF CooldownCoversRefusals
  <2>. QED
    BY <2>3, <2>4, <2>5, <2>6, <2>7, <2>8, <2>9
    DEF Next, Resolve, ConfirmFeedAttempt, ReconcileUnknownAsFed, BeginFeedAttempt,
        SetClock, vars
<1>. QED
  BY <1>1, <1>2, LedgerInvariant, PTL DEF Spec

(***************************************************************************)
(* No transaction undoes a resolution or loses a recorded attempt.         *)
(***************************************************************************)
THEOREM ResolutionsAreFinal == Spec => ResolutionIsFinal
<1>1. LedgerInv /\ [Next]_vars =>
        [\A a \in Attempt :
           /\ status[a] \in Resolved => status'[a] = status[a]
           /\ status[a] # "absent" => /\ status'[a] # "absent"
                                      /\ threshold'[a] = threshold[a]]_vars
  BY DEF LedgerInv, TypeOK, Next, Resolve, CreditReceipt, SetClock, MarkFeedUnknown,
         MarkInterruptedFeedIntentsUnknown, BeginFeedAttempt, ConfirmFeedAttempt,
         ReconcileUnknownAsFed, ReconcileUnknownAsNotFed, ResolveFeedNotDispatched,
         ResolveAsFed, Unresolved, Resolved
<1>. QED
  BY <1>1, LedgerInvariant, PTL DEF Spec, ResolutionIsFinal

(***************************************************************************)
(* The latest event that shows a credit shows the ledger's credit.         *)
(***************************************************************************)
THEOREM PublishedCredit == Spec => []PublishedCreditIsCurrent
<1>1. Init => PublishedCreditIsCurrent
  BY DEF Init, PublishedCreditIsCurrent
<1>2. LedgerInv /\ PublishedCreditIsCurrent /\ [Next]_vars => PublishedCreditIsCurrent'
  <2> SUFFICES ASSUME LedgerInv, PublishedCreditIsCurrent, [Next]_vars
               PROVE  PublishedCreditIsCurrent'
    OBVIOUS
  <2>1. /\ events \in Seq(EventRow) /\ clock \in Nat /\ credit \in Int
        /\ \A a \in Attempt : threshold[a] \in Nat
    BY LedgerAssumption DEF LedgerInv, TypeOK
  <2>2. ASSUME NEW type \in EventTypes, NEW id \in Attempt \cup {NoAttempt},
               NEW amount \in Nat, NEW remaining \in Int,
               Publish(type, id, amount, remaining),
               type \in CreditEvents => credit' = remaining,
               type \notin CreditEvents => credit' = credit
        PROVE  PublishedCreditIsCurrent'
    <3>1. /\ Len(events) \in Nat
          /\ Len(events') = Len(events) + 1
          /\ \A i \in 1..Len(events) : events'[i] = events[i]
          /\ events'[Len(events) + 1].type = type
          /\ events'[Len(events) + 1].credit = remaining
      <4>1. events \in Seq(EventRow) /\ Len(events) \in Nat
        BY <2>1
      <4>2. Publish(type, id, amount, remaining)
        BY <2>2
      <4>. QED
        BY <4>1, <4>2, PublishType
    <3>2. ASSUME NEW i \in 1..Len(events'), events'[i].type \in CreditEvents,
                 \A j \in (i + 1)..Len(events') : events'[j].type \notin CreditEvents
          PROVE  events'[i].credit = credit'
      <4>1. CASE i = Len(events) + 1
        BY <2>2, <3>1, <3>2, <4>1
      <4>2. CASE i # Len(events) + 1
        <5>1. /\ i \in 1..Len(events)
              /\ Len(events) + 1 \in (i + 1)..Len(events')
              /\ \A j \in (i + 1)..Len(events) : j \in (i + 1)..Len(events') /\ j \in 1..Len(events)
          BY <3>1, <4>2
        <5>2. type \notin CreditEvents
          BY <3>1, <3>2, <5>1
        <5>3. \A j \in (i + 1)..Len(events) : events[j].type \notin CreditEvents
          BY <3>1, <3>2, <5>1
        <5>4. events'[i] = events[i]
          BY <3>1, <5>1
        <5>. QED
          BY <2>2, <3>2, <5>1, <5>2, <5>3, <5>4 DEF PublishedCreditIsCurrent
      <4>. QED
        BY <4>1, <4>2
    <3>. QED
      BY <3>2 DEF PublishedCreditIsCurrent
  <2>3. CASE events' = events /\ credit' = credit
    BY <2>3 DEF PublishedCreditIsCurrent
  <2>4. CASE \E sats \in PaymentSats : CreditReceipt(sats)
    <3>1. PICK sats \in PaymentSats : CreditReceipt(sats)
      BY <2>4
    <3>2. sats \in Nat /\ credit + sats \in Int /\ "payment_received" \in EventTypes \cap CreditEvents
      BY <2>1, LedgerAssumption DEF EventTypes, CreditEvents
    <3>3. /\ Publish("payment_received", NoAttempt, sats, credit + sats)
          /\ credit' = credit + sats
      BY <3>1 DEF CreditReceipt
    <3>. QED
      BY <2>2, <3>2, <3>3
  <2>5. CASE MarkInterruptedFeedIntentsUnknown
    BY <2>1, <2>2, <2>5 DEF MarkInterruptedFeedIntentsUnknown, EventTypes, CreditEvents
  <2>6. CASE \E a \in Attempt : MarkFeedUnknown(a)
    BY <2>1, <2>2, <2>6 DEF MarkFeedUnknown, EventTypes, CreditEvents
  <2>7. CASE \E a \in Attempt : ResolveAsFed(a, "intent_committed") \/ ResolveAsFed(a, "unknown")
    <3>1. PICK a \in Attempt : /\ Publish("feeder_confirmed", a, threshold[a], credit - threshold[a])
                               /\ credit' = credit - threshold[a]
      BY <2>7 DEF ResolveAsFed
    <3>2. threshold[a] \in Nat /\ credit - threshold[a] \in Int
      BY <2>1
    <3>. QED
      BY <2>2, <3>1, <3>2 DEF EventTypes, CreditEvents
  <2>8. CASE \E a \in Attempt : ReconcileUnknownAsNotFed(a)
    BY <2>1, <2>2, <2>8 DEF ReconcileUnknownAsNotFed, EventTypes, CreditEvents
  <2>9. CASE \E a \in Attempt, retry \in RetrySeconds : ResolveFeedNotDispatched(a, retry)
    <3>1. PICK a \in Attempt, retry \in RetrySeconds : ResolveFeedNotDispatched(a, retry)
      BY <2>9
    <3>2. clock + retry \in Nat
      BY <2>1, LedgerAssumption
    <3>3. /\ Publish("feeder_not_dispatched", a, clock + retry, credit)
          /\ credit' = credit
      BY <3>1 DEF ResolveFeedNotDispatched
    <3>. QED
      BY <2>1, <2>2, <3>2, <3>3 DEF EventTypes, CreditEvents
  <2>. QED
    BY <2>3, <2>4, <2>5, <2>6, <2>7, <2>8, <2>9
    DEF Next, Resolve, ConfirmFeedAttempt, ReconcileUnknownAsFed, BeginFeedAttempt,
        SetClock, vars
<1>. QED
  BY <1>1, <1>2, LedgerInvariant, PTL DEF Spec

-----------------------------------------------------------------------------
(***************************************************************************)
(* The feed ledger implements FeedRuntime for every set of thresholds and  *)
(* attempts and every sequence of transactions.                            *)
(***************************************************************************)

\* An unresolved attempt is priced at a threshold that was configured.
Priced == \A a \in UnresolvedAttempts : threshold[a] \in ThresholdSats

\* begin_feed_attempt stores the configured threshold, which no one rewrites.
THEOREM AttemptsPriced == Spec => []Priced
<1>1. Init => Priced
  BY DEF Init, Priced, UnresolvedAttempts, Unresolved
<1>2. LedgerInv /\ Priced /\ [Next]_vars => Priced'
  BY DEF LedgerInv, TypeOK, Priced, UnresolvedAttempts, Unresolved, Next, vars,
      Resolve, CreditReceipt, SetClock, MarkFeedUnknown, BeginFeedAttempt,
      MarkInterruptedFeedIntentsUnknown, ConfirmFeedAttempt, ReconcileUnknownAsFed,
      ReconcileUnknownAsNotFed, ResolveFeedNotDispatched, ResolveAsFed
<1>. QED
  BY <1>1, <1>2, LedgerInvariant, PTL DEF Spec

\* The mapped attempt, when a is the unresolved one.
LEMMA ActiveIs ==
  ASSUME NEW a \in Attempt, UnresolvedAttempts = {a}
  PROVE  ActiveAttempt = Runtime!Active(a, status[a], threshold[a])
BY DEF ActiveAttempt, Runtime!Active

LEMMA ActiveIsPrimed ==
  ASSUME NEW a \in Attempt, UnresolvedAttempts' = {a}
  PROVE  ActiveAttempt' = Runtime!Active(a, status'[a], threshold'[a])
BY DEF ActiveAttempt, Runtime!Active

LEMMA NoneActivePrimed ==
  ASSUME UnresolvedAttempts' = {}
  PROVE  ActiveAttempt' = NoAttempt
BY DEF ActiveAttempt

\* Under the invariant, an unresolved attempt is the only one.
LEMMA TheUnresolved ==
  ASSUME LedgerInv, NEW a \in Attempt, status[a] \in Unresolved
  PROVE  UnresolvedAttempts = {a}
BY DEF LedgerInv, Accounting, SingleUnresolved, UnresolvedAttempts

\* resolve_as_fed is the abstract debit.
LEMMA ResolveAsFedRefines ==
  ASSUME LedgerInv, NEW a \in Attempt,
         NEW expected \in Unresolved, ResolveAsFed(a, expected)
  PROVE  /\ Runtime!RequireAttempt(a, expected, threshold[a])
         /\ Runtime!DebitConfirmedFeed(threshold[a])
<1>1. status[a] \in Unresolved /\ status[a] = expected
  BY DEF ResolveAsFed
<1>2. UnresolvedAttempts = {a}
  BY <1>1, TheUnresolved
<1>3. ActiveAttempt = Runtime!Active(a, expected, threshold[a])
  BY <1>1, <1>2, ActiveIs
<1>4. UnresolvedAttempts' = {}
  BY <1>1, ResolvingEmpties DEF ResolveAsFed, Resolved
<1>5. ActiveAttempt' = NoAttempt
  BY <1>4, NoneActivePrimed
<1>. QED
  BY <1>2, <1>3, <1>5
  DEF ResolveAsFed, Runtime!RequireAttempt, Runtime!DebitConfirmedFeed

\* Releasing an attempt is an abstract release from either status.
LEMMA ReleaseRefines ==
  ASSUME LedgerInv, NEW a \in Attempt, status[a] \in Unresolved,
         status' = [status EXCEPT ![a] = "reconciled_not_fed"], credit' = credit
  PROVE  \/ Runtime!ReconcileUnknownAsNotFed(a, threshold[a])
         \/ Runtime!ReleaseIntent(a, threshold[a])
<1>1. ActiveAttempt = Runtime!Active(a, status[a], threshold[a])
  BY TheUnresolved, ActiveIs
<1>2. UnresolvedAttempts' = {}
  BY ResolvingEmpties DEF Resolved
<1>3. ActiveAttempt' = NoAttempt
  BY <1>2, NoneActivePrimed
<1>. QED
  BY <1>1, <1>3
  DEF Unresolved, Runtime!ReconcileUnknownAsNotFed, Runtime!ReleaseIntent,
      Runtime!RequireAttempt

\* Marking the intent unknown is the abstract mark.
LEMMA MarkRefines ==
  ASSUME LedgerInv, NEW a \in Attempt, status[a] = "intent_committed",
         UnresolvedAttempts' = {a}, status'[a] = "unknown",
         threshold' = threshold, credit' = credit
  PROVE  Runtime!MarkFeedUnknown(a, threshold[a])
<1>1. ActiveAttempt = Runtime!Active(a, "intent_committed", threshold[a])
  BY TheUnresolved, ActiveIs DEF Unresolved
<1>2. ActiveAttempt' = Runtime!Active(a, "unknown", threshold[a])
  BY ActiveIsPrimed
<1>. QED
  BY <1>1, <1>2 DEF Runtime!MarkFeedUnknown, Runtime!RequireAttempt

\* A transaction that touches no attempt leaves the mapped attempt alone.
LEMMA SameActive ==
  ASSUME status' = status, threshold' = threshold
  PROVE  ActiveAttempt' = ActiveAttempt
BY DEF ActiveAttempt, UnresolvedAttempts

\* Every ledger step is a FeedRuntime step or stutter.
LEMMA StepRefines ==
  ASSUME LedgerInv, Priced, [Next]_vars
  PROVE  [Runtime!Next]_(Runtime!vars)
<1>1. CASE \E sats \in PaymentSats : CreditReceipt(sats)
  BY <1>1, SameActive DEF CreditReceipt, Runtime!Next, Runtime!Credit
<1>2. CASE MarkInterruptedFeedIntentsUnknown
  <2>1. PICK a \in Attempt : status[a] = "intent_committed"
    BY <1>2 DEF MarkInterruptedFeedIntentsUnknown
  <2>2. UnresolvedAttempts = {a}
    BY <2>1, TheUnresolved DEF Unresolved
  <2>3. /\ UnresolvedAttempts' = UnresolvedAttempts
        /\ status'[a] = "unknown" /\ threshold' = threshold /\ credit' = credit
    BY <1>2, <2>1
    DEF MarkInterruptedFeedIntentsUnknown, UnresolvedAttempts, Unresolved
  <2>4. threshold[a] \in ThresholdSats
    BY <2>2 DEF Priced
  <2>. QED
    BY <2>1, <2>2, <2>3, <2>4, MarkRefines DEF Runtime!Next
<1>3. CASE \E a \in Attempt, t \in ThresholdSats : BeginFeedAttempt(a, t)
  <2>1. PICK a \in Attempt, t \in ThresholdSats : BeginFeedAttempt(a, t)
    BY <1>3
  <2>2. ActiveAttempt = NoAttempt
    BY <2>1 DEF BeginFeedAttempt, ActiveAttempt
  <2>3. /\ UnresolvedAttempts' = {a}
        /\ status'[a] = "intent_committed" /\ threshold'[a] = t
    BY <2>1 DEF BeginFeedAttempt, UnresolvedAttempts, Unresolved, LedgerInv, TypeOK
  <2>4. ActiveAttempt' = Runtime!Active(a, "intent_committed", t)
    BY <2>3, ActiveIsPrimed
  <2>. QED
    BY <2>1, <2>2, <2>4 DEF BeginFeedAttempt, Runtime!Next, Runtime!BeginNextFeed
<1>4. CASE \E a \in Attempt : MarkFeedUnknown(a)
  <2>1. PICK a \in Attempt : MarkFeedUnknown(a)
    BY <1>4
  <2>2. UnresolvedAttempts = {a}
    BY <2>1, TheUnresolved DEF MarkFeedUnknown, Unresolved
  <2>3. UnresolvedAttempts' = {a} /\ status'[a] = "unknown"
    BY <2>1, <2>2 DEF MarkFeedUnknown, UnresolvedAttempts, Unresolved, LedgerInv, TypeOK
  <2>4. threshold[a] \in ThresholdSats
    BY <2>2 DEF Priced
  <2>. QED
    BY <2>1, <2>3, <2>4, MarkRefines DEF MarkFeedUnknown, Runtime!Next
<1>5. CASE \E a \in Attempt : Resolve(a)
  <2>1. PICK a \in Attempt : Resolve(a)
    BY <1>5
  <2>p. threshold[a] \in ThresholdSats
    BY <2>1
    DEF Priced, UnresolvedAttempts, Unresolved, Resolve, ConfirmFeedAttempt,
        ReconcileUnknownAsFed, ResolveAsFed, ReconcileUnknownAsNotFed,
        ResolveFeedNotDispatched
  <2>2. CASE ConfirmFeedAttempt(a)
    BY <2>2, <2>p, ResolveAsFedRefines
    DEF ConfirmFeedAttempt, Unresolved, Runtime!Next, Runtime!ConfirmFeed
  <2>3. CASE ReconcileUnknownAsFed(a)
    BY <2>3, <2>p, ResolveAsFedRefines
    DEF ReconcileUnknownAsFed, Unresolved, Runtime!Next, Runtime!ReconcileUnknownAsFed
  <2>4. CASE ReconcileUnknownAsNotFed(a) \/ \E retry \in RetrySeconds : ResolveFeedNotDispatched(a, retry)
    BY <2>4, <2>p, ReleaseRefines
    DEF ReconcileUnknownAsNotFed, ResolveFeedNotDispatched, Unresolved, Runtime!Next
  <2>. QED
    BY <2>1, <2>2, <2>3, <2>4 DEF Resolve
<1>6. CASE (\E t \in 0..MaxClock : SetClock(t)) \/ UNCHANGED vars
  BY <1>6, SameActive DEF SetClock, vars, Runtime!vars
<1>. QED
  BY <1>1, <1>2, <1>3, <1>4, <1>5, <1>6 DEF Next

(***************************************************************************)
(* The SQLite ledger of src/ledger/feed.rs implements the FeedRuntime of   *)
(* src/domain/feed.rs.                                                     *)
(***************************************************************************)
THEOREM LedgerImplementsFeedRuntime == Spec => ImplementsFeedRuntime
<1>1. Init => Runtime!Init
  BY DEF Init, Runtime!Init, ActiveAttempt, UnresolvedAttempts, Unresolved
<1>2. LedgerInv /\ Priced /\ [Next]_vars => [Runtime!Next]_(Runtime!vars)
  BY StepRefines
<1>. QED
  BY <1>1, <1>2, LedgerInvariant, AttemptsPriced, PTL
  DEF Spec, ImplementsFeedRuntime, Runtime!Spec
=============================================================================
