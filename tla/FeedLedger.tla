------------------------------ MODULE FeedLedger ------------------------------
(***************************************************************************)
(* The daemon's durable feed accounting: the SQLite tables ledger_entries, *)
(* feed_attempts, feeder_cooldown and event_log as the transactions of     *)
(* src/ledger/feed.rs change them.  Each action is one committed           *)
(* transaction; a transaction that bails or is rolled back changes nothing *)
(* and is the absence of the action.  Callers (the feed worker, the        *)
(* operator's lightning-goatsctl, a daemon that starts, a second daemon on *)
(* the same file, the settlement code) may run them in any order, so this  *)
(* module says what the ledger guarantees whoever calls it.                *)
(***************************************************************************)
EXTENDS Integers, Sequences

CONSTANTS
  Attempt,         \* feed attempt UUIDs
  NoAttempt,       \* the missing feed_attempt_id of an event row
  ThresholdSats,   \* thresholds the configuration may hold, across restarts
  PaymentSats,     \* credited sizes of settled payments
  RetrySeconds,    \* retry_after_seconds of a gateway refusal
  MaxSats,         \* largest sum the credit column type can hold (i64::MAX)
  MaxClock         \* bound on the wall clock

ASSUME LedgerAssumption ==
  /\ NoAttempt \notin Attempt
  /\ ThresholdSats \subseteq Nat \ {0}   \* threshold_sats = 0 is refused
  /\ PaymentSats \subseteq Nat \ {0}     \* amount_msat = 0 is refused
  /\ RetrySeconds \subseteq Nat \ {0}    \* 1..86400; the upper bound is not needed
  /\ MaxSats \in Nat
  /\ MaxClock \in Nat

VARIABLES
  status,       \* feed_attempts.status by id; "absent" while no row exists
  threshold,    \* feed_attempts.threshold_sats, stored when the row is made
  credit,       \* SUM(delta_sats) over ledger_entries
  debited,      \* ids with a FEED_DEBIT row (source_key feed:<id> is UNIQUE)
  resumeAfter,  \* feeder_cooldown.resume_after
  clock,        \* unixepoch() on the daemon's host
  events        \* event_log in seq order

vars == <<status, threshold, credit, debited, resumeAfter, clock, events>>

Unresolved == {"intent_committed", "unknown"}
Resolved == {"confirmed", "reconciled_not_fed"}
Statuses == {"absent"} \cup Unresolved \cup Resolved

EventTypes == {"payment_received", "processing_error", "feeder_confirmed",
               "feed_reconciled_not_fed", "feeder_not_dispatched"}

(***************************************************************************)
(* One event_log row.  credit is the feed_credit_sats of the payload;      *)
(* amount is the payload's sats moved, and for feeder_not_dispatched the   *)
(* instant created_at + retry_after_seconds that the refusal names.        *)
(***************************************************************************)
EventRow == [type : EventTypes, id : Attempt \cup {NoAttempt},
             amount : Nat, credit : Int]

Event(type, id, amount, remaining) ==
  [type |-> type, id |-> id, amount |-> amount, credit |-> remaining]

Publish(type, id, amount, remaining) ==
  events' = Append(events, Event(type, id, amount, remaining))

Later(s, t) == IF s < t THEN t ELSE s

UnresolvedAttempts == {a \in Attempt : status[a] \in Unresolved}

-----------------------------------------------------------------------------
Init ==
  /\ status = [a \in Attempt |-> "absent"]
  /\ threshold = [a \in Attempt |-> 0]
  /\ credit = 0
  /\ debited = {}
  /\ resumeAfter = 0
  /\ clock \in 0..MaxClock
  /\ events = <<>>

(***************************************************************************)
(* A settlement adds its receipt and its event in one transaction.  A sum  *)
(* that leaves the integer range fails the statement, and the transaction. *)
(***************************************************************************)
CreditReceipt(sats) ==
  /\ credit + sats <= MaxSats
  /\ credit' = credit + sats
  /\ Publish("payment_received", NoAttempt, sats, credit + sats)
  /\ UNCHANGED <<status, threshold, debited, resumeAfter, clock>>

\* A starting daemon: every intent_committed row becomes unknown, with one event.
MarkInterruptedFeedIntentsUnknown ==
  /\ \E a \in Attempt : status[a] = "intent_committed"
  /\ status' = [a \in Attempt |->
                  IF status[a] = "intent_committed" THEN "unknown" ELSE status[a]]
  /\ Publish("processing_error", NoAttempt, 0, credit)
  /\ UNCHANGED <<threshold, credit, debited, resumeAfter, clock>>

\* Mutants: operators named Mutant... are plausible bugs of the action they
\* precede.  Nothing here uses them; each breaks a property below.
MutantBeginUnderUnresolved(a, t) ==
  /\ status[a] = "absent"
  /\ resumeAfter <= clock
  /\ credit >= t
  /\ status' = [status EXCEPT ![a] = "intent_committed"]
  /\ threshold' = [threshold EXCEPT ![a] = t]
  /\ UNCHANGED <<credit, debited, resumeAfter, clock, events>>

MutantBeginOffByOne(a, t) ==
  /\ status[a] = "absent"
  /\ UnresolvedAttempts = {}
  /\ resumeAfter <= clock
  /\ credit + 1 >= t
  /\ status' = [status EXCEPT ![a] = "intent_committed"]
  /\ threshold' = [threshold EXCEPT ![a] = t]
  /\ UNCHANGED <<credit, debited, resumeAfter, clock, events>>

MutantBeginDebiting(a, t) ==
  /\ status[a] = "absent"
  /\ UnresolvedAttempts = {}
  /\ resumeAfter <= clock
  /\ credit >= t
  /\ status' = [status EXCEPT ![a] = "intent_committed"]
  /\ threshold' = [threshold EXCEPT ![a] = t]
  /\ credit' = credit - t
  /\ UNCHANGED <<debited, resumeAfter, clock, events>>

\* a is the fresh UUID; t the configured threshold of the calling daemon.
BeginFeedAttempt(a, t) ==
  /\ status[a] = "absent"
  /\ UnresolvedAttempts = {}
  /\ resumeAfter <= clock
  /\ credit >= t
  /\ status' = [status EXCEPT ![a] = "intent_committed"]
  /\ threshold' = [threshold EXCEPT ![a] = t]
  /\ UNCHANGED <<credit, debited, resumeAfter, clock, events>>

MarkFeedUnknown(a) ==
  /\ status[a] = "intent_committed"
  /\ status' = [status EXCEPT ![a] = "unknown"]
  /\ Publish("processing_error", a, 0, credit)
  /\ UNCHANGED <<threshold, credit, debited, resumeAfter, clock>>

MutantResolveStaleCredit(a, expected) ==
  /\ status[a] = expected
  /\ credit >= threshold[a]
  /\ a \notin debited
  /\ status' = [status EXCEPT ![a] = "confirmed"]
  /\ debited' = debited \cup {a}
  /\ credit' = credit - threshold[a]
  /\ Publish("feeder_confirmed", a, threshold[a], credit)
  /\ UNCHANGED <<threshold, resumeAfter, clock>>

\* The bail of feed.rs "ledger invariant violated" is the second conjunct, the
\* UNIQUE source_key the third: UnresolvedIsPayable says neither ever refuses.
ResolveAsFed(a, expected) ==
  /\ status[a] = expected
  /\ credit >= threshold[a]
  /\ a \notin debited
  /\ status' = [status EXCEPT ![a] = "confirmed"]
  /\ debited' = debited \cup {a}
  /\ credit' = credit - threshold[a]
  /\ Publish("feeder_confirmed", a, threshold[a], credit - threshold[a])
  /\ UNCHANGED <<threshold, resumeAfter, clock>>

ConfirmFeedAttempt(a) == ResolveAsFed(a, "intent_committed")

ReconcileUnknownAsFed(a) == ResolveAsFed(a, "unknown")

MutantNotFedAlsoConfirmed(a) ==
  /\ status[a] \in {"unknown", "confirmed"}
  /\ status' = [status EXCEPT ![a] = "reconciled_not_fed"]
  /\ Publish("feed_reconciled_not_fed", a, 0, credit)
  /\ UNCHANGED <<threshold, credit, debited, resumeAfter, clock>>

ReconcileUnknownAsNotFed(a) ==
  /\ status[a] = "unknown"
  /\ status' = [status EXCEPT ![a] = "reconciled_not_fed"]
  /\ Publish("feed_reconciled_not_fed", a, 0, credit)
  /\ UNCHANGED <<threshold, credit, debited, resumeAfter, clock>>

MutantCooldownOverwritten(a, retry) ==
  /\ status[a] \in Unresolved
  /\ status' = [status EXCEPT ![a] = "reconciled_not_fed"]
  /\ resumeAfter' = clock + retry
  /\ Publish("feeder_not_dispatched", a, clock + retry, credit)
  /\ UNCHANGED <<threshold, credit, debited, clock>>

ResolveFeedNotDispatched(a, retry) ==
  /\ status[a] \in Unresolved
  /\ status' = [status EXCEPT ![a] = "reconciled_not_fed"]
  /\ resumeAfter' = Later(resumeAfter, clock + retry)
  /\ Publish("feeder_not_dispatched", a, clock + retry, credit)
  /\ UNCHANGED <<threshold, credit, debited, clock>>

\* The wall clock moves, and may be stepped back by time synchronisation.
SetClock(t) ==
  /\ clock' = t
  /\ UNCHANGED <<status, threshold, credit, debited, resumeAfter, events>>

Resolve(a) ==
  \/ ConfirmFeedAttempt(a)
  \/ ReconcileUnknownAsFed(a)
  \/ ReconcileUnknownAsNotFed(a)
  \/ \E retry \in RetrySeconds : ResolveFeedNotDispatched(a, retry)

Next ==
  \/ \E sats \in PaymentSats : CreditReceipt(sats)
  \/ MarkInterruptedFeedIntentsUnknown
  \/ \E a \in Attempt, t \in ThresholdSats : BeginFeedAttempt(a, t)
  \/ \E a \in Attempt : MarkFeedUnknown(a)
  \/ \E a \in Attempt : Resolve(a)
  \/ \E t \in 0..MaxClock : SetClock(t)

Spec == Init /\ [][Next]_vars
-----------------------------------------------------------------------------
(***************************************************************************)
(* The ledger's tables hold values of their column types.  (Type invariant *)
(* of every transaction of src/ledger/feed.rs.)                            *)
(***************************************************************************)
TypeOK ==
  /\ status \in [Attempt -> Statuses]
  /\ threshold \in [Attempt -> Nat]
  /\ credit \in 0..MaxSats
  /\ debited \subseteq Attempt
  /\ resumeAfter \in Nat
  /\ clock \in Nat
  /\ events \in Seq(EventRow)

(***************************************************************************)
(* At most one attempt is unresolved: the unique partial index             *)
(* one_unresolved_feed_attempt never rejects an insert, since              *)
(* begin_feed_attempt has already looked.                                  *)
(***************************************************************************)
SingleUnresolved ==
  \A a, b \in UnresolvedAttempts : a = b

(***************************************************************************)
(* An unresolved attempt can always be paid for: no sequence of receipts,  *)
(* restarts with another configured threshold, refusals and resolutions    *)
(* makes resolve_as_fed bail with "ledger invariant violated" or hit the   *)
(* UNIQUE source_key feed:<id> (src/ledger/feed.rs).                       *)
(***************************************************************************)
ResolvableAttempts ==
  \A a \in UnresolvedAttempts : credit >= threshold[a] /\ a \notin debited

(***************************************************************************)
(* Both: the one attempt that may be under way can be paid for, whenever   *)
(* and by whomever it is resolved.                                         *)
(***************************************************************************)
UnresolvedIsPayable == SingleUnresolved /\ ResolvableAttempts

(***************************************************************************)
(* A confirmed attempt has its one debit, and nothing else has one: status *)
(* and FEED_DEBIT row are committed together by resolve_as_fed.            *)
(***************************************************************************)
DebitedExactlyConfirmed ==
  debited = {a \in Attempt : status[a] = "confirmed"}

(***************************************************************************)
(* The cooldown row covers every refusal recorded so far, also after the   *)
(* clock was stepped back: resolve_feed_not_dispatched takes a MAX, so a   *)
(* short refusal never shortens the wait a longer one asked for.           *)
(***************************************************************************)
CooldownCoversRefusals ==
  \A i \in 1..Len(events) :
    events[i].type = "feeder_not_dispatched" => resumeAfter >= events[i].amount

(***************************************************************************)
(* The credit a reader of the event log sees is the credit of the ledger:  *)
(* the latest event that carries feed_credit_sats carries the current sum. *)
(* The overlay and the public messages show that number.                   *)
(***************************************************************************)
CreditEvents == {"payment_received", "feeder_confirmed", "feed_reconciled_not_fed"}

PublishedCreditIsCurrent ==
  \A i \in 1..Len(events) :
    ( /\ events[i].type \in CreditEvents
      /\ \A j \in (i + 1)..Len(events) : events[j].type \notin CreditEvents )
    => events[i].credit = credit

(***************************************************************************)
(* A resolution is final: no transaction reopens, re-prices or removes a   *)
(* resolved attempt, and an attempt once recorded never disappears.        *)
(***************************************************************************)
ResolutionIsFinal ==
  [][\A a \in Attempt :
       /\ status[a] \in Resolved => status'[a] = status[a]
       /\ status[a] # "absent" => /\ status'[a] # "absent"
                                  /\ threshold'[a] = threshold[a]]_vars

=============================================================================
