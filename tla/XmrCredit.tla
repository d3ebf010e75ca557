------------------------------ MODULE XmrCredit ------------------------------
(***************************************************************************)
(* Credit for payments in monero: the tables credit_valuations,            *)
(* asset_receipts, credit_grants and credit_allocations as the             *)
(* transactions of src/ledger/credit.rs change them.  A wallet reconciler  *)
(* reports receipts of an intent one at a time, in any order, again and    *)
(* again, and not always the same way twice; an intent whose evidence      *)
(* contradicts itself is held for ever.  Each action is one BEGIN          *)
(* IMMEDIATE transaction.  The hold AllocationMismatch is left out: no     *)
(* sequence of these transactions leads to a row that fails its test.      *)
(***************************************************************************)
EXTENDS Integers, FiniteSetsExt

CONSTANTS
  Intent,      \* UUIDs of credit intents
  Key,         \* receipt keys the provider reports
  Missing,     \* a row that does not exist
  Quotes,      \* terms an intent may be registered with
  Amounts,     \* atomic units of a reported receipt
  SeenTimes,   \* first_seen_at of a reported receipt
  MaxUnits,    \* MAX_ACCOUNTING_UNITS
  MaxOther     \* bound on credit from native payments and on debits

Holds == {"receipt_conflict", "finality_regression", "double_spend",
          "credit_limit", "provider_inconsistency"}

(* What the reconciler says of one receipt. *)
Observation == [amount : Amounts, seen : SeenTimes, unlocked : BOOLEAN,
                double : BOOLEAN]
Receipt == [amount : Amounts, seen : SeenTimes, unlocked : BOOLEAN,
            eligible : BOOLEAN]

ASSUME XmrAssumption ==
  /\ Quotes \subseteq [expected : Nat \ {0}, target : Nat \ {0}, limit : Nat,
                       issued : Nat, expires : Nat]
  /\ \A q \in Quotes : q.target <= q.limit /\ q.limit <= MaxUnits
                       /\ q.issued < q.expires
  /\ Amounts \subseteq Nat \ {0}
  /\ SeenTimes \subseteq Nat
  /\ MaxUnits \in Nat /\ MaxOther \in Nat
  /\ Missing \notin Quotes \cup Receipt \cup Holds

VARIABLES
  terms,      \* credit_valuations: the immutable terms of an intent
  receipts,   \* asset_receipts of an intent, by receipt key
  granted,    \* credit_grants: the keys whose receipt was granted
  eligible,   \* credit_allocations.eligible_atomic
  credited,   \* credit_allocations.credited_sats
  hold,       \* credit_allocations.hold_reason
  paid,       \* sum of the ledger entries written for an intent's receipts
  other       \* sum of the other ledger entries: native payments less feeds

creditVars == <<terms, receipts, granted, eligible, credited, hold, paid, other>>

Registered == {i \in Intent : terms[i] # Missing}
FeedCredit == other + MapThenSumSet(LAMBDA i : paid[i], Intent)

(* The credit a total of eligible units is worth: rounded down, once. *)
CumulativeSats(q, units) == (units * q.target) \div q.expected

Timely(q, seen) == q.issued <= seen /\ seen < q.expires

-----------------------------------------------------------------------------
CreditInit ==
  /\ terms = [i \in Intent |-> Missing]
  /\ receipts = [i \in Intent |-> [k \in Key |-> Missing]]
  /\ granted = [i \in Intent |-> {}]
  /\ eligible = [i \in Intent |-> 0]
  /\ credited = [i \in Intent |-> 0]
  /\ hold = [i \in Intent |-> Missing]
  /\ paid = [i \in Intent |-> 0]
  /\ other = 0

(* Registering an intent again changes nothing, whatever the terms. *)
RegisterXmrCreditIntent(i, q) ==
  /\ terms[i] = Missing
  /\ terms' = [terms EXCEPT ![i] = q]
  /\ UNCHANGED <<receipts, granted, eligible, credited, hold, paid, other>>

(* COALESCE(hold_reason, ?): the first reason stays. *)
HoldFor(i, reason) == IF hold[i] = Missing THEN reason ELSE hold[i]

Unchanging(row, o) == row.amount = o.amount /\ row.seen = o.seen
Regressing(row, o) == row.unlocked /\ ~o.unlocked

(* A report at odds with the saved row holds the intent; the row stays. *)
Contradicts(i, k, o) ==
  /\ receipts[i][k] # Missing
  /\ ~Unchanging(receipts[i][k], o) \/ Regressing(receipts[i][k], o) \/ o.double

ConflictReason(row, o) ==
  CASE ~Unchanging(row, o) -> "receipt_conflict"
    [] Unchanging(row, o) /\ Regressing(row, o) -> "finality_regression"
    [] OTHER -> "double_spend"

ReportConflict(i, k, o) ==
  /\ Contradicts(i, k, o)
  /\ hold' = [hold EXCEPT ![i] = HoldFor(i, ConflictReason(receipts[i][k], o))]
  /\ UNCHANGED <<terms, receipts, granted, eligible, credited, paid, other>>

(* The row a report leaves: new, or the saved one, perhaps now unlocked. *)
Saved(i, k, o) ==
  IF receipts[i][k] = Missing
    THEN [amount |-> o.amount, seen |-> o.seen, unlocked |-> o.unlocked,
          eligible |-> Timely(terms[i], o.seen) /\ ~o.double]
    ELSE [receipts[i][k] EXCEPT !.unlocked = @ \/ o.unlocked]

SaveReceipt(i, k, o) == receipts' = [receipts EXCEPT ![i][k] = Saved(i, k, o)]

\* Mutant: a hold is not looked at before a grant.
MutantGrantsWhenHeld(i, k, o) ==
  /\ ~o.double /\ Timely(terms[i], o.seen) /\ o.unlocked
  /\ k \notin granted[i]

(* Only a timely, unlocked receipt of an intent without a hold is granted. *)
Grantable(i, k, o) ==
  /\ hold[i] = Missing /\ ~o.double
  /\ Timely(terms[i], o.seen)
  /\ o.unlocked
  /\ k \notin granted[i]

\* Mutant: every receipt is valued on its own, so that dust is lost.
MutantEachRoundedDown(i, o) == credited[i] + CumulativeSats(terms[i], o.amount)

(* Credit for the units granted so far and this receipt's together. *)
NewCredit(i, o) == CumulativeSats(terms[i], eligible[i] + o.amount)
Delta(i, o) == NewCredit(i, o) - credited[i]

WithinLimits(i, o) ==
  /\ eligible[i] + o.amount <= MaxUnits
  /\ NewCredit(i, o) <= terms[i].limit
  /\ FeedCredit + Delta(i, o) <= MaxUnits

(* Late, locked, doubtful and already granted receipts are only recorded. *)
ReportRecorded(i, k, o) ==
  /\ ~Contradicts(i, k, o)
  /\ ~Grantable(i, k, o)
  /\ SaveReceipt(i, k, o)
  /\ hold' = IF o.double THEN [hold EXCEPT ![i] = HoldFor(i, "double_spend")]
                         ELSE hold
  /\ UNCHANGED <<terms, granted, eligible, credited, paid, other>>

ReportOverLimit(i, k, o) ==
  /\ ~Contradicts(i, k, o)
  /\ Grantable(i, k, o) /\ ~WithinLimits(i, o)
  /\ SaveReceipt(i, k, o)
  /\ hold' = [hold EXCEPT ![i] = HoldFor(i, "credit_limit")]
  /\ UNCHANGED <<terms, granted, eligible, credited, paid, other>>

(* A grant of zero sats still moves the eligible total. *)
ReportGranted(i, k, o) ==
  /\ ~Contradicts(i, k, o)
  /\ Grantable(i, k, o) /\ WithinLimits(i, o)
  /\ SaveReceipt(i, k, o)
  /\ granted' = [granted EXCEPT ![i] = @ \cup {k}]
  /\ eligible' = [eligible EXCEPT ![i] = @ + o.amount]
  /\ credited' = [credited EXCEPT ![i] = NewCredit(i, o)]
  /\ paid' = [paid EXCEPT ![i] = @ + Delta(i, o)]
  /\ UNCHANGED <<terms, hold, other>>

RecordXmrReceipt(i, k, o) ==
  /\ terms[i] # Missing
  /\ \/ ReportConflict(i, k, o)
     \/ ReportRecorded(i, k, o)
     \/ ReportOverLimit(i, k, o)
     \/ ReportGranted(i, k, o)

HoldXmrCreditIntent(i) ==
  /\ terms[i] # Missing
  /\ hold' = [hold EXCEPT ![i] = HoldFor(i, "provider_inconsistency")]
  /\ UNCHANGED <<terms, receipts, granted, eligible, credited, paid, other>>

(* Native bitcoin payments and feeds move the same feed credit. *)
MoveFeedCredit ==
  /\ \E n \in -MaxOther..MaxOther :
       /\ other' = n
       /\ other' - other + FeedCredit \in 0..MaxUnits
  /\ UNCHANGED <<terms, receipts, granted, eligible, credited, hold, paid>>

ReceiptNext ==
  \/ \E i \in Intent, k \in Key, o \in Observation : RecordXmrReceipt(i, k, o)
  \/ \E i \in Intent : HoldXmrCreditIntent(i)
  \/ MoveFeedCredit

CreditNext ==
  \/ \E i \in Intent, q \in Quotes : RegisterXmrCreditIntent(i, q)
  \/ ReceiptNext

CreditSpec == CreditInit /\ [][CreditNext]_creditVars

-----------------------------------------------------------------------------
Good(i) == {k \in Key : /\ receipts[i][k] # Missing
                        /\ receipts[i][k].unlocked
                        /\ Timely(terms[i], receipts[i][k].seen)}
Units(i, S) == MapThenSumSet(LAMBDA k : receipts[i][k].amount, S)

(***************************************************************************)
(* The credit of an intent is decided by its evidence alone, not by the    *)
(* order or the number of reports (record_xmr_receipt): it is the whole of *)
(* the granted receipts valued at once, so that no dust is lost or paid    *)
(* twice; only timely and unlocked receipts are granted; without a hold    *)
(* all of them are; the ledger holds exactly that credit, within the limit.*)
(***************************************************************************)
EvidenceDecidesCredit ==
  \A i \in Registered :
    /\ granted[i] \subseteq Good(i)
    /\ hold[i] = Missing => granted[i] = Good(i)
    /\ credited[i] = CumulativeSats(terms[i], Units(i, granted[i]))
    /\ paid[i] = credited[i]
    /\ credited[i] <= terms[i].limit

(***************************************************************************)
(* A held intent is held for its first reason and for ever, and nothing is *)
(* granted to it any more (hold_observation, hold_xmr_credit_intent).      *)
(***************************************************************************)
HoldStopsCredit ==
  [][\A i \in Intent : hold[i] # Missing =>
       /\ hold'[i] = hold[i]
       /\ granted'[i] = granted[i] /\ paid'[i] = paid[i]]_creditVars
=============================================================================
