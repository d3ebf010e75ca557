------------------------------ MODULE XmrPayment ------------------------------
(***************************************************************************)
(* A payment in monero from its quote to its credit: XmrQuote composed     *)
(* with XmrCredit.  Binding a quote to a receive address registers the     *)
(* intent its receipts are credited under, with the quote's own terms, in  *)
(* one transaction (bind_xmr_quote, credit_intent); the two share nothing  *)
(* else but the database.                                                  *)
(***************************************************************************)
EXTENDS XmrQuote, XmrCredit

CONSTANT MaxCredit   \* policy.max_credit_sats

\* credit_intent: the terms a bound quote is credited under.
TermsOf(q) ==
  [expected |-> Expected(q.rate), target |-> Target, limit |-> MaxCredit,
   issued |-> q.issued, expires |-> Expires(q)]

ASSUME PaymentAssumption ==
  /\ MaxCredit \in Nat /\ Target <= MaxCredit /\ MaxCredit <= MaxUnits
  /\ Intent = Id
  /\ \A rate \in Rate, t \in 0..MaxTime :
       TermsOf([rate |-> rate, observed |-> t, issued |-> t]) \in Quotes

payment == <<vars, creditVars>>

PaymentInit == Init /\ CreditInit

\* A step of the quote service; the one that binds a quote registers it.
QuoteStep ==
  /\ Next
  /\ IF binding' = binding THEN UNCHANGED creditVars
     ELSE \E i \in Id : /\ binding'[i] # binding[i]
                        /\ RegisterXmrCreditIntent(i, TermsOf(requests[i].quote))

CreditStep == ReceiptNext /\ UNCHANGED vars

PaymentNext == QuoteStep \/ CreditStep

PaymentSpec == PaymentInit /\ [][PaymentNext]_payment
-----------------------------------------------------------------------------
(***************************************************************************)
(* What a quote promises, end to end: who pays the quoted amount, seen     *)
(* before the quote expires, and by now unlocked, is credited the target,  *)
(* unless the intent is held; and no one is credited more than the         *)
(* receipts granted are worth at the quote's rate, nor for a receipt first *)
(* seen when the quote was not valid (quote, bind_xmr_quote,               *)
(* record_xmr_receipt).                                                    *)
(***************************************************************************)
QuotePromise ==
  \A i \in Id : paid[i] # 0 \/ terms[i] # Missing =>
    LET q == requests[i].quote
        intime(k) == /\ receipts[i][k] # Missing
                     /\ q.issued <= receipts[i][k].seen /\ receipts[i][k].seen < Expires(q)
        settled == {k \in Key : intime(k) /\ receipts[i][k].unlocked}
    IN /\ Ready(requests[i]) /\ binding[i] # NoRow
       /\ \A k \in granted[i] : intime(k)
       /\ paid[i] * Unit <= Units(i, granted[i]) * q.rate
       /\ hold[i] = Missing /\ Units(i, settled) >= Expected(q.rate) => paid[i] >= Target
=============================================================================
