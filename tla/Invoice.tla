-------------------------------- MODULE Invoice --------------------------------
(***************************************************************************)
(* What the daemon accepts of Strike when it has an invoice made: the      *)
(* signed BOLT11 invoice (src/bolt11.rs), and the fields Strike wraps it   *)
(* in, which must agree with it wherever they are there                    *)
(* (validate_receive_request_response of src/strike.rs).                   *)
(***************************************************************************)
EXTENDS Integers, Sequences, SequencesExt

CONSTANTS
  Places,   \* 11: digits of a bitcoin down to a millisatoshi
  Skew,     \* 30 s that an invoice may be from the future
  Omitted   \* a field that is not in a response

ASSUME InvoiceAssumption == Places \in Nat /\ Skew \in Nat

\* A decimal is its whole part and its sequence of digits after the point.
MsatPerBtc == 10 ^ Places

\* btc_decimal_to_msat pads the digits to the right.
BtcDecimalToMsat(d) ==
  d.whole * MsatPerBtc
    + FoldLeft(LAMBDA sum, digit : 10 * sum + digit, 0, d.digits) * 10 ^ (Places - Len(d.digits))

\* msat_to_btc_decimal has all its digits.
MsatToBtcDecimal(msat) ==
  [whole  |-> msat \div MsatPerBtc,
   digits |-> [i \in 1..Places |-> (msat \div 10 ^ (Places - i)) % 10]]

\* verify: the signature, and what the invoice commits to.
Verify(invoice, amount, payment, description) ==
  /\ invoice.genuine /\ invoice.mainnet
  /\ amount # 0 /\ invoice.amount = amount
  /\ invoice.payment = payment
  /\ invoice.description = description

\* verify_expiry_at
VerifyExpiryAt(invoice, expiry, now) ==
  /\ expiry # 0 /\ invoice.expiry = expiry
  /\ invoice.at <= now + Skew
  /\ now < invoice.at + invoice.expiry

Agrees(field, value) == field = Omitted \/ field = value

\* validate_receive_request_response, and the expiry of a new invoice.
Acceptable(response, amount, description, expiry, now) ==
  /\ Agrees(response.target, "BTC")
  /\ Verify(response.invoice, amount, response.payment, description)
  /\ Agrees(response.description, description)
  /\ \A field \in {response.requested, response.btc} :
       field # Omitted => BtcDecimalToMsat(field) = amount
  /\ VerifyExpiryAt(response.invoice, expiry, now)
=============================================================================
