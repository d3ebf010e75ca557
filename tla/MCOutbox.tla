------------------------------- MODULE MCOutbox -------------------------------
EXTENDS Outbox

CONSTANTS d1, d2, k1, k2

\* A feeding and, after the herd was paid its threshold again, another: they
\* say the same.
Feeding(seq) ==
  [seq |-> seq, type |-> "feeder_confirmed",
   payload |-> [feed_attempt_id |-> seq, threshold_sats |-> 3, feed_credit_sats |-> 1]]
MCEventOf == <<Feeding(1), Feeding(2)>>
MCDigest == [s \in 1..2 |-> [p \in Purposes |-> 7]]

\* The key is changed; the daemon with the old one may still run, or start
\* again in a rehearsal.
MCModes == [d \in Daemon |-> IF d = d1 THEN {k1, "quiet"} ELSE {k2}]

-----------------------------------------------------------------------------
\* The payloads the daemon writes (ledger/mod.rs, ledger/credit.rs,
\* ledger/feed.rs, informational.rs).
Written ==
  {[seq |-> 1, type |-> "payment_received",
    payload |-> [amount_sats |-> a, feed_credit_sats |-> c, address_user |-> u]] :
      a \in 1..7, c \in 0..7, u \in {"herd", "nova"}}
  \cup {[seq |-> 1, type |-> "weather_status", payload |-> [message |-> n]] : n \in {30, 2000}}
  \cup {[seq |-> 1, type |-> type, payload |-> <<>>] : type \in {"interface_info", "feeder_not_dispatched"}}

\* Each of them can be rendered, in public only payments (and feedings, as
\* the run shows); a payment to a goat's address shows that goat.
ASSUME WrittenEventsRender ==
  \A e \in Written :
    LET r == Render(e) IN
      /\ r.ok
      /\ (r.nostr # NoText) = (e.type = "payment_received")
      /\ e.type = "payment_received" /\ e.payload.address_user = "nova" => r.goat = "nova"

\* The two ways an amount to the next feeding is given agree with each other
\* and with the credit.
ASSUME DifferenceAddsUp ==
  \A credit \in 0..10 :
    LET d == DifferenceMessage(credit) IN
      /\ (credit + RemainingSats(credit)) % Threshold = 0
      /\ RemainingSats(credit) \in 1..Threshold
      /\ credit = IF d.due = 0 THEN Threshold - d.missing ELSE d.due * Threshold + d.toward
=============================================================================
