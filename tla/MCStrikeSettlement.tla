------------------------- MODULE MCStrikeSettlement --------------------------
EXTENDS StrikeSettlement, TLC

CONSTANTS q1, q2, r1, r2, r3, w1, w2

\* r1 and r2 pay the invoice of q1; r3 belongs to the last request.
MCRequestOf == [r \in Receive |-> IF r = r3 /\ q2 \in Request THEN q2 ELSE q1]
MCIssued == [q \in Request |-> 2000]

PaysInvoice == Evidence("issued", "BTC", "LIGHTNING", "issued", Btc(2000), None, "none")
PaysDollars == Evidence("issued", "BTC", "P2P", "none", Amount("USD", 3), Btc(3000), "USD")
PaysBitcoin == Evidence("issued", "BTC", "P2P", "none", Btc(3000), Btc(3000), "none")

Contradictory == [PaysBitcoin EXCEPT !.received = Btc(2000)]

\* One invoice paid twice, or a payment without an invoice; one that Strike
\* contradicts itself about.
MCReports == [r \in Receive |-> IF r = r1 THEN <<PaysInvoice, Contradictory>>
                                ELSE <<PaysInvoice, PaysBitcoin>>]
\* Either may pay the invoice, and the other one never complete.
MCPays == [r \in Receive |-> <<PaysInvoice>>]

\* Sound evidence, and all that differs from it in one place.
Amounts == {None, Btc(0), Btc(2000), Btc(2500), Btc(3000), Amount("USD", 3), Amount("bad", 0)}
Altered(e) ==
       {[e EXCEPT !.request = x] : x \in {"issued", "altered"}}
  \cup {[e EXCEPT !.target = x] : x \in {"none", "USD"}}
  \cup {[e EXCEPT !.type = x] : x \in {"LIGHTNING", "P2P", "ONCHAIN"}}
  \cup {[e EXCEPT !.lightning = x] : x \in {"none", "issued", "altered"}}
  \cup {[e EXCEPT !.received = x] : x \in Amounts \ {None}}
  \cup {[e EXCEPT !.credited = x] : x \in Amounts}
  \cup {[e EXCEPT !.rate = x] : x \in {"none", "BTC", "USD", "EUR"}}

AnyEvidence == UNION {Altered(e) : e \in {PaysInvoice, PaysDollars, PaysBitcoin}}

\* Of all this only what agrees with itself and the invoice is valid.
ASSUME ValidIsUncontradicted ==
  \A r \in Receive, e \in AnyEvidence : Valid(r, e) => Uncontradicted(r, e)

\* One order of the two in Strike's list: the other is the same with their
\* names exchanged, but for what each may come to report.
MCOrder == \A q \in Request : listing[q] # <<r1, r2>>

MCSymmetry == Permutations(Worker)
=============================================================================
