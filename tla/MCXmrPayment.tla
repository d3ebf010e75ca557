----------------------------- MODULE MCXmrPayment -----------------------------
EXTENDS XmrPayment, TLC

CONSTANTS c1, c2, i1, i2, k1, k2, p1, s1, s2, none, missing

\* Trade in the first two minutes, the price of the first is revised; a third
\* without trade, and the price of an unfinished minute is always another.  Two
\* sats at three a unit of four: three atomic units, or 2 2/3 exactly.
MCMarket == <<{3, 4}, {3}, {}, {4}>>

\* Every term a quote can have here.
MCQuotes ==
  {TermsOf([rate |-> rate, observed |-> 0, issued |-> issued]) :
     rate \in Rate, issued \in 0..MaxTime}

MCSymmetry ==
  Permutations(Call) \cup Permutations(Id) \cup Permutations(Scope) \cup Permutations(Key)

\* Bound: the credit moves only while there is one quote and no call.  The quote
\* service does not read the credit.
PaidAlone ==
  \/ other = 0 /\ \A i \in Id : hold[i] = Missing /\ \A k \in Key : receipts[i][k] = Missing
  \/ /\ Cardinality(Rows) <= 1 /\ now = lastEpoch
     /\ \A c \in Call : InState(c, "idle")
=============================================================================
