-------------------------- MODULE MCLightningAddress --------------------------
EXTENDS LightningAddress, TLC

CONSTANTS p1, p2, none, i1, i2, i3, i4, r1, r2, r3, herd, nova
MCSymmetry == Permutations(Process) \cup Permutations(Id) \cup Permutations(RequestId)

\* An amount comes back from its decimal as it was, and one written with
\* fewer digits is the same amount.
ASSUME DecimalsKeepAmounts ==
  \A msat \in 0..(2 * MsatPerBtc) : BtcDecimalToMsat(MsatToBtcDecimal(msat)) = msat
ASSUME DecimalsArePadded ==
  \A digit \in 0..9 :
    BtcDecimalToMsat([whole |-> 1, digits |-> <<digit>>]) = BtcDecimalToMsat([whole |-> 1, digits |-> <<digit, 0>>])
=============================================================================
