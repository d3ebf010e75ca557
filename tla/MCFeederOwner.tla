---------------------------- MODULE MCFeederOwner ----------------------------
EXTENDS FeederOwner, TLC

CONSTANTS r1, r2, r3, i1, i2

OwnerSymmetry == Permutations(Request) \cup Permutations(Run)
=============================================================================
