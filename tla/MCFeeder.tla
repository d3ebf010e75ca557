------------------------------ MODULE MCFeeder -------------------------------
EXTENDS Feeder, TLC

CONSTANTS a1, a2, h1, h2, d1, d2

MCSymmetry == Permutations(Attempt) \cup Permutations(Handler) \cup Permutations(Daemon)
=============================================================================
