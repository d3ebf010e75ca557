---------------------------- MODULE MCFeedLedger ----------------------------
(***************************************************************************)
(* Model checking FeedLedger and its refinement of FeedRuntime: two        *)
(* attempts, two thresholds, receipts that do not divide either, a clock   *)
(* that moves both ways.                                                   *)
(***************************************************************************)
EXTENDS FeedLedgerRuntime, TLC

AttemptSymmetry == Permutations(Attempt)
=============================================================================
