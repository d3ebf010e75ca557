-------------------------- MODULE FeedLedgerRuntime --------------------------
(***************************************************************************)
(* The SQLite feed ledger implements the FeedRuntime of src/domain/feed.rs *)
(* also while the configured threshold changes from one daemon to the      *)
(* next.  The active attempt of the abstract machine is the one unresolved *)
(* row of feed_attempts.                                                   *)
(***************************************************************************)
EXTENDS FeedLedger

ActiveAttempt ==
  IF UnresolvedAttempts = {} THEN NoAttempt
  ELSE LET a == CHOOSE a \in UnresolvedAttempts : TRUE
       IN [id |-> a, status |-> status[a], threshold |-> threshold[a]]

Runtime == INSTANCE FeedRuntime WITH
             credit_sats <- credit, active_attempt <- ActiveAttempt

(***************************************************************************)
(* Every committed transaction of src/ledger/feed.rs is a step of the      *)
(* FeedRuntime of src/domain/feed.rs, or leaves its state alone.           *)
(***************************************************************************)
ImplementsFeedRuntime == Runtime!Spec
=============================================================================
