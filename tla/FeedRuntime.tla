----------------------------- MODULE FeedRuntime -----------------------------
(***************************************************************************)
(* What feed accounting promises, as the in-memory model FeedRuntime of    *)
(* src/domain/feed.rs states it: one number, at most one attempt under     *)
(* way, one threshold per confirmed feed.  A FeedLedger is made with the   *)
(* credit there is and the threshold configured at that moment, which it   *)
(* keeps as long as an attempt is active.  The SQLite ledger, with its     *)
(* rows, cooldown and event log, is shown to implement this machine in     *)
(* FeedLedgerRuntime.                                                      *)
(***************************************************************************)
EXTENDS Integers

CONSTANTS Attempt, NoAttempt, ThresholdSats, PaymentSats, MaxSats

VARIABLES credit_sats, active_attempt

vars == <<credit_sats, active_attempt>>

Active(id, s, t) == [id |-> id, status |-> s, threshold |-> t]

RequireAttempt(id, s, t) == active_attempt = Active(id, s, t)

Init == credit_sats = 0 /\ active_attempt = NoAttempt

\* checked_add: an overflowing credit is refused, not wrapped.
Credit(amount) ==
  /\ credit_sats + amount <= MaxSats
  /\ credit_sats' = credit_sats + amount
  /\ UNCHANGED active_attempt

\* FeedLedger::with_credit and begin_next_feed.
BeginNextFeed(id, t) ==
  /\ active_attempt = NoAttempt
  /\ credit_sats >= t
  /\ active_attempt' = Active(id, "intent_committed", t)
  /\ UNCHANGED credit_sats

DebitConfirmedFeed(t) ==
  /\ credit_sats >= t
  /\ credit_sats' = credit_sats - t
  /\ active_attempt' = NoAttempt

ConfirmFeed(id, t) ==
  RequireAttempt(id, "intent_committed", t) /\ DebitConfirmedFeed(t)

MarkFeedUnknown(id, t) ==
  /\ RequireAttempt(id, "intent_committed", t)
  /\ active_attempt' = Active(id, "unknown", t)
  /\ UNCHANGED credit_sats

ReconcileUnknownAsFed(id, t) ==
  RequireAttempt(id, "unknown", t) /\ DebitConfirmedFeed(t)

ReconcileUnknownAsNotFed(id, t) ==
  /\ RequireAttempt(id, "unknown", t)
  /\ active_attempt' = NoAttempt
  /\ UNCHANGED credit_sats

(***************************************************************************)
(* mark_feed_unknown directly followed by reconcile_unknown_as_not_fed:    *)
(* the ledger's resolve_feed_not_dispatched makes both in one commit.      *)
(***************************************************************************)
ReleaseIntent(id, t) ==
  /\ RequireAttempt(id, "intent_committed", t)
  /\ active_attempt' = NoAttempt
  /\ UNCHANGED credit_sats

Next ==
  \/ \E amount \in PaymentSats : Credit(amount)
  \/ \E id \in Attempt, t \in ThresholdSats :
       \/ BeginNextFeed(id, t)
       \/ ConfirmFeed(id, t)
       \/ MarkFeedUnknown(id, t)
       \/ ReconcileUnknownAsFed(id, t)
       \/ ReconcileUnknownAsNotFed(id, t)
       \/ ReleaseIntent(id, t)

Spec == Init /\ [][Next]_vars
=============================================================================
