------------------------------- MODULE Feeder --------------------------------
(***************************************************************************)
(* The path from credit to goats: the feed worker of src/feeder/mod.rs     *)
(* with the ledger on one side and the gateway's HTTP API, seen through    *)
(* src/gateway/client.rs, on the other; the operator's lightning-goatsctl  *)
(* beside it.  Daemons crash and restart at any step, may overlap on one   *)
(* database, requests and responses are lost or arrive late, and single    *)
(* ledger transactions fail.                                               *)
(*                                                                         *)
(* The host of the daemon and that of the gateway share the clock here;    *)
(* FeedLedger and FeederGateway each allow any reading of their own.       *)
(***************************************************************************)
EXTENDS FeederGateway, Sequences, FiniteSetsExt

CONSTANTS
  NoAttempt, ThresholdSats, PaymentSats, MaxSats,   \* as in FeedLedger
  Daemon     \* processes that run the feed worker on the database

ASSUME FeederAssumption ==
  /\ IsFiniteSet(Attempt)        \* a UUID has 128 bits
  /\ NoAttempt \notin Attempt
  /\ ThresholdSats \subseteq Nat \ {0}
  /\ PaymentSats \subseteq Nat \ {0}
  /\ MaxSats \in Nat

VARIABLES
  status, threshold, credit, debited, resumeAfter, events,
  worker,      \* what each daemon's feed worker is about to do
  configured   \* threshold_sats in the configuration each daemon loaded

ledger == <<status, threshold, credit, debited, resumeAfter, events>>
gateway == <<row, updatedAt, refusal, handler, armed, inFlight, pulses, fedAt, complete>>
feederVars == <<ledger, gateway, now, worker, configured>>

Ledger == INSTANCE FeedLedger WITH clock <- now, MaxClock <- MaxTime,
                                   RetrySeconds <- 1..MaxDelay

Step(pc) == [pc |-> pc]
For(pc, a) == [pc |-> pc, id |-> a]
Call(pc, a, stored) == [pc |-> pc, id |-> a, stored |-> stored]
Await(pc, a, stored, h) == [pc |-> pc, id |-> a, stored |-> stored, slot |-> h]
Apply(a, stored, reply) == [pc |-> "apply", id |-> a, stored |-> stored, reply |-> reply]

Is(d, pc) == worker[d].pc = pc
Become(d, next) == worker' = [worker EXCEPT ![d] = next]
Waits(d) == Is(d, "awaitPost") \/ Is(d, "awaitGet")
Awaited(h) == \E d \in Daemon : Waits(d) /\ worker[d].slot = h

OnlyItself == UNCHANGED <<ledger, worker, configured>>
OnlyWorker == UNCHANGED <<ledger, gateway, now, configured>>
OnlyLedger == UNCHANGED <<gateway, configured>>
OnlyGateway == UNCHANGED <<ledger, now, configured>>

-----------------------------------------------------------------------------
FeederInit ==
  /\ Ledger!Init
  /\ Init
  /\ worker = [d \in Daemon |-> Step("down")]
  /\ configured \in [Daemon -> ThresholdSats]

\* main: the configuration is read and interrupted intents are made unknown
\* before anything else runs.
Start(d) ==
  /\ Is(d, "down")
  /\ \E t \in ThresholdSats : configured' = [configured EXCEPT ![d] = t]
  /\ \/ Ledger!MarkInterruptedFeedIntentsUnknown
     \/ /\ \A a \in Attempt : status[a] # "intent_committed"
        /\ UNCHANGED <<ledger, now>>
  /\ Become(d, Step("idle"))
  /\ UNCHANGED gateway

Crash(d) ==
  /\ ~Is(d, "down")
  /\ Become(d, Step("down"))
  /\ OnlyWorker

\* Mutants: operators named Mutant... are plausible bugs of the action they
\* precede.  Nothing here uses them; each breaks a property below.
MutantWakePollsIntentsOnly(d) ==
  /\ Is(d, "idle")
  /\ \/ \E a \in Ledger!UnresolvedAttempts :
          status[a] = "intent_committed" /\ Become(d, Call("poll", a, status[a]))
     \/ Ledger!UnresolvedAttempts = {} /\ Become(d, Step("due"))
  /\ OnlyWorker

\* run_feed_step from its top: an unresolved attempt is only ever polled.
Wake(d) ==
  /\ Is(d, "idle")
  /\ \/ \E a \in Ledger!UnresolvedAttempts : Become(d, Call("poll", a, status[a]))
     \/ Ledger!UnresolvedAttempts = {} /\ Become(d, Step("due"))
  /\ OnlyWorker

CheckDue(d) ==
  /\ Is(d, "due")
  /\ Become(d, Step(IF credit >= configured[d] THEN "safety" ELSE "idle"))
  /\ OnlyWorker

\* feeder_safety through the gateway; an error blocks like a closed switch.
CheckSafety(d) ==
  /\ Is(d, "safety")
  /\ \/ armed /\ Become(d, Step("begin"))
     \/ Become(d, Step("idle"))
  /\ OnlyWorker

\* begin_feed_attempt: a fresh UUID is drawn, or the transaction returns None.
Begin(d) ==
  /\ Is(d, "begin")
  /\ \/ \E a \in Attempt :
          /\ Ledger!BeginFeedAttempt(a, configured[d])
          /\ Become(d, For("post", a))
     \/ /\ \/ Ledger!UnresolvedAttempts # {}
           \/ resumeAfter > now
           \/ credit < configured[d]
        /\ Become(d, Step("idle"))
        /\ UNCHANGED <<ledger, now>>
  /\ OnlyLedger

\* request_feed and feed_request_status; the gateway may take the request late.
SendPost(d, h) ==
  /\ Is(d, "post")
  /\ Post(h, worker[d].id)
  /\ Become(d, Await("awaitPost", worker[d].id, "intent_committed", h))
  /\ OnlyGateway

SendGet(d, h) ==
  /\ Is(d, "poll")
  /\ Get(h, worker[d].id)
  /\ Become(d, Await("awaitGet", worker[d].id, worker[d].stored, h))
  /\ OnlyGateway

\* After an error a POST leaves its attempt to be marked; a GET changes nothing.
Unanswered(d) ==
  Become(d, IF Is(d, "post") \/ Is(d, "awaitPost")
            THEN For("mark", worker[d].id) ELSE Step("idle"))

MutantMissingMeansRefused(d) ==
  /\ Waits(d)
  /\ LET h == worker[d].slot IN
       /\ handler[h].pc = "replied"
       /\ Close(h)
       /\ Become(d, Apply(worker[d].id, worker[d].stored,
                         IF handler[h].reply = "Failure" THEN "NotDispatched"
                         ELSE handler[h].reply))
  /\ OnlyGateway

Receive(d) ==
  /\ Waits(d)
  /\ LET h == worker[d].slot IN
       /\ handler[h].pc = "replied"
       /\ Close(h)
       /\ \/ handler[h].reply = "Failure" /\ Unanswered(d)
          \/ /\ handler[h].reply # "Failure"
             /\ Become(d, Apply(worker[d].id, worker[d].stored, handler[h].reply))
  /\ OnlyGateway

\* The request never arrives, or the client stops waiting; a handler that has
\* the request goes on with it.
LoseRequest(d) ==
  /\ Waits(d) \/ Is(d, "post") \/ Is(d, "poll")
  /\ Unanswered(d)
  /\ OnlyWorker

\* The mark_feed_unknown that follows a failed POST.
MarkUnknown(d) ==
  /\ Is(d, "mark")
  /\ Ledger!MarkFeedUnknown(worker[d].id)
  /\ Become(d, Step("idle"))
  /\ OnlyLedger

MutantAmbiguousReleases(d) ==
  /\ Is(d, "apply")
  /\ LET a == worker[d].id
         intent == worker[d].stored = "intent_committed"
     IN \/ worker[d].reply = "Confirmed" /\ intent /\ Ledger!ConfirmFeedAttempt(a)
        \/ worker[d].reply = "Confirmed" /\ ~intent /\ Ledger!ReconcileUnknownAsFed(a)
        \/ /\ worker[d].reply # "Confirmed"
           /\ Ledger!ResolveFeedNotDispatched(a, refusal[a].retry)
  /\ Become(d, Step("idle"))
  /\ OnlyLedger

\* apply_outcome: the transaction that the reply and the stored status call for.
ApplyOutcome(d) ==
  /\ Is(d, "apply")
  /\ LET a == worker[d].id
         reply == worker[d].reply
         intent == worker[d].stored = "intent_committed"
     IN \/ reply = "Confirmed" /\ intent /\ Ledger!ConfirmFeedAttempt(a)
        \/ reply = "Confirmed" /\ ~intent /\ Ledger!ReconcileUnknownAsFed(a)
        \/ /\ reply = "NotDispatched"
           /\ Ledger!ResolveFeedNotDispatched(a, refusal[a].retry)
        \/ reply \in {"Pending", "Ambiguous"} /\ intent /\ Ledger!MarkFeedUnknown(a)
        \/ /\ reply \in {"Pending", "Ambiguous"} /\ ~intent
           /\ UNCHANGED <<ledger, now>>
  /\ Become(d, Step("idle"))
  /\ OnlyLedger

\* The transaction bails on the status it finds, or the database fails it.
TransactionFails(d) ==
  /\ Is(d, "mark") \/ Is(d, "apply")
  /\ Become(d, Step("idle"))
  /\ OnlyWorker

-----------------------------------------------------------------------------
\* The gateway and the household go on by themselves; a reply nobody waits for
\* is dropped, and so is a handler whose client left.
GatewayStep ==
  /\ \/ \E h \in Handler, a \in Attempt : Handle(h, a)
     \/ \E h \in Handler : Timeout(h)
     \/ \E h \in Handler : ~Awaited(h) /\ Close(h)
     \/ \E a \in Attempt : \/ OwnerPulse(a)
                           \/ OwnerDeny(a)
                           \/ OwnerComplete(a)
     \/ Switch
     \/ Tick
  /\ OnlyItself

Settle ==
  /\ \E sats \in PaymentSats : Ledger!CreditReceipt(sats)
  /\ UNCHANGED <<gateway, worker, configured>>

(***************************************************************************)
(* lightning-goatsctl reconcile-feed.  The operator says "fed" of a feed   *)
(* that took place, and "not fed" of one that did not and no longer can:   *)
(* what is on its way to the feeder is looked at, not only the feeder.     *)
(***************************************************************************)
OnItsWay(a) ==
  \/ inFlight[a] > 0
  \/ \E h \in Handler : \E pc \in {"postStatus", "safety", "begin", "command"} :
       On(h, pc, a)
  \/ \E d \in Daemon : Is(d, "post") /\ worker[d].id = a

ReconcileFeed(a) ==
  /\ \/ pulses[a] > 0 /\ Ledger!ReconcileUnknownAsFed(a)
     \/ pulses[a] = 0 /\ ~OnItsWay(a) /\ Ledger!ReconcileUnknownAsNotFed(a)
  /\ UNCHANGED <<gateway, worker, configured>>

Work(d) ==
  \/ Wake(d)
  \/ CheckDue(d)
  \/ CheckSafety(d)
  \/ Begin(d)
  \/ \E h \in Handler : SendPost(d, h) \/ SendGet(d, h)
  \/ Receive(d)
  \/ MarkUnknown(d)
  \/ ApplyOutcome(d)

Fault(d) ==
  \/ Crash(d)
  \/ LoseRequest(d)
  \/ TransactionFails(d)

FeederNext ==
  \/ \E d \in Daemon : Start(d) \/ Work(d) \/ Fault(d)
  \/ GatewayStep
  \/ Settle
  \/ \E a \in Attempt : ReconcileFeed(a)

FeederSpec == FeederInit /\ [][FeederNext]_feederVars

(***************************************************************************)
(* Fairness.  The worker's loop never ends, the gateway gives every        *)
(* request an answer within its time budget and drops what nobody waits    *)
(* for.  A poll that is repeated for ever is answered some time while its  *)
(* client still waits, a receipt that is there is read some time, and a    *)
(* transaction that is tried again and again commits some time: strong     *)
(* fairness, since each of these steps may be preempted by a loss, a       *)
(* timeout or an error any number of times.                                *)
(***************************************************************************)
Answers == {Apply(a, stored, reply) :
              a \in Attempt, stored \in Ledger!Unresolved,
              reply \in {"Confirmed", "NotDispatched"}}

Fairness ==
  /\ \A d \in Daemon :
       /\ WF_feederVars(Start(d) \/ Work(d) \/ TransactionFails(d))
       /\ SF_feederVars(\E h \in Handler : SendGet(d, h))
       /\ SF_feederVars(Receive(d) /\ worker'[d] \in Answers)
       /\ SF_feederVars(worker[d] \in Answers /\ ApplyOutcome(d))
  /\ \A h \in Handler :
       WF_feederVars(OnlyItself /\ (Timeout(h) \/ (~Awaited(h) /\ Close(h))))
  /\ \A a \in Attempt :
       /\ SF_feederVars(OnlyItself /\ \E h \in Handler : Awaited(h) /\ GetStatus(h, a))
       /\ SF_feederVars(OnlyItself /\ \E h \in Handler :
                    HandleExistingPending(h, a) /\ handler'[h].pc = "mark")
       /\ SF_feederVars(OnlyItself /\ \E h \in Handler :
                    MarkAcknowledged(h, a) /\ handler'[h].reply = "Confirmed")

FairSpec == FeederSpec /\ Fairness

-----------------------------------------------------------------------------
(***************************************************************************)
(* The ledger never tells a story the feeder contradicts: a confirmed      *)
(* attempt was physically fed, and one recorded as not fed has not been    *)
(* and will not be, whatever was lost, late or restarted in between.       *)
(***************************************************************************)
LedgerTellsTheTruth ==
  \A a \in Attempt :
    /\ status[a] = "confirmed" => pulses[a] > 0
    /\ status[a] = "reconciled_not_fed" => pulses[a] + inFlight[a] = 0

(***************************************************************************)
(* The promise to the payers: no more sats' worth of feeds take place      *)
(* physically than sats were received, each attempt at most once, and each *)
(* receipt stays.  Receipts are the credit plus what confirmed attempts    *)
(* were debited.                                                           *)
(***************************************************************************)
Received == credit + MapThenSumSet(LAMBDA a : threshold[a], debited)
Price == [a \in Attempt |-> IF pulses[a] > 0 THEN threshold[a] ELSE 0]

Promise == INSTANCE FeedPromise WITH received <- Received, price <- Price

KeepsPromise == Promise!Spec

(***************************************************************************)
(* Once daemons no longer crash, what the gateway knows reaches the        *)
(* ledger: a feed with its receipt is debited, and a refused one is        *)
(* released, through however many lost polls, late answers and failed      *)
(* transactions.                                                           *)
(***************************************************************************)
KnownOutcomeIsRecorded ==
  <>[][\A d \in Daemon : ~Crash(d)]_feederVars =>
    \A a \in Attempt :
      /\ (a \in complete) ~> (status[a] = "confirmed")
      /\ (refusal[a] # NoRefusal) ~> (status[a] = "reconciled_not_fed")
=============================================================================
