---------------------------- MODULE FeederGateway ----------------------------
(***************************************************************************)
(* The trusted integration gateway: the SQLite admission store             *)
(* (src/gateway/store.rs), the HTTP handlers of a feed request             *)
(* (src/gateway/server.rs) and the OpenHAB owner they command, seen        *)
(* through src/openhab.rs.  A handler stops at every await: it may be      *)
(* overtaken by other handlers there, be timed out, or be dropped, when    *)
(* the client goes away or the gateway restarts.  The store survives.      *)
(*                                                                         *)
(* The owner is kept to what the gateway may rely on.  Each command it is  *)
(* sent may switch the feeder on once, or be denied; a receipt "complete"  *)
(* is only posted after the pulse; reading the receipt back may fail or    *)
(* show an older result.  The owner is not assumed to recognise a repeated *)
(* UUID: that the gateway never repeats one is what is checked.            *)
(***************************************************************************)
EXTENDS Integers, FiniteSets

CONSTANTS
  Attempt,       \* request UUIDs
  Handler,       \* concurrent HTTP requests for the feeder
  MinInterval,   \* min_feed_interval, seconds
  MaxPerHour,    \* max_feeds_per_hour
  Window,        \* the 3600 seconds of the rolling hour
  RefusalDelay,  \* the 5 seconds of a safety or unresolved refusal
  MaxDelay,      \* the 86400 seconds a refusal may name at most
  MaxTime        \* bound on time

ASSUME GatewayAssumption ==
  /\ MinInterval \in Nat \ {0}    \* interval < 5 is refused
  /\ MaxPerHour \in Nat \ {0}     \* cap < 1 is refused
  /\ Window \in Nat \ {0}
  /\ RefusalDelay \in 1..MaxDelay
  /\ MaxDelay \in Nat \ {0}
  /\ MaxTime \in Nat

VARIABLES
  row,         \* feeder_requests.status by request_id
  updatedAt,   \* feeder_requests.updated_at
  refusal,     \* feeder_refusals: the tombstone of a refused UUID
  handler,     \* what each request in progress is about to do
  now,         \* unixepoch() on the gateway
  armed,       \* FeederOverride is OFF and LightningGoatsRemoteEnabled is ON
  inFlight,    \* commands sent to OpenHAB that the owner has not seen
  pulses,      \* times the feeder was switched on for the UUID
  fedAt,       \* when that was
  complete     \* UUIDs with a receipt "complete"

store == <<row, updatedAt, refusal>>
owner == <<inFlight, pulses, fedAt, complete>>
vars == <<store, handler, now, armed, owner>>

Reasons == {"safety", "unresolved", "capacity"}
NoRefusal == [reason |-> "none", retry |-> 0]
Replies == {"Confirmed", "NotDispatched", "Pending", "Ambiguous", "Failure"}

Idle == [pc |-> "idle"]
At(pc, a) == [pc |-> pc, id |-> a]
Checked(a, safe) == [pc |-> "begin", id |-> a, safe |-> safe]
Replied(a, reply) == [pc |-> "replied", id |-> a, reply |-> reply]

Waiting == {"postStatus", "getStatus", "safety", "command", "wait",
            "pendingResult", "mark"}

Busy(h) == handler[h].pc \notin {"idle", "replied"}
On(h, pc, a) == handler[h].pc = pc /\ handler[h].id = a
Goto(h, next) == handler' = [handler EXCEPT ![h] = next]
Reply(h, reply) == Goto(h, Replied(handler[h].id, reply))

-----------------------------------------------------------------------------
(***************************************************************************)
(* The delay of begin_request, for an admission at time t: the interval    *)
(* since the latest row, and, when the rolling hour is full, the second    *)
(* after its oldest row leaves it.                                         *)
(***************************************************************************)
Rows == {a \in Attempt : row[a] # "none"}
Recent(t) == {a \in Rows : updatedAt[a] >= t - Window}
Largest(S) == CHOOSE x \in S : \A y \in S : y <= x
Smallest(S) == CHOOSE x \in S : \A y \in S : x <= y
Times(R) == {updatedAt[a] : a \in R}

\* Mutants: operators named Mutant... are plausible bugs of the operator they
\* precede.  Nothing here uses them; each breaks a property below.
MutantIntervalFromOldest(t) ==
  IF Rows = {} THEN 0 ELSE Smallest(Times(Rows)) + MinInterval - t

MutantCapOffByOne(t) ==
  IF Cardinality(Recent(t)) > MaxPerHour
  THEN Smallest(Times(Recent(t))) + Window + 1 - t ELSE 0

IntervalDelay(t) == IF Rows = {} THEN 0 ELSE Largest(Times(Rows)) + MinInterval - t
CapDelay(t) ==
  IF Cardinality(Recent(t)) >= MaxPerHour
  THEN Smallest(Times(Recent(t))) + Window + 1 - t ELSE 0

Delay(t) == Largest({0, IntervalDelay(t), CapDelay(t)})

PendingExists == \E a \in Attempt : row[a] = "pending"

MutantVerdictIgnoringPending(safe) ==
  IF ~safe THEN [reason |-> "safety", retry |-> RefusalDelay]
  ELSE IF Delay(now) > 0
       THEN [reason |-> "capacity",
             retry |-> IF Delay(now) < MaxDelay THEN Delay(now) ELSE MaxDelay]
  ELSE NoRefusal

\* What a new UUID is refused for, in the order of the code; "none" admits it.
Verdict(safe) ==
  IF ~safe THEN [reason |-> "safety", retry |-> RefusalDelay]
  ELSE IF PendingExists THEN [reason |-> "unresolved", retry |-> RefusalDelay]
  ELSE IF Delay(now) > 0
       THEN [reason |-> "capacity",
             retry |-> IF Delay(now) < MaxDelay THEN Delay(now) ELSE MaxDelay]
  ELSE NoRefusal

-----------------------------------------------------------------------------
Init ==
  /\ row = [a \in Attempt |-> "none"]
  /\ updatedAt = [a \in Attempt |-> 0]
  /\ refusal = [a \in Attempt |-> NoRefusal]
  /\ handler = [h \in Handler |-> Idle]
  /\ now = 0
  /\ armed \in BOOLEAN
  /\ inFlight = [a \in Attempt |-> 0]
  /\ pulses = [a \in Attempt |-> 0]
  /\ fedAt = [a \in Attempt |-> 0]
  /\ complete = {}

\* A request reaches the gateway; the same UUID may be posted any number of times.
Accept(h, a, pc) ==
  /\ handler[h] = Idle
  /\ Goto(h, At(pc, a))
  /\ UNCHANGED <<store, now, armed, owner>>

Post(h, a) == Accept(h, a, "postStatus")
Get(h, a) == Accept(h, a, "getStatus")

\* existing_response, for a UUID the store knows.
ExistingResponse(h, a) ==
  \/ row[a] = "acknowledged" /\ Reply(h, "Confirmed")
  \/ row[a] = "pending" /\ Goto(h, At("pendingResult", a))
  \/ row[a] = "none" /\ refusal[a] # NoRefusal /\ Reply(h, "NotDispatched")

Unknown(a) == row[a] = "none" /\ refusal[a] = NoRefusal

PostStatus(h, a) ==
  /\ On(h, "postStatus", a)
  /\ \/ ExistingResponse(h, a)
     \/ Unknown(a) /\ Goto(h, At("safety", a))
  /\ UNCHANGED <<store, now, armed, owner>>

GetStatus(h, a) ==
  /\ On(h, "getStatus", a)
  /\ \/ ExistingResponse(h, a)
     \/ Unknown(a) /\ Reply(h, "Failure")   \* 404
  /\ UNCHANGED <<store, now, armed, owner>>

\* Unreadable switches count as unsafe.
ReadSafety(h, a) ==
  /\ On(h, "safety", a)
  /\ \E safe \in {armed, FALSE} : Goto(h, Checked(a, safe))
  /\ UNCHANGED <<store, now, armed, owner>>

MutantBeginResending(h, a) ==
  /\ On(h, "begin", a)
  /\ \/ ~Unknown(a) /\ row[a] # "pending" /\ ExistingResponse(h, a)
        /\ UNCHANGED <<row, updatedAt>>
     \/ /\ Unknown(a) \/ row[a] = "pending"
        /\ row' = [row EXCEPT ![a] = "pending"]
        /\ updatedAt' = [updatedAt EXCEPT ![a] = now]
        /\ Goto(h, At("command", a))
  /\ UNCHANGED <<refusal, now, armed, owner>>

MutantBeginOverTombstone(h, a) ==
  /\ On(h, "begin", a)
  /\ \/ row[a] # "none" /\ ExistingResponse(h, a) /\ UNCHANGED store
     \/ /\ row[a] = "none"
        /\ LET verdict == Verdict(handler[h].safe) IN
             \/ /\ verdict # NoRefusal
                /\ refusal' = [refusal EXCEPT ![a] = verdict]
                /\ Reply(h, "NotDispatched")
                /\ UNCHANGED <<row, updatedAt>>
             \/ /\ verdict = NoRefusal
                /\ row' = [row EXCEPT ![a] = "pending"]
                /\ updatedAt' = [updatedAt EXCEPT ![a] = now]
                /\ Goto(h, At("command", a))
                /\ UNCHANGED refusal
  /\ UNCHANGED <<now, armed, owner>>

\* begin_request, one BEGIN IMMEDIATE transaction, and the match on its outcome.
BeginRequest(h, a) ==
  /\ On(h, "begin", a)
  /\ \/ ExistingResponse(h, a) /\ UNCHANGED store
     \/ /\ Unknown(a)
        /\ LET verdict == Verdict(handler[h].safe) IN
             \/ /\ verdict # NoRefusal
                /\ refusal' = [refusal EXCEPT ![a] = verdict]
                /\ Reply(h, "NotDispatched")
                /\ UNCHANGED <<row, updatedAt>>
             \/ /\ verdict = NoRefusal
                /\ row' = [row EXCEPT ![a] = "pending"]
                /\ updatedAt' = [updatedAt EXCEPT ![a] = now]
                /\ Goto(h, At("command", a))
                /\ UNCHANGED refusal
  /\ UNCHANGED <<now, armed, owner>>

\* The command item is posted: it arrives or not, and the gateway may not know.
CommandFeederRequest(h, a) ==
  /\ On(h, "command", a)
  /\ \/ /\ inFlight' = [inFlight EXCEPT ![a] = @ + 1]
        /\ Goto(h, At("wait", a)) \/ Reply(h, "Ambiguous")
     \/ Reply(h, "Ambiguous") /\ UNCHANGED inFlight
  /\ UNCHANGED <<store, now, armed, pulses, fedAt, complete>>

(***************************************************************************)
(* What feeder_result may return.  Complete needs the receipt; the receipt *)
(* of one UUID may be hidden by a later result or by a failing read.       *)
(***************************************************************************)
FeederResult(a) ==
  {"Absent", "Pending", "Rejected", "Ambiguous", "Error"}
    \cup (IF a \in complete THEN {"Complete"} ELSE {})

WaitForAck(h, a) ==
  /\ On(h, "wait", a)
  /\ \E result \in FeederResult(a) :
       \/ result = "Complete" /\ Goto(h, At("mark", a))
       \/ result \in {"Rejected", "Ambiguous", "Error"} /\ Reply(h, "Ambiguous")
       \/ result \in {"Absent", "Pending"} /\ UNCHANGED handler   \* poll again
  /\ UNCHANGED <<store, now, armed, owner>>

MutantAbsentMeansNotDispatched(h, a) ==
  /\ On(h, "pendingResult", a)
  /\ \E result \in FeederResult(a) :
       \/ result = "Complete" /\ Goto(h, At("mark", a))
       \/ result = "Absent" /\ Reply(h, "NotDispatched")
       \/ result \in {"Pending", "Rejected", "Ambiguous", "Error"} /\ Reply(h, "Ambiguous")
  /\ UNCHANGED <<store, now, armed, owner>>

HandleExistingPending(h, a) ==
  /\ On(h, "pendingResult", a)
  /\ \E result \in FeederResult(a) :
       \/ result = "Complete" /\ Goto(h, At("mark", a))
       \/ result \in {"Absent", "Pending"} /\ Reply(h, "Pending")
       \/ result \in {"Rejected", "Ambiguous"} /\ Reply(h, "Ambiguous")
       \/ result = "Error" /\ Reply(h, "Failure")   \* 502
  /\ UNCHANGED <<store, now, armed, owner>>

\* Idempotent: an acknowledged row keeps its time.  A failed commit is a 502.
MarkAcknowledged(h, a) ==
  /\ On(h, "mark", a)
  /\ \/ /\ row[a] = "pending"
        /\ row' = [row EXCEPT ![a] = "acknowledged"]
        /\ updatedAt' = [updatedAt EXCEPT ![a] = now]
        /\ Reply(h, "Confirmed")
     \/ /\ row[a] = "acknowledged"
        /\ Reply(h, "Confirmed")
        /\ UNCHANGED <<row, updatedAt>>
     \/ /\ Reply(h, "Failure")
        /\ UNCHANGED <<row, updatedAt>>
  /\ UNCHANGED <<refusal, now, armed, owner>>

\* The 140 s (POST) or 10 s (GET) budget, or the deadline of wait_for_ack: 504.
Timeout(h) ==
  /\ Busy(h)
  /\ Reply(h, "Ambiguous")
  /\ UNCHANGED <<store, now, armed, owner>>

\* The response is delivered or lost; or the handler is dropped on the way.
Close(h) ==
  /\ handler[h] # Idle
  /\ Goto(h, Idle)
  /\ UNCHANGED <<store, now, armed, owner>>

-----------------------------------------------------------------------------
\* The owner takes a command and switches the feeder on, or denies it.
OwnerPulse(a) ==
  /\ inFlight[a] > 0
  /\ inFlight' = [inFlight EXCEPT ![a] = @ - 1]
  /\ pulses' = [pulses EXCEPT ![a] = @ + 1]
  /\ fedAt' = [fedAt EXCEPT ![a] = now]
  /\ UNCHANGED <<store, handler, now, armed, complete>>

OwnerDeny(a) ==
  /\ inFlight[a] > 0
  /\ inFlight' = [inFlight EXCEPT ![a] = @ - 1]
  /\ UNCHANGED <<store, handler, now, armed, pulses, fedAt, complete>>

OwnerComplete(a) ==
  /\ pulses[a] > 0
  /\ a \notin complete
  /\ complete' = complete \cup {a}
  /\ UNCHANGED <<store, handler, now, armed, inFlight, pulses, fedAt>>

\* The household turns a switch, at any time.
Switch ==
  /\ armed' = ~armed
  /\ UNCHANGED <<store, handler, now, owner>>

Tick ==
  /\ now < MaxTime
  /\ now' = now + 1
  /\ UNCHANGED <<store, handler, armed, owner>>

Handle(h, a) ==
  \/ PostStatus(h, a)
  \/ GetStatus(h, a)
  \/ ReadSafety(h, a)
  \/ BeginRequest(h, a)
  \/ CommandFeederRequest(h, a)
  \/ WaitForAck(h, a)
  \/ HandleExistingPending(h, a)
  \/ MarkAcknowledged(h, a)

Next ==
  \/ \E h \in Handler, a \in Attempt : Post(h, a) \/ Get(h, a) \/ Handle(h, a)
  \/ \E h \in Handler : Timeout(h) \/ Close(h)
  \/ \E a \in Attempt : OwnerPulse(a) \/ OwnerDeny(a) \/ OwnerComplete(a)
  \/ Switch
  \/ Tick

Spec == Init /\ [][Next]_vars
-----------------------------------------------------------------------------
(***************************************************************************)
(* One UUID is commanded at most once, however often it is posted, polled, *)
(* retried or interrupted (docs: "It cannot actuate twice through the      *)
(* gateway"), and handlers about to send count as well.  A refusal is a    *)
(* tombstone: a UUID refused by one handler is dispatched by no other,     *)
(* whatever safety state that one had read before.                         *)
(***************************************************************************)
AtMostOneDispatch ==
  \A a \in Attempt :
    LET sending == {h \in Handler : On(h, "command", a)} IN
      /\ Cardinality(sending) + inFlight[a] + pulses[a] <= 1
      /\ refusal[a] # NoRefusal => row[a] = "none" /\ pulses[a] + inFlight[a] = 0 /\ sending = {}

(***************************************************************************)
(* The feeder works for one UUID at a time: only the pending one may be    *)
(* commanded, pulsing or waiting for its receipt.                          *)
(***************************************************************************)
OneFeedAtATime ==
  \A a, b \in Attempt :
    /\ inFlight[a] > 0 \/ (pulses[a] > 0 /\ a \notin complete)
    /\ inFlight[b] > 0 \/ (pulses[b] > 0 /\ b \notin complete)
    => a = b

(***************************************************************************)
(* A client is told Confirmed only of a feed whose receipt is complete,    *)
(* and NotDispatched only of a tombstoned UUID, also when another handler  *)
(* worked on the same UUID meanwhile.                                      *)
(***************************************************************************)
RepliesAreTrue ==
  \A h \in Handler :
    handler[h].pc = "replied" =>
      LET a == handler[h].id IN
        /\ handler[h].reply = "Confirmed" => a \in complete /\ row[a] = "acknowledged"
        /\ handler[h].reply = "NotDispatched" => refusal[a] # NoRefusal

(***************************************************************************)
(* Two physical feeds are at least min_feed_interval apart, and in no      *)
(* hour, wherever it starts, are there more than max_feeds_per_hour,       *)
(* although the store counts both from updated_at, which moves when a feed *)
(* is acknowledged and is then no earlier than the pulse.                  *)
(***************************************************************************)
RateLimitsHold ==
  \A a \in Attempt : pulses[a] > 0 =>
    LET later == {b \in Attempt \ {a} : pulses[b] > 0 /\ fedAt[a] <= fedAt[b]} IN
      /\ \A b \in later : fedAt[b] - fedAt[a] >= MinInterval
      /\ Cardinality({b \in later : fedAt[b] <= fedAt[a] + Window}) < MaxPerHour
=============================================================================
