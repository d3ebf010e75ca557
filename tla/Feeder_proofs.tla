---------------------------- MODULE Feeder_proofs ----------------------------
(***************************************************************************)
(* For any number of UUIDs, requests, daemons, attempts, prices and limits *)
(* and any clock.  First the gateway alone: a UUID is commanded at most    *)
(* once and never after a refusal, one feed is under way at a time, what   *)
(* clients are told is true, and feeds keep the rate limits.  Then the     *)
(* feed worker between the gateway and the ledger: what the ledger records *)
(* is what the feeder did, each of the two behaves as its own module says, *)
(* and together they keep the promise of FeedPromise.                      *)
(***************************************************************************)
EXTENDS Feeder, SumLemmas, FiniteSetTheorems, TLAPS

Typed ==
  /\ row \in [Attempt -> {"none", "pending", "acknowledged"}]
  /\ refusal = [a \in Attempt |-> refusal[a]]
  /\ handler = [h \in Handler |-> handler[h]]
  /\ inFlight \in [Attempt -> Nat]
  /\ pulses \in [Attempt -> Nat]

\* A UUID about to be commanded was admitted, by one handler, and is not sent.
Senders ==
  \A a \in Attempt, h \in Handler : On(h, "command", a) =>
    /\ row[a] = "pending" /\ inFlight[a] = 0 /\ pulses[a] = 0
    /\ \A g \in Handler : On(g, "command", a) => g = h

Dispatched ==
  \A a \in Attempt :
    /\ inFlight[a] + pulses[a] <= 1
    /\ row[a] = "none" => inFlight[a] = 0 /\ pulses[a] = 0
    /\ refusal[a] # NoRefusal => row[a] = "none"

\* Whoever acknowledges a feed, or is about to, has its receipt.
Receipts ==
  \A a \in Attempt :
    /\ a \in complete => pulses[a] > 0
    /\ row[a] = "acknowledged" => a \in complete
    /\ \A h \in Handler : On(h, "mark", a) => a \in complete

OnePending ==
  \A a, b \in Attempt : row[a] = "pending" /\ row[b] = "pending" => a = b

\* What a reply says of a UUID; other replies say nothing.
Truthful(reply) ==
  reply.pc = "replied" =>
    /\ reply.reply = "Confirmed" => reply.id \in complete /\ row[reply.id] = "acknowledged"
    /\ reply.reply = "NotDispatched" => refusal[reply.id] # NoRefusal

Truth == \A h \in Handler : Truthful(handler[h])

\* An answer is about a UUID.
Named == \A h \in Handler : handler[h].pc # "idle" => handler[h].id \in Attempt

GatewayInv ==
  Typed /\ Named /\ Senders /\ Dispatched /\ Receipts /\ OnePending /\ Truth

LEMMA InitGateway == Init => GatewayInv
<1>. SUFFICES ASSUME Init PROVE GatewayInv
  OBVIOUS
<1>1. Typed /\ Named
  BY DEF Init, Typed, Named, Idle
<1>2. Senders /\ Dispatched /\ Receipts /\ OnePending /\ Truth
  BY DEF Init, Senders, Dispatched, Receipts, OnePending, Truth, Truthful, On, Idle
<1>. QED
  BY <1>1, <1>2 DEF GatewayInv

-----------------------------------------------------------------------------
(***************************************************************************)
(* A handler that only moves on, to anything but sending a command, keeps  *)
(* the invariant when it has a receipt to mark and its reply is true.      *)
(***************************************************************************)
LEMMA HandlerMovesOn ==
  ASSUME GatewayInv, NEW h \in Handler, NEW next, Goto(h, next),
         UNCHANGED <<store, owner>>,
         next.pc # "command",
         next.pc # "idle" => next.id \in Attempt,
         next.pc = "mark" => next.id \in complete,
         Truthful(next)
  PROVE  GatewayInv'
<1>1. /\ handler' = [handler EXCEPT ![h] = next]
      /\ row' = row /\ refusal' = refusal /\ complete' = complete
      /\ inFlight' = inFlight /\ pulses' = pulses
  BY DEF Goto, store, owner
<1>2. handler'[h] = next /\ \A g \in Handler \ {h} : handler'[g] = handler[g]
  BY <1>1 DEF GatewayInv, Typed
<1>3. Typed'
  BY <1>1 DEF GatewayInv, Typed
<1>4. Named'
  BY <1>2 DEF GatewayInv, Named
<1>5. Senders'
  BY <1>1, <1>2 DEF GatewayInv, Senders, On
<1>6. Dispatched' /\ OnePending'
  BY <1>1 DEF GatewayInv, Dispatched, OnePending
<1>7. Receipts'
  BY <1>1, <1>2 DEF GatewayInv, Receipts, On
<1>8. Truth'
  BY <1>1, <1>2 DEF GatewayInv, Truth, Truthful
<1>. QED
  BY <1>3, <1>4, <1>5, <1>6, <1>7, <1>8 DEF GatewayInv

\* The answer for a UUID that the store knows is true.
LEMMA ExistingIsTrue ==
  ASSUME GatewayInv, NEW h \in Handler, NEW a \in Attempt, handler[h].id = a,
         ExistingResponse(h, a), UNCHANGED <<store, owner>>
  PROVE  GatewayInv'
<1>1. CASE row[a] = "acknowledged" /\ Reply(h, "Confirmed")
  <2>1. a \in complete
    BY <1>1 DEF GatewayInv, Receipts
  <2>. QED
    BY <1>1, <2>1, HandlerMovesOn DEF Reply, Replied, Truthful
<1>2. CASE row[a] = "pending" /\ Goto(h, At("pendingResult", a))
  BY <1>2, HandlerMovesOn DEF At, Truthful
<1>3. CASE row[a] = "none" /\ refusal[a] # NoRefusal /\ Reply(h, "NotDispatched")
  BY <1>3, HandlerMovesOn DEF Reply, Replied, Truthful
<1>. QED
  BY <1>1, <1>2, <1>3 DEF ExistingResponse

\* A new UUID: its tombstone, or its row, and then nothing else is pending.
LEMMA BeginKeeps ==
  ASSUME GatewayInv, NEW h \in Handler, NEW a \in Attempt, BeginRequest(h, a)
  PROVE  GatewayInv'
<1>. DEFINE verdict == Verdict(handler[h].safe)
<1>0. handler[h].pc = "begin" /\ handler[h].id = a
  BY DEF BeginRequest, On
<1>1. CASE ExistingResponse(h, a) /\ UNCHANGED store
  BY <1>0, <1>1, ExistingIsTrue DEF BeginRequest
<1>2. CASE /\ Unknown(a) /\ verdict # NoRefusal
           /\ refusal' = [refusal EXCEPT ![a] = verdict]
           /\ Reply(h, "NotDispatched")
           /\ UNCHANGED <<row, updatedAt>>
  <2>. DEFINE next == Replied(a, "NotDispatched")
  <2>1. /\ handler' = [handler EXCEPT ![h] = next]
        /\ row' = row /\ complete' = complete
        /\ inFlight' = inFlight /\ pulses' = pulses
    BY <1>0, <1>2 DEF BeginRequest, Reply, Goto, owner
  <2>2. handler'[h] = next /\ \A g \in Handler \ {h} : handler'[g] = handler[g]
    BY <2>1 DEF GatewayInv, Typed
  <2>3. refusal'[a] = verdict /\ \A b \in Attempt \ {a} : refusal'[b] = refusal[b]
    BY <1>2 DEF GatewayInv, Typed
  <2>4. row[a] = "none" /\ verdict # NoRefusal
    BY <1>2 DEF Unknown
  <2>. HIDE DEF verdict
  <2>5. Typed'
    BY <1>2, <2>1 DEF GatewayInv, Typed
  <2>6. Named'
    BY <2>2 DEF GatewayInv, Named, Replied
  <2>7. Senders' /\ Receipts'
    BY <2>1, <2>2 DEF GatewayInv, Senders, Receipts, On, Replied
  <2>8. Dispatched' /\ OnePending'
    BY <2>1, <2>3, <2>4 DEF GatewayInv, Dispatched, OnePending
  <2>9. Truth'
    <3>1. Truthful(next)'
      BY <2>3, <2>4 DEF Truthful, Replied
    <3>2. ASSUME NEW g \in Handler \ {h} PROVE Truthful(handler[g])'
      <4>1. Truthful(handler[g]) /\ handler'[g] = handler[g]
        BY <2>2 DEF GatewayInv, Truth
      <4>2. handler[g].pc = "replied" => handler[g].id \in Attempt
        BY DEF GatewayInv, Named
      <4>3. refusal[handler[g].id] # NoRefusal /\ handler[g].id \in Attempt
            => refusal'[handler[g].id] # NoRefusal
        BY <2>3, <2>4
      <4>. QED
        BY <2>1, <4>1, <4>2, <4>3 DEF Truthful
    <3>. QED
      BY <2>2, <3>1, <3>2 DEF Truth
  <2>. QED
    BY <2>5, <2>6, <2>7, <2>8, <2>9 DEF GatewayInv
<1>3. CASE /\ Unknown(a) /\ verdict = NoRefusal
           /\ row' = [row EXCEPT ![a] = "pending"]
           /\ Goto(h, At("command", a))
           /\ UNCHANGED refusal
  <2>1. ~PendingExists
    BY <1>3 DEF Verdict, NoRefusal
  <2>2. /\ handler' = [handler EXCEPT ![h] = At("command", a)]
        /\ refusal' = refusal /\ complete' = complete
        /\ inFlight' = inFlight /\ pulses' = pulses
    BY <1>3 DEF BeginRequest, Goto, owner
  <2>3. /\ handler'[h] = At("command", a)
        /\ \A g \in Handler \ {h} : handler'[g] = handler[g]
    BY <2>2 DEF GatewayInv, Typed
  <2>4. row'[a] = "pending" /\ \A b \in Attempt \ {a} : row'[b] = row[b]
    BY <1>3 DEF GatewayInv, Typed
  <2>5. row[a] = "none" /\ refusal[a] = NoRefusal
    BY <1>3 DEF Unknown
  <2>6. inFlight[a] = 0 /\ pulses[a] = 0
    BY <2>5 DEF GatewayInv, Dispatched
  <2>7. Typed' /\ Named'
    BY <1>3, <2>2, <2>3 DEF GatewayInv, Typed, Named, At
  <2>8. Senders'
    BY <2>2, <2>3, <2>4, <2>5, <2>6 DEF GatewayInv, Senders, On, At
  <2>9. Dispatched'
    BY <2>2, <2>4, <2>5 DEF GatewayInv, Dispatched
  <2>10. Receipts'
    BY <2>2, <2>3, <2>4 DEF GatewayInv, Receipts, On, At
  <2>11. OnePending'
    BY <2>1, <2>4 DEF OnePending, PendingExists
  <2>12. Truth'
    BY <2>2, <2>3, <2>4, <2>5 DEF GatewayInv, Named, Truth, Truthful, At
  <2>. QED
    BY <2>7, <2>8, <2>9, <2>10, <2>11, <2>12 DEF GatewayInv
<1>. QED
  BY <1>1, <1>2, <1>3 DEF BeginRequest

\* The one handler that was to send the command does so, and is done with it.
LEMMA CommandKeeps ==
  ASSUME GatewayInv, NEW h \in Handler, NEW a \in Attempt, CommandFeederRequest(h, a)
  PROVE  GatewayInv'
<1>0. /\ On(h, "command", a) /\ handler[h].id = a
      /\ row[a] = "pending" /\ inFlight[a] = 0 /\ pulses[a] = 0
      /\ \A g \in Handler : On(g, "command", a) => g = h
  BY DEF CommandFeederRequest, GatewayInv, Senders, On
<1>1. PICK next \in {At("wait", a), Replied(a, "Ambiguous")} : Goto(h, next)
  BY <1>0 DEF CommandFeederRequest, Reply
<1>2. next.pc \in {"wait", "replied"} /\ next.id = a /\ Truthful(next) /\ Truthful(next)'
  BY <1>1 DEF At, Replied, Truthful
<1>3. /\ row' = row /\ refusal' = refusal /\ complete' = complete /\ pulses' = pulses
      /\ UNCHANGED <<store, fedAt>>
  BY DEF CommandFeederRequest, store
<1>4. CASE UNCHANGED inFlight
  BY <1>1, <1>2, <1>3, <1>4, HandlerMovesOn DEF owner
<1>5. CASE inFlight' = [inFlight EXCEPT ![a] = @ + 1]
  <2>1. inFlight'[a] = 1 /\ \A b \in Attempt \ {a} : inFlight'[b] = inFlight[b]
    BY <1>0, <1>5 DEF GatewayInv, Typed
  <2>2. /\ handler' = [handler EXCEPT ![h] = next] /\ handler'[h] = next
        /\ \A g \in Handler \ {h} : handler'[g] = handler[g]
    BY <1>1 DEF GatewayInv, Typed, Goto
  <2>3. Typed'
    BY <1>3, <1>5, <2>2 DEF GatewayInv, Typed
  <2>4. Named'
    BY <1>2, <2>2 DEF GatewayInv, Named
  <2>5. Senders'
    BY <1>0, <1>2, <1>3, <2>1, <2>2 DEF GatewayInv, Senders, On
  <2>6. Dispatched' /\ OnePending'
    BY <1>0, <1>3, <2>1 DEF GatewayInv, Dispatched, OnePending
  <2>7. Receipts'
    BY <1>2, <1>3, <2>2 DEF GatewayInv, Receipts, On
  <2>8. Truth'
    BY <1>2, <1>3, <2>2 DEF GatewayInv, Truth, Truthful
  <2>. QED
    BY <2>3, <2>4, <2>5, <2>6, <2>7, <2>8 DEF GatewayInv
<1>. QED
  BY <1>4, <1>5 DEF CommandFeederRequest

\* Only a feed with its receipt is acknowledged, and it is nobody's to send.
LEMMA MarkKeeps ==
  ASSUME GatewayInv, NEW h \in Handler, NEW a \in Attempt, MarkAcknowledged(h, a)
  PROVE  GatewayInv'
<1>0. On(h, "mark", a) /\ handler[h].id = a /\ a \in complete /\ pulses[a] > 0
  BY DEF MarkAcknowledged, GatewayInv, Receipts, On
<1>1. CASE UNCHANGED <<row, updatedAt>>
  <2>1. PICK reply \in {"Confirmed", "Failure"} :
          Reply(h, reply) /\ (reply = "Confirmed" => row[a] = "acknowledged")
    <3>1. row[a] = "pending" => row'[a] = "pending"
      BY <1>1
    <3>2. row[a] = "pending" /\ row' = [row EXCEPT ![a] = "acknowledged"]
          => row'[a] = "acknowledged"
      BY DEF GatewayInv, Typed
    <3>. QED
      BY <3>1, <3>2 DEF MarkAcknowledged
  <2>2. Truthful(Replied(a, reply))
    BY <1>0, <2>1 DEF Truthful, Replied
  <2>. QED
    BY <1>0, <1>1, <2>1, <2>2, HandlerMovesOn
       DEF MarkAcknowledged, Reply, Replied, store
<1>2. CASE /\ row[a] = "pending" /\ row' = [row EXCEPT ![a] = "acknowledged"]
           /\ Reply(h, "Confirmed")
  <2>. DEFINE next == Replied(a, "Confirmed")
  <2>1. /\ handler' = [handler EXCEPT ![h] = next]
        /\ refusal' = refusal /\ complete' = complete
        /\ inFlight' = inFlight /\ pulses' = pulses
    BY <1>0, <1>2 DEF MarkAcknowledged, Reply, Goto, owner
  <2>2. handler'[h] = next /\ \A g \in Handler \ {h} : handler'[g] = handler[g]
    BY <2>1 DEF GatewayInv, Typed
  <2>3. row'[a] = "acknowledged" /\ \A b \in Attempt \ {a} : row'[b] = row[b]
    BY <1>2 DEF GatewayInv, Typed
  <2>4. \A g \in Handler : ~On(g, "command", a)
    <3>1. pulses[a] # 0
      BY <1>0 DEF GatewayInv, Typed
    <3>. QED
      BY <3>1 DEF GatewayInv, Senders
  <2>5. Typed' /\ Named'
    BY <1>2, <2>1, <2>2 DEF GatewayInv, Typed, Named, Replied
  <2>6. Senders'
    BY <2>1, <2>2, <2>3, <2>4 DEF GatewayInv, Senders, On, Replied
  <2>7. Dispatched'
    BY <1>2, <2>1, <2>3 DEF GatewayInv, Dispatched
  <2>8. Receipts'
    BY <1>0, <2>1, <2>2, <2>3 DEF GatewayInv, Receipts, On, Replied
  <2>9. OnePending'
    BY <2>3 DEF GatewayInv, OnePending
  <2>10. Truth'
    BY <1>0, <2>1, <2>2, <2>3 DEF GatewayInv, Truth, Truthful, Replied, Named
  <2>. QED
    BY <2>5, <2>6, <2>7, <2>8, <2>9, <2>10 DEF GatewayInv
<1>. QED
  BY <1>1, <1>2 DEF MarkAcknowledged

-----------------------------------------------------------------------------
\* A post or a poll that waits for the owner only moves its handler on.
LEMMA HandleKeeps ==
  ASSUME GatewayInv, NEW h \in Handler, NEW a \in Attempt, Handle(h, a)
  PROVE  GatewayInv'
<1>1. CASE PostStatus(h, a)
  <2>0. handler[h].id = a /\ UNCHANGED <<store, owner>>
    BY <1>1 DEF PostStatus, On
  <2>1. CASE ExistingResponse(h, a)
    BY <2>0, <2>1, ExistingIsTrue
  <2>2. CASE Goto(h, At("safety", a))
    BY <2>0, <2>2, HandlerMovesOn DEF At, Truthful
  <2>. QED
    BY <1>1, <2>1, <2>2 DEF PostStatus
<1>2. CASE GetStatus(h, a)
  <2>0. handler[h].id = a /\ UNCHANGED <<store, owner>>
    BY <1>2 DEF GetStatus, On
  <2>1. CASE ExistingResponse(h, a)
    BY <2>0, <2>1, ExistingIsTrue
  <2>2. CASE Reply(h, "Failure")
    BY <2>0, <2>2, HandlerMovesOn DEF Reply, Replied, Truthful
  <2>. QED
    BY <1>2, <2>1, <2>2 DEF GetStatus
<1>3. CASE ReadSafety(h, a)
  <2>1. PICK safe \in {armed, FALSE} : Goto(h, Checked(a, safe))
    BY <1>3 DEF ReadSafety
  <2>. QED
    BY <1>3, <2>1, HandlerMovesOn DEF ReadSafety, Checked, Truthful
<1>4. CASE WaitForAck(h, a)
  <2>0. /\ handler[h].id = a /\ UNCHANGED <<store, owner>>
    BY <1>4 DEF WaitForAck, On
  <2>1. CASE a \in complete /\ Goto(h, At("mark", a))
    BY <2>0, <2>1, HandlerMovesOn DEF At, Truthful
  <2>2. CASE Reply(h, "Ambiguous")
    BY <2>0, <2>2, HandlerMovesOn DEF Reply, Replied, Truthful
  <2>3. CASE UNCHANGED handler
    <3>1. Goto(h, handler[h]) /\ handler[h].pc = "wait" /\ Truthful(handler[h])
      BY <1>4, <2>3 DEF WaitForAck, On, Goto, GatewayInv, Typed, Truth
    <3>. QED
      BY <2>0, <3>1, HandlerMovesOn
  <2>. QED
    BY <1>4, <2>1, <2>2, <2>3 DEF WaitForAck, FeederResult
<1>5. CASE HandleExistingPending(h, a)
  <2>0. handler[h].id = a /\ UNCHANGED <<store, owner>>
    BY <1>5 DEF HandleExistingPending, On
  <2>1. CASE a \in complete /\ Goto(h, At("mark", a))
    BY <2>0, <2>1, HandlerMovesOn DEF At, Truthful
  <2>2. CASE \E reply \in {"Pending", "Ambiguous", "Failure"} : Reply(h, reply)
    BY <2>0, <2>2, HandlerMovesOn DEF Reply, Replied, Truthful
  <2>. QED
    BY <1>5, <2>1, <2>2 DEF HandleExistingPending, FeederResult
<1>. QED
  BY <1>1, <1>2, <1>3, <1>4, <1>5, BeginKeeps, CommandKeeps, MarkKeeps DEF Handle

\* The owner takes a command that was sent: the sum of both counts never grows.
LEMMA OwnerKeeps ==
  ASSUME GatewayInv, NEW a \in Attempt,
         OwnerPulse(a) \/ OwnerDeny(a) \/ OwnerComplete(a)
  PROVE  GatewayInv'
<1>0. /\ row' = row /\ refusal' = refusal /\ handler' = handler
      /\ complete \subseteq complete'
  BY DEF OwnerPulse, OwnerDeny, OwnerComplete, store
<1>1. \A b \in Attempt : inFlight[b] \in Nat /\ pulses[b] \in Nat
  BY DEF GatewayInv, Typed
<1>2. /\ Typed'
      /\ \A b \in Attempt :
           /\ inFlight'[b] + pulses'[b] <= inFlight[b] + pulses[b]
           /\ inFlight[b] + pulses[b] = 0 => inFlight'[b] = 0 /\ pulses'[b] = 0
           /\ pulses[b] > 0 => pulses'[b] > 0
           /\ b \in complete' => pulses'[b] > 0
  <2>0. \A b \in Attempt : b \in complete => pulses[b] > 0
    BY DEF GatewayInv, Receipts
  <2>1. CASE OwnerPulse(a)
    <3>1. /\ inFlight'[a] = inFlight[a] - 1 /\ pulses'[a] = pulses[a] + 1
          /\ \A b \in Attempt \ {a} : inFlight'[b] = inFlight[b] /\ pulses'[b] = pulses[b]
          /\ inFlight[a] > 0 /\ complete' = complete
      BY <2>1 DEF OwnerPulse, GatewayInv, Typed
    <3>2. Typed'
      BY <2>1, <1>0, <1>1 DEF OwnerPulse, GatewayInv, Typed
    <3>. QED
      BY <1>1, <2>0, <3>1, <3>2
  <2>2. CASE OwnerDeny(a)
    <3>1. /\ inFlight'[a] = inFlight[a] - 1 /\ pulses' = pulses
          /\ \A b \in Attempt \ {a} : inFlight'[b] = inFlight[b]
          /\ inFlight[a] > 0 /\ complete' = complete
      BY <2>2 DEF OwnerDeny, GatewayInv, Typed
    <3>2. Typed'
      BY <2>2, <1>0, <1>1 DEF OwnerDeny, GatewayInv, Typed
    <3>. QED
      BY <1>1, <2>0, <3>1, <3>2
  <2>3. CASE OwnerComplete(a)
    <3>1. /\ inFlight' = inFlight /\ pulses' = pulses
          /\ complete' = complete \cup {a} /\ pulses[a] > 0
      BY <2>3 DEF OwnerComplete
    <3>2. Typed'
      BY <1>0, <3>1 DEF GatewayInv, Typed
    <3>. QED
      BY <1>1, <2>0, <3>1, <3>2
  <2>. QED
    BY <2>1, <2>2, <2>3
<1>3. \A b \in Attempt : inFlight'[b] \in Nat /\ pulses'[b] \in Nat
  BY <1>2 DEF Typed
<1>4. Senders'
  BY <1>0, <1>1, <1>2 DEF GatewayInv, Senders, On
<1>5. Dispatched' /\ OnePending'
  BY <1>0, <1>1, <1>2, <1>3 DEF GatewayInv, Dispatched, OnePending
<1>6. Receipts'
  BY <1>0, <1>2 DEF GatewayInv, Receipts, On
<1>7. Truth' /\ Named'
  BY <1>0 DEF GatewayInv, Truth, Truthful, Named
<1>. QED
  BY <1>2, <1>4, <1>5, <1>6, <1>7 DEF GatewayInv

LEMMA StepGateway == GatewayInv /\ [Next]_vars => GatewayInv'
<1>. SUFFICES ASSUME GatewayInv, [Next]_vars PROVE GatewayInv'
  OBVIOUS
<1>1. ASSUME NEW h \in Handler, NEW a \in Attempt,
             Post(h, a) \/ Get(h, a) \/ Handle(h, a)
      PROVE  GatewayInv'
  <2>1. CASE Handle(h, a)
    BY <2>1, HandleKeeps
  <2>2. CASE Post(h, a) \/ Get(h, a)
    BY <2>2, HandlerMovesOn DEF Post, Get, Accept, At, Truthful
  <2>. QED
    BY <1>1, <2>1, <2>2
<1>2. ASSUME NEW h \in Handler, Timeout(h) \/ Close(h) PROVE GatewayInv'
  <2>1. CASE Timeout(h)
    <3>1. handler[h].id \in Attempt
      BY <2>1 DEF Timeout, Busy, GatewayInv, Named
    <3>. QED
      BY <2>1, <3>1, HandlerMovesOn DEF Timeout, Reply, Replied, Truthful
  <2>2. CASE Close(h)
    BY <2>2, HandlerMovesOn DEF Close, Idle, Truthful
  <2>. QED
    BY <1>2, <2>1, <2>2
<1>3. ASSUME NEW a \in Attempt, OwnerPulse(a) \/ OwnerDeny(a) \/ OwnerComplete(a)
      PROVE  GatewayInv'
  BY <1>3, OwnerKeeps
<1>4. ASSUME UNCHANGED <<store, handler, owner>> PROVE GatewayInv'
  <2>1. /\ row' = row /\ refusal' = refusal /\ handler' = handler
        /\ inFlight' = inFlight /\ pulses' = pulses /\ complete' = complete
    BY <1>4 DEF store, owner
  <2>2. Typed' /\ Named' /\ Senders' /\ Dispatched'
    BY <2>1 DEF GatewayInv, Typed, Named, Senders, Dispatched, On
  <2>3. Receipts' /\ OnePending' /\ Truth'
    BY <2>1 DEF GatewayInv, Receipts, OnePending, Truth, Truthful, On
  <2>. QED
    BY <2>2, <2>3 DEF GatewayInv
<1>. QED
  BY <1>1, <1>2, <1>3, <1>4 DEF Next, Switch, Tick, vars

LEMMA GatewayAlways == Spec => []GatewayInv
BY InitGateway, StepGateway, PTL DEF Spec

-----------------------------------------------------------------------------
(***************************************************************************)
(* Posted, polled, interrupted and repeated in any order by any number of  *)
(* handlers, a UUID is commanded at most once, and never once refused.     *)
(***************************************************************************)
THEOREM DispatchedOnce == Spec => []AtMostOneDispatch
<1>1. GatewayInv => AtMostOneDispatch
  <2>. SUFFICES ASSUME GatewayInv, NEW a \in Attempt
                PROVE  LET sending == {h \in Handler : On(h, "command", a)} IN
                         /\ Cardinality(sending) + inFlight[a] + pulses[a] <= 1
                         /\ refusal[a] # NoRefusal =>
                              row[a] = "none" /\ pulses[a] + inFlight[a] = 0 /\ sending = {}
    BY DEF AtMostOneDispatch
  <2>. DEFINE sending == {h \in Handler : On(h, "command", a)}
  <2>1. /\ inFlight[a] \in Nat /\ pulses[a] \in Nat /\ inFlight[a] + pulses[a] <= 1
        /\ row[a] = "none" => inFlight[a] = 0 /\ pulses[a] = 0
        /\ refusal[a] # NoRefusal => row[a] = "none"
    BY DEF GatewayInv, Typed, Dispatched
  <2>2. CASE sending = {}
    BY <2>1, <2>2, FS_EmptySet
  <2>3. CASE sending # {}
    <3>1. PICK h \in Handler : On(h, "command", a)
      BY <2>3
    <3>2. /\ sending = {h} /\ row[a] = "pending"
          /\ inFlight[a] = 0 /\ pulses[a] = 0
      BY <3>1 DEF GatewayInv, Senders
    <3>3. Cardinality(sending) = 1
      BY <3>2, FS_Singleton
    <3>. QED
      BY <2>1, <3>2, <3>3
  <2>. QED
    BY <2>2, <2>3
<1>. QED
  BY <1>1, GatewayAlways, PTL

(***************************************************************************)
(* Whatever the limits and the clock, no second feed is commanded or       *)
(* pulsing before the first one has its receipt.                           *)
(***************************************************************************)
THEOREM FeedsOneAtATime == Spec => []OneFeedAtATime
<1>1. GatewayInv => OneFeedAtATime
  <2>. SUFFICES ASSUME GatewayInv, NEW a \in Attempt,
                       inFlight[a] > 0 \/ (pulses[a] > 0 /\ a \notin complete)
                PROVE  row[a] = "pending"
    BY DEF OneFeedAtATime, GatewayInv, OnePending
  <2>1. inFlight[a] \in Nat /\ pulses[a] \in Nat /\ inFlight[a] + pulses[a] <= 1
    BY DEF GatewayInv, Typed, Dispatched
  <2>2. row[a] # "none"
    BY <2>1 DEF GatewayInv, Dispatched
  <2>3. row[a] # "acknowledged"
    BY <2>1 DEF GatewayInv, Receipts
  <2>. QED
    BY <2>2, <2>3 DEF GatewayInv, Typed
<1>. QED
  BY <1>1, GatewayAlways, PTL

(***************************************************************************)
(* A client hears Confirmed only of a feed that took place, NotDispatched  *)
(* only of one that never will.                                            *)
(***************************************************************************)
THEOREM ClientsAreToldTheTruth == Spec => []RepliesAreTrue
<1>1. GatewayInv => RepliesAreTrue
  BY DEF GatewayInv, Truth, Truthful, RepliesAreTrue
<1>. QED
  BY <1>1, GatewayAlways, PTL

-----------------------------------------------------------------------------
(***************************************************************************)
(* The rate limits.  The store counts an admitted feed from its admission  *)
(* and an acknowledged one from its acknowledgement; a feed takes place in *)
(* between, and while one is pending nobody else is admitted.  So what an  *)
(* admission saw bounds where the pulse that follows it falls.             *)
(***************************************************************************)
\* Times of the store and of the owner are in the past.
Clocks ==
  /\ now \in Nat
  /\ updatedAt \in [Attempt -> Nat]
  /\ fedAt \in [Attempt -> Nat]
  /\ \A a \in Attempt : updatedAt[a] <= now /\ fedAt[a] <= now

\* A feed takes place between its admission and its acknowledgement, and the
\* row of a feed tells the time of the one or of the other.
FedInBetween ==
  \A a \in Attempt :
    /\ row[a] = "acknowledged" => fedAt[a] <= updatedAt[a]
    /\ row[a] = "pending" /\ pulses[a] > 0 => updatedAt[a] <= fedAt[a]

\* What the admission of the pending feed looked at is still what is stored.
Before(a) == {b \in Rows \ {a} : updatedAt[b] >= updatedAt[a] - Window}

AdmittedInTime ==
  \A a \in Attempt : row[a] = "pending" =>
    /\ \A b \in Rows \ {a} : updatedAt[b] + MinInterval <= updatedAt[a]
    /\ Cardinality(Before(a)) < MaxPerHour

\* Feeds within an hour from that of a, and as many as are allowed.
FedAfter(a) ==
  {b \in Attempt \ {a} : /\ pulses[b] > 0
                         /\ fedAt[a] <= fedAt[b]
                         /\ fedAt[b] <= fedAt[a] + Window}

FedInTime ==
  \A a \in Attempt : pulses[a] > 0 =>
    /\ \A b \in Attempt \ {a} :
         pulses[b] > 0 /\ fedAt[a] <= fedAt[b] => fedAt[b] - fedAt[a] >= MinInterval
    /\ Cardinality(FedAfter(a)) < MaxPerHour

RateInv == Clocks /\ IsFiniteSet(Rows) /\ FedInBetween /\ AdmittedInTime /\ FedInTime

\* MAX(updated_at) and MIN(updated_at) of rows that are there.
LEMMA LargestIs ==
  ASSUME NEW T, T \subseteq Nat, T # {}, NEW bound \in Nat, \A y \in T : y <= bound
  PROVE  Largest(T) \in T /\ \A y \in T : y <= Largest(T)
<1>1. \E x \in T : \A y \in T : y <= x
  BY GreatestNatural
<1>. QED
  BY <1>1 DEF Largest

LEMMA SmallestIs ==
  ASSUME NEW T, T \subseteq Nat, T # {}
  PROVE  Smallest(T) \in T /\ \A y \in T : Smallest(T) <= y
<1>1. \E x \in T : \A y \in T : x <= y
  BY LeastNatural
<1>. QED
  BY <1>1 DEF Smallest

LEMMA LargestOfThree ==
  ASSUME NEW x \in Int, NEW y \in Int
  PROVE  LET n == Largest({0, x, y}) IN n \in Int /\ 0 <= n /\ x <= n /\ y <= n
<1>1. \E n \in {0, x, y} : \A m \in {0, x, y} : m <= n
  OBVIOUS
<1>. QED
  BY <1>1 DEF Largest

\* Both delays are numbers, and say what the two limits ask for.
LEMMA DelaysAre ==
  ASSUME RateInv
  PROVE  /\ Delay(now) \in Int
         /\ ~(Delay(now) > 0) => /\ \A b \in Rows : updatedAt[b] + MinInterval <= now
                                 /\ Cardinality(Recent(now)) < MaxPerHour
<1>. USE GatewayAssumption
<1>0. /\ now \in Nat /\ Rows \subseteq Attempt
      /\ \A b \in Rows : updatedAt[b] \in Nat /\ updatedAt[b] <= now
  BY DEF RateInv, Clocks, Rows
<1>1. PICK i \in Int : /\ i = IntervalDelay(now)
                       /\ i <= 0 => \A b \in Rows : updatedAt[b] + MinInterval <= now
  <2>1. CASE Rows = {}
    BY <2>1 DEF IntervalDelay
  <2>2. CASE Rows # {}
    <3>1. Times(Rows) \subseteq Nat /\ Times(Rows) # {} /\ \A y \in Times(Rows) : y <= now
      BY <1>0, <2>2 DEF Times
    <3>2. PICK n \in Nat : n = Largest(Times(Rows)) /\ \A y \in Times(Rows) : y <= n
      BY <1>0, <3>1, LargestIs
    <3>3. \A b \in Rows : updatedAt[b] <= n
      BY <3>2 DEF Times
    <3>4. IntervalDelay(now) = n + MinInterval - now
      BY <2>2, <3>2 DEF IntervalDelay
    <3>. QED
      BY <1>0, <3>3, <3>4
  <2>. QED
    BY <2>1, <2>2
<1>2. IsFiniteSet(Recent(now)) /\ Cardinality(Recent(now)) \in Nat
  <2>1. Recent(now) \in SUBSET Rows
    BY DEF Recent
  <2>. QED
    BY <2>1, FS_Subset, FS_CardinalityType DEF RateInv
<1>3. PICK c \in Int : /\ c = CapDelay(now)
                       /\ c <= 0 => Cardinality(Recent(now)) < MaxPerHour
  <2>1. CASE Cardinality(Recent(now)) < MaxPerHour
    BY <1>2, <2>1 DEF CapDelay
  <2>2. CASE ~(Cardinality(Recent(now)) < MaxPerHour)
    <3>1. Recent(now) # {}
      BY <1>2, <2>2, FS_EmptySet
    <3>2. /\ Times(Recent(now)) \subseteq Nat /\ Times(Recent(now)) # {}
          /\ \A y \in Times(Recent(now)) : y >= now - Window
      BY <1>0, <3>1 DEF Times, Recent
    <3>3. PICK n \in Nat : n = Smallest(Times(Recent(now))) /\ n >= now - Window
      BY <3>2, SmallestIs
    <3>4. CapDelay(now) = n + Window + 1 - now
      BY <1>2, <2>2, <3>3 DEF CapDelay
    <3>. QED
      BY <1>0, <3>3, <3>4
  <2>. QED
    BY <2>1, <2>2
<1>4. PICK n \in Int : n = Delay(now) /\ 0 <= n /\ i <= n /\ c <= n
  BY <1>1, <1>3, LargestOfThree DEF Delay
<1>. QED
  BY <1>1, <1>3, <1>4

\* Who is admitted: nobody is pending, and both limits are kept.
LEMMA AdmissionIs ==
  ASSUME RateInv, NEW safe, Verdict(safe) = NoRefusal
  PROVE  /\ ~PendingExists
         /\ \A b \in Rows : updatedAt[b] + MinInterval <= now
         /\ Cardinality(Recent(now)) < MaxPerHour
<1>1. ~PendingExists /\ ~(Delay(now) > 0)
  BY DEF Verdict, NoRefusal
<1>. QED
  BY <1>1, DelaysAre

LEMMA InitRate == Init => RateInv
<1>. SUFFICES ASSUME Init PROVE RateInv
  OBVIOUS
<1>1. Rows = {}
  BY DEF Init, Rows
<1>2. IsFiniteSet(Rows)
  BY <1>1, FS_EmptySet
<1>3. Clocks /\ FedInBetween /\ AdmittedInTime /\ FedInTime
  BY DEF Init, Clocks, FedInBetween, AdmittedInTime, FedInTime
<1>. QED
  BY <1>2, <1>3 DEF RateInv

\* Time alone, and every step that leaves rows and pulses, keeps the limits.
LEMMA QuietKeeps ==
  ASSUME RateInv, UNCHANGED <<row, updatedAt, pulses, fedAt>>, now' \in {now, now + 1}
  PROVE  RateInv'
<1>1. Clocks'
  BY DEF RateInv, Clocks
<1>2. Rows' = Rows
  BY DEF Rows
<1>3. FedInBetween'
  BY DEF RateInv, FedInBetween
<1>4. AdmittedInTime'
  <2>1. ASSUME NEW a \in Attempt PROVE Before(a)' = Before(a)
    BY <1>2 DEF Before
  <2>. QED
    BY <1>2, <2>1 DEF RateInv, AdmittedInTime
<1>5. FedInTime'
  <2>1. ASSUME NEW a \in Attempt PROVE FedAfter(a)' = FedAfter(a)
    BY DEF FedAfter
  <2>. QED
    BY <2>1 DEF RateInv, FedInTime
<1>. QED
  BY <1>1, <1>2, <1>3, <1>4, <1>5 DEF RateInv

\* An admission: the new row is the latest, and the hour has room for it.
LEMMA AdmissionKeeps ==
  ASSUME RateInv, GatewayInv, NEW a \in Attempt, row[a] = "none",
         NEW safe, Verdict(safe) = NoRefusal,
         row' = [row EXCEPT ![a] = "pending"],
         updatedAt' = [updatedAt EXCEPT ![a] = now],
         UNCHANGED <<now, pulses, fedAt>>
  PROVE  RateInv'
<1>. USE GatewayAssumption
<1>0. /\ pulses[a] = 0 /\ now \in Nat
      /\ row'[a] = "pending" /\ \A b \in Attempt \ {a} : row'[b] = row[b]
      /\ updatedAt'[a] = now /\ \A b \in Attempt \ {a} : updatedAt'[b] = updatedAt[b]
  BY DEF GatewayInv, Typed, Dispatched, RateInv, Clocks
<1>1. /\ \A b \in Attempt : row[b] # "pending"
      /\ \A b \in Rows : updatedAt[b] + MinInterval <= now
      /\ Cardinality(Recent(now)) < MaxPerHour
  BY AdmissionIs DEF PendingExists
<1>2. Clocks'
  BY DEF RateInv, Clocks
<1>3. Rows' = Rows \cup {a} /\ Rows' \ {a} = Rows /\ IsFiniteSet(Rows')
  <2>1. Rows' = Rows \cup {a} /\ a \notin Rows
    BY <1>0 DEF Rows
  <2>. QED
    BY <2>1, FS_AddElement DEF RateInv
<1>4. FedInBetween'
  BY <1>0 DEF RateInv, FedInBetween
<1>5. Before(a)' = Recent(now)
  <2>1. \A b \in Rows : b \in Attempt \ {a}
    BY <1>0 DEF Rows
  <2>. QED
    BY <1>0, <1>3, <2>1 DEF Before, Recent
<1>6. AdmittedInTime'
  <2>. SUFFICES ASSUME NEW c \in Attempt, row'[c] = "pending"
                PROVE  /\ \A b \in Rows' \ {c} : updatedAt'[b] + MinInterval <= updatedAt'[c]
                       /\ Cardinality(Before(c)') < MaxPerHour
    BY DEF AdmittedInTime
  <2>1. c = a
    BY <1>0, <1>1
  <2>2. \A b \in Rows : updatedAt'[b] = updatedAt[b]
    BY <1>0 DEF Rows
  <2>. QED
    BY <1>0, <1>1, <1>3, <1>5, <2>1, <2>2
<1>7. FedInTime'
  <2>1. ASSUME NEW c \in Attempt PROVE FedAfter(c)' = FedAfter(c)
    BY DEF FedAfter
  <2>. QED
    BY <2>1 DEF RateInv, FedInTime
<1>. QED
  BY <1>2, <1>3, <1>4, <1>6, <1>7 DEF RateInv

\* An acknowledgement moves the time of the one pending row, to after its pulse.
LEMMA AcknowledgementKeeps ==
  ASSUME RateInv, GatewayInv, NEW a \in Attempt, row[a] = "pending",
         row' = [row EXCEPT ![a] = "acknowledged"],
         updatedAt' = [updatedAt EXCEPT ![a] = now],
         UNCHANGED <<now, pulses, fedAt>>
  PROVE  RateInv'
<1>0. /\ now \in Nat
      /\ row'[a] = "acknowledged" /\ \A b \in Attempt \ {a} : row'[b] = row[b]
      /\ updatedAt'[a] = now /\ \A b \in Attempt \ {a} : updatedAt'[b] = updatedAt[b]
  BY DEF GatewayInv, Typed, RateInv, Clocks
<1>1. \A b \in Attempt : row'[b] # "pending"
  BY <1>0 DEF GatewayInv, OnePending
<1>2. Clocks'
  BY DEF RateInv, Clocks
<1>3. Rows' = Rows
  BY <1>0 DEF Rows
<1>4. FedInBetween' /\ AdmittedInTime'
  BY <1>0, <1>1 DEF RateInv, Clocks, FedInBetween, AdmittedInTime
<1>5. FedInTime'
  <2>1. ASSUME NEW c \in Attempt PROVE FedAfter(c)' = FedAfter(c)
    BY DEF FedAfter
  <2>. QED
    BY <2>1 DEF RateInv, FedInTime
<1>. QED
  BY <1>2, <1>3, <1>4, <1>5 DEF RateInv

(***************************************************************************)
(* A pulse now: its row is the pending one, every earlier feed is          *)
(* acknowledged, at least the interval before the admission, and those     *)
(* within the last hour are among the rows the admission counted.          *)
(***************************************************************************)
LEMMA PulseKeeps ==
  ASSUME RateInv, GatewayInv, NEW c \in Attempt, OwnerPulse(c)
  PROVE  RateInv'
<1>. USE GatewayAssumption
<1>1. /\ row[c] = "pending" /\ pulses[c] = 0 /\ now \in Nat
      /\ row' = row /\ updatedAt' = updatedAt /\ now' = now
  <2>1. inFlight[c] > 0 /\ inFlight[c] \in Nat /\ pulses[c] \in Nat
    BY DEF OwnerPulse, GatewayInv, Typed
  <2>2. pulses[c] = 0 /\ row[c] # "none"
    BY <2>1 DEF GatewayInv, Dispatched
  <2>3. row[c] # "acknowledged"
    BY <2>2 DEF GatewayInv, Receipts
  <2>. QED
    BY <2>2, <2>3 DEF OwnerPulse, store, GatewayInv, Typed, RateInv, Clocks
<1>2. /\ pulses'[c] > 0 /\ \A b \in Attempt \ {c} : pulses'[b] = pulses[b]
      /\ fedAt'[c] = now /\ \A b \in Attempt \ {c} : fedAt'[b] = fedAt[b]
  BY <1>1 DEF OwnerPulse, GatewayInv, Typed, RateInv, Clocks
<1>3. Clocks'
  BY <1>1 DEF OwnerPulse, RateInv, Clocks
<1>4. Rows' = Rows
  BY <1>1 DEF Rows
<1>5. FedInBetween'
  BY <1>1, <1>2 DEF RateInv, Clocks, FedInBetween
<1>6. AdmittedInTime'
  <2>1. ASSUME NEW a \in Attempt PROVE Before(a)' = Before(a)
    BY <1>1, <1>4 DEF Before
  <2>. QED
    BY <1>1, <1>4, <2>1 DEF RateInv, AdmittedInTime
<1>7. ASSUME NEW b \in Attempt \ {c}, pulses[b] > 0
      PROVE  /\ b \in Rows /\ fedAt[b] \in Nat /\ updatedAt[b] \in Nat
             /\ fedAt[b] <= updatedAt[b]
             /\ updatedAt[b] + MinInterval <= updatedAt[c]
             /\ updatedAt[c] \in Nat /\ updatedAt[c] <= now
  <2>1. row[b] = "acknowledged"
    <3>1. row[b] # "none"
      BY <1>7 DEF GatewayInv, Dispatched
    <3>2. row[b] # "pending"
      BY <1>1 DEF GatewayInv, OnePending
    <3>. QED
      BY <3>1, <3>2 DEF GatewayInv, Typed
  <2>2. b \in Rows \ {c} /\ fedAt[b] <= updatedAt[b]
    BY <2>1 DEF Rows, RateInv, FedInBetween
  <2>. QED
    BY <1>1, <2>2 DEF RateInv, Clocks, AdmittedInTime
<1>8. FedInTime'
  <2>. SUFFICES ASSUME NEW a \in Attempt, pulses'[a] > 0
                PROVE  /\ \A b \in Attempt \ {a} : pulses'[b] > 0 /\ fedAt'[a] <= fedAt'[b]
                            => fedAt'[b] - fedAt'[a] >= MinInterval
                       /\ Cardinality(FedAfter(a)') < MaxPerHour
    BY DEF FedInTime
  <2>1. CASE a = c
    <3>1. \A b \in Attempt \ {c} : pulses'[b] > 0 => ~(now <= fedAt'[b])
      BY <1>1, <1>2, <1>7
    <3>2. FedAfter(c)' = {}
      BY <1>2, <3>1 DEF FedAfter
    <3>. QED
      BY <1>2, <2>1, <3>1, <3>2, FS_EmptySet
  <2>2. CASE a # c
    <3>0. /\ pulses[a] > 0 /\ fedAt'[a] = fedAt[a] /\ fedAt[a] \in Nat
          /\ fedAt[a] + MinInterval <= now
      BY <1>1, <1>2, <1>7, <2>2
    <3>1. \A b \in Attempt \ {a} : pulses'[b] > 0 /\ fedAt'[a] <= fedAt'[b]
            => fedAt'[b] - fedAt'[a] >= MinInterval
      BY <1>1, <1>2, <3>0 DEF RateInv, FedInTime
    <3>2. CASE now > fedAt[a] + Window
      <4>1. FedAfter(a)' = FedAfter(a)
        BY <1>1, <1>2, <3>0, <3>2 DEF FedAfter
      <4>. QED
        BY <3>0, <3>1, <4>1 DEF RateInv, FedInTime
    <3>3. CASE ~(now > fedAt[a] + Window)
      <4>1. FedAfter(a)' \subseteq (Before(c) \ {a}) \cup {c}
        <5>. SUFFICES ASSUME NEW b \in FedAfter(a)', b # c
                      PROVE  b \in Before(c) \ {a}
          OBVIOUS
        <5>1. b \in Attempt \ {a} /\ pulses[b] > 0 /\ fedAt[a] <= fedAt[b]
          BY <1>2, <3>0 DEF FedAfter
        <5>2. updatedAt[b] >= updatedAt[c] - Window /\ b \in Rows
          BY <1>1, <1>7, <3>0, <3>3, <5>1
        <5>. QED
          BY <5>1, <5>2 DEF Before
      <4>2. a \in Before(c)
        <5>1. updatedAt[a] >= updatedAt[c] - Window /\ a \in Rows
          BY <1>1, <1>7, <2>2, <3>0, <3>3
        <5>. QED
          BY <2>2, <5>1 DEF Before
      <4>3. IsFiniteSet(Before(c)) /\ Cardinality(Before(c)) < MaxPerHour
        <5>1. Before(c) \in SUBSET Rows
          BY DEF Before
        <5>. QED
          BY <1>1, <5>1, FS_Subset DEF RateInv, AdmittedInTime
      <4>4. c \notin Before(c) \ {a}
        BY DEF Before
      <4>. DEFINE R == Before(c) \ {a}
      <4>5. IsFiniteSet(R) /\ Cardinality(R) = Cardinality(Before(c)) - 1
        BY <4>2, <4>3, FS_RemoveElement
      <4>. HIDE DEF R
      <4>6. IsFiniteSet(R \cup {c}) /\ Cardinality(R \cup {c}) = Cardinality(R) + 1
        BY <4>4, <4>5, FS_AddElement DEF R
      <4>7. /\ Cardinality(FedAfter(a)') <= Cardinality(R \cup {c})
            /\ Cardinality(FedAfter(a)') \in Nat
        <5>1. FedAfter(a)' \in SUBSET (R \cup {c})
          BY <4>1 DEF R
        <5>. QED
          BY <4>6, <5>1, FS_Subset, FS_CardinalityType
      <4>8. Cardinality(Before(c)) \in Nat
        BY <4>3, FS_CardinalityType
      <4>. QED
        BY <3>1, <4>3, <4>5, <4>6, <4>7, <4>8
    <3>. QED
      BY <3>2, <3>3
  <2>. QED
    BY <2>1, <2>2
<1>. QED
  BY <1>3, <1>4, <1>5, <1>6, <1>8 DEF RateInv

\* Every gateway step keeps the limits, given what is known of the handlers.
LEMMA StepRate == RateInv /\ GatewayInv /\ [Next]_vars => RateInv'
<1>. SUFFICES ASSUME RateInv, GatewayInv, [Next]_vars PROVE RateInv'
  OBVIOUS
<1>0. now \in Nat
  BY DEF RateInv, Clocks
<1>1. ASSUME NEW h \in Handler, NEW a \in Attempt, BeginRequest(h, a) PROVE RateInv'
  <2>1. CASE UNCHANGED store
    BY <1>1, <2>1, QuietKeeps DEF BeginRequest, store, owner
  <2>2. CASE UNCHANGED <<row, updatedAt>>
    BY <1>1, <2>2, QuietKeeps DEF BeginRequest, owner
  <2>3. CASE /\ Unknown(a) /\ Verdict(handler[h].safe) = NoRefusal
             /\ row' = [row EXCEPT ![a] = "pending"]
             /\ updatedAt' = [updatedAt EXCEPT ![a] = now]
    BY <1>1, <2>3, AdmissionKeeps DEF BeginRequest, Unknown, owner
  <2>. QED
    BY <1>1, <2>1, <2>2, <2>3 DEF BeginRequest
<1>2. ASSUME NEW h \in Handler, NEW a \in Attempt, MarkAcknowledged(h, a) PROVE RateInv'
  <2>1. CASE UNCHANGED <<row, updatedAt>>
    BY <1>2, <2>1, QuietKeeps DEF MarkAcknowledged, owner
  <2>2. CASE /\ row[a] = "pending"
             /\ row' = [row EXCEPT ![a] = "acknowledged"]
             /\ updatedAt' = [updatedAt EXCEPT ![a] = now]
    BY <1>2, <2>2, AcknowledgementKeeps DEF MarkAcknowledged, owner
  <2>. QED
    BY <1>2, <2>1, <2>2 DEF MarkAcknowledged
<1>3. ASSUME NEW h \in Handler, NEW a \in Attempt,
             \/ Post(h, a) \/ Get(h, a) \/ PostStatus(h, a) \/ GetStatus(h, a)
             \/ ReadSafety(h, a) \/ CommandFeederRequest(h, a) \/ WaitForAck(h, a)
             \/ HandleExistingPending(h, a)
      PROVE  UNCHANGED <<store, now, pulses, fedAt>>
  BY <1>3 DEF Post, Get, Accept, PostStatus, GetStatus, ReadSafety,
              CommandFeederRequest, WaitForAck, HandleExistingPending, owner
<1>4. ASSUME NEW h \in Handler, NEW a \in Attempt, Post(h, a) \/ Get(h, a) \/ Handle(h, a)
      PROVE  RateInv'
  <2>1. CASE UNCHANGED <<store, now, pulses, fedAt>>
    BY <2>1, QuietKeeps DEF store
  <2>. QED
    BY <1>1, <1>2, <1>3, <1>4, <2>1 DEF Handle
<1>5. ASSUME NEW h \in Handler, Timeout(h) \/ Close(h) PROVE RateInv'
  BY <1>5, QuietKeeps DEF Timeout, Close, store, owner
<1>6. ASSUME NEW a \in Attempt, OwnerPulse(a) \/ OwnerDeny(a) \/ OwnerComplete(a)
      PROVE  RateInv'
  <2>1. CASE UNCHANGED <<store, now, pulses, fedAt>>
    BY <2>1, QuietKeeps DEF store
  <2>. QED
    BY <1>6, <2>1, PulseKeeps DEF OwnerDeny, OwnerComplete
<1>7. CASE Switch \/ Tick \/ UNCHANGED vars
  BY <1>0, <1>7, QuietKeeps DEF Switch, Tick, vars, store, owner
<1>. QED
  BY <1>4, <1>5, <1>6, <1>7 DEF Next

LEMMA RateAlways == Spec => [](GatewayInv /\ RateInv)
<1>1. Init => GatewayInv /\ RateInv
  BY InitGateway, InitRate
<1>2. (GatewayInv /\ RateInv) /\ [Next]_vars => (GatewayInv /\ RateInv)'
  BY StepGateway, StepRate
<1>. QED
  BY <1>1, <1>2, PTL DEF Spec

(***************************************************************************)
(* However requests, pulses and acknowledgements interleave, two physical  *)
(* feeds are min_feed_interval apart, and an hour holds no more of them    *)
(* than max_feeds_per_hour.                                                *)
(***************************************************************************)
THEOREM FeedsKeepTheLimits == Spec => []RateLimitsHold
<1>1. RateInv => RateLimitsHold
  <2>. SUFFICES ASSUME RateInv, NEW a \in Attempt, pulses[a] > 0
                PROVE  LET later == {b \in Attempt \ {a} : pulses[b] > 0 /\ fedAt[a] <= fedAt[b]} IN
                         /\ \A b \in later : fedAt[b] - fedAt[a] >= MinInterval
                         /\ Cardinality({b \in later : fedAt[b] <= fedAt[a] + Window}) < MaxPerHour
    BY DEF RateLimitsHold
  <2>. DEFINE later == {b \in Attempt \ {a} : pulses[b] > 0 /\ fedAt[a] <= fedAt[b]}
  <2>1. {b \in later : fedAt[b] <= fedAt[a] + Window} = FedAfter(a)
    BY DEF FedAfter
  <2>. QED
    BY <2>1 DEF RateInv, FedInTime
<1>. QED
  BY <1>1, RateAlways, PTL

-----------------------------------------------------------------------------
(***************************************************************************)
(* The ledger beside the gateway.  The lemmas of FeedLedger_proofs apply   *)
(* to the feeder's copy of the ledger, whose refusals last as long as the  *)
(* gateway says.                                                           *)
(***************************************************************************)
LP == INSTANCE FeedLedger_proofs WITH clock <- now, MaxClock <- MaxTime,
                                      RetrySeconds <- 1..MaxDelay

\* What the ledger's own invariant says, in the words of this module.
Accounts ==
  /\ status \in [Attempt -> {"absent", "intent_committed", "unknown",
                             "confirmed", "reconciled_not_fed"}]
  /\ threshold \in [Attempt -> Nat]
  /\ credit \in Nat
  /\ debited = {a \in Attempt : status[a] = "confirmed"}
  /\ \A a \in Attempt : status[a] \in {"intent_committed", "unknown"} =>
       /\ credit >= threshold[a]
       /\ \A b \in Attempt : status[b] \in {"intent_committed", "unknown"} => b = a


LEMMA LedgerParameters ==
  /\ NoAttempt \notin Attempt
  /\ ThresholdSats \subseteq Nat \ {0}
  /\ PaymentSats \subseteq Nat \ {0}
  /\ 1..MaxDelay \subseteq Nat \ {0}
  /\ MaxSats \in Nat
  /\ MaxTime \in Nat
BY FeederAssumption, GatewayAssumption

LEMMA InitLedger == Ledger!Init => LP!LedgerInv
<1>1. Ledger!Init => LP!Init
  BY DEF Ledger!Init, LP!Init
<1>. QED
  BY <1>1, LedgerParameters, LP!InitLedgerInv

LEMMA LedgerSays == LP!LedgerInv => Accounts
<1>. SUFFICES ASSUME LP!LedgerInv PROVE Accounts
  OBVIOUS
<1>1. /\ status \in [Attempt -> {"absent", "intent_committed", "unknown",
                                "confirmed", "reconciled_not_fed"}]
      /\ threshold \in [Attempt -> Nat]
      /\ credit \in 0..MaxSats
  BY DEF LP!LedgerInv, LP!TypeOK, LP!Statuses, LP!Unresolved, LP!Resolved
<1>2. credit \in Nat
  BY <1>1, FeederAssumption
<1>3. debited = {a \in Attempt : status[a] = "confirmed"}
  BY DEF LP!LedgerInv, LP!Accounting, LP!DebitedExactlyConfirmed
<1>4. \A a \in Attempt : status[a] \in {"intent_committed", "unknown"} =>
       /\ credit >= threshold[a]
       /\ \A b \in Attempt : status[b] \in {"intent_committed", "unknown"} => b = a
  BY DEF LP!LedgerInv, LP!Accounting, LP!SingleUnresolved, LP!ResolvableAttempts,
         LP!UnresolvedAttempts, LP!Unresolved
<1>. QED
  BY <1>1, <1>2, <1>3, <1>4 DEF Accounts

\* Each transaction of the worker, of the operator and of a settlement.
LEMMA LedgerKeeps ==
  ASSUME LP!LedgerInv,
         \/ \E sats \in PaymentSats : Ledger!CreditReceipt(sats)
         \/ Ledger!MarkInterruptedFeedIntentsUnknown
         \/ \E a \in Attempt :
              \/ \E t \in ThresholdSats : Ledger!BeginFeedAttempt(a, t)
              \/ Ledger!MarkFeedUnknown(a)
              \/ Ledger!ConfirmFeedAttempt(a)
              \/ Ledger!ReconcileUnknownAsFed(a)
              \/ Ledger!ReconcileUnknownAsNotFed(a)
              \/ \E retry \in 1..MaxDelay : Ledger!ResolveFeedNotDispatched(a, retry)
  PROVE  LP!LedgerInv'
<1>0. LP!LedgerInv /\ LP!Next => LP!LedgerInv'
  BY LedgerParameters, LP!StepLedgerInv
<1>1. ASSUME NEW sats \in PaymentSats, Ledger!CreditReceipt(sats) PROVE LP!LedgerInv'
  <2>1. LP!CreditReceipt(sats)
    BY <1>1 DEF Ledger!CreditReceipt, LP!CreditReceipt, Ledger!Publish, LP!Publish,
                Ledger!Event, LP!Event
  <2>. QED
    BY <1>0, <2>1 DEF LP!Next
<1>2. ASSUME Ledger!MarkInterruptedFeedIntentsUnknown PROVE LP!LedgerInv'
  <2>1. LP!MarkInterruptedFeedIntentsUnknown
    BY <1>2 DEF Ledger!MarkInterruptedFeedIntentsUnknown,
                LP!MarkInterruptedFeedIntentsUnknown, Ledger!Publish, LP!Publish,
                Ledger!Event, LP!Event
  <2>. QED
    BY <1>0, <2>1 DEF LP!Next
<1>3. ASSUME NEW a \in Attempt, NEW t \in ThresholdSats, Ledger!BeginFeedAttempt(a, t)
      PROVE  LP!LedgerInv'
  <2>1. LP!BeginFeedAttempt(a, t)
    BY <1>3 DEF Ledger!BeginFeedAttempt, LP!BeginFeedAttempt, Ledger!UnresolvedAttempts,
                LP!UnresolvedAttempts, Ledger!Unresolved, LP!Unresolved
  <2>. QED
    BY <1>0, <2>1 DEF LP!Next
<1>4. ASSUME NEW a \in Attempt, Ledger!MarkFeedUnknown(a) PROVE LP!LedgerInv'
  <2>1. LP!MarkFeedUnknown(a)
    BY <1>4 DEF Ledger!MarkFeedUnknown, LP!MarkFeedUnknown, Ledger!Publish, LP!Publish,
                Ledger!Event, LP!Event
  <2>. QED
    BY <1>0, <2>1 DEF LP!Next
<1>5. ASSUME NEW a \in Attempt,
             \/ Ledger!ConfirmFeedAttempt(a)
             \/ Ledger!ReconcileUnknownAsFed(a)
      PROVE  LP!LedgerInv'
  <2>1. \A e : Ledger!ResolveAsFed(a, e) => LP!ResolveAsFed(a, e)
    BY DEF Ledger!ResolveAsFed, LP!ResolveAsFed, Ledger!Publish, LP!Publish,
           Ledger!Event, LP!Event
  <2>2. LP!Resolve(a)
    BY <1>5, <2>1 DEF Ledger!ConfirmFeedAttempt, LP!ConfirmFeedAttempt,
                      Ledger!ReconcileUnknownAsFed, LP!ReconcileUnknownAsFed, LP!Resolve
  <2>. QED
    BY <1>0, <2>2 DEF LP!Next
<1>6. ASSUME NEW a \in Attempt, Ledger!ReconcileUnknownAsNotFed(a) PROVE LP!LedgerInv'
  <2>1. LP!ReconcileUnknownAsNotFed(a)
    BY <1>6 DEF Ledger!ReconcileUnknownAsNotFed, LP!ReconcileUnknownAsNotFed,
                Ledger!Publish, LP!Publish, Ledger!Event, LP!Event
  <2>. QED
    BY <1>0, <2>1 DEF LP!Next, LP!Resolve
<1>7. ASSUME NEW a \in Attempt, NEW retry \in 1..MaxDelay,
             Ledger!ResolveFeedNotDispatched(a, retry)
      PROVE  LP!LedgerInv'
  <2>1. LP!ResolveFeedNotDispatched(a, retry)
    BY <1>7 DEF Ledger!ResolveFeedNotDispatched, LP!ResolveFeedNotDispatched,
                Ledger!Publish, LP!Publish, Ledger!Event, LP!Event,
                Ledger!Later, LP!Later, Ledger!Unresolved, LP!Unresolved
  <2>. QED
    BY <1>0, <2>1 DEF LP!Next, LP!Resolve
<1>. QED
  BY <1>1, <1>2, <1>3, <1>4, <1>5, <1>6, <1>7

\* Time goes on under an unchanged ledger.
LEMMA LedgerWaits ==
  ASSUME LP!LedgerInv, UNCHANGED ledger, now' = now \/ (now < MaxTime /\ now' = now + 1)
  PROVE  LP!LedgerInv'
<1>0. LP!LedgerInv /\ [LP!Next]_(LP!vars) => LP!LedgerInv'
  BY LedgerParameters, LP!StepLedgerInv
<1>1. CASE now' = now
  BY <1>0, <1>1 DEF ledger, LP!vars
<1>2. CASE now < MaxTime /\ now' = now + 1
  <2>1. now + 1 \in 0..MaxTime
    BY <1>2, GatewayAssumption DEF LP!LedgerInv, LP!TypeOK
  <2>2. LP!SetClock(now + 1)
    BY <1>2 DEF LP!SetClock, ledger
  <2>. QED
    BY <1>0, <2>1, <2>2 DEF LP!Next
<1>. QED
  BY <1>1, <1>2

-----------------------------------------------------------------------------
\* The gateway can only refuse for a time the ledger can store.
RefusalsName ==
  \A a \in Attempt : refusal[a] # NoRefusal => refusal[a].retry \in 1..MaxDelay


\* Receipts and tombstones stay, and a new tombstone names a delay in range.
LEMMA OutcomesStay ==
  ASSUME GatewayInv, RateInv, RefusalsName, [Next]_vars
  PROVE  /\ RefusalsName'
         /\ complete \subseteq complete'
         /\ \A a \in Attempt : refusal[a] # NoRefusal => refusal'[a] # NoRefusal
<1>1. ASSUME NEW safe, Verdict(safe) # NoRefusal PROVE Verdict(safe).retry \in 1..MaxDelay
  <2>1. PICK n \in Int : n = Delay(now)
    BY DelaysAre
  <2>. QED
    BY <1>1, <2>1, GatewayAssumption DEF Verdict
<1>2. ASSUME NEW h \in Handler, NEW a \in Attempt, BeginRequest(h, a)
      PROVE  /\ complete' = complete
             /\ \/ refusal' = refusal
                \/ /\ refusal[a] = NoRefusal
                   /\ \E safe : /\ Verdict(safe) # NoRefusal
                               /\ refusal' = [refusal EXCEPT ![a] = Verdict(safe)]
  BY <1>2 DEF BeginRequest, store, owner, Unknown
<1>3. ASSUME NEW h \in Handler, NEW a \in Attempt,
             \/ Post(h, a) \/ Get(h, a) \/ PostStatus(h, a) \/ GetStatus(h, a)
             \/ ReadSafety(h, a) \/ CommandFeederRequest(h, a) \/ WaitForAck(h, a)
             \/ HandleExistingPending(h, a) \/ MarkAcknowledged(h, a)
      PROVE  UNCHANGED <<refusal, complete>>
  BY <1>3 DEF Post, Get, Accept, PostStatus, GetStatus, ReadSafety, CommandFeederRequest,
              WaitForAck, HandleExistingPending, MarkAcknowledged, store, owner
<1>4. ASSUME NEW a \in Attempt, OwnerPulse(a) \/ OwnerDeny(a) \/ OwnerComplete(a)
      PROVE  refusal' = refusal /\ complete \subseteq complete'
  BY <1>4 DEF OwnerPulse, OwnerDeny, OwnerComplete, store
<1>5. ASSUME \/ \E h \in Handler : Timeout(h) \/ Close(h)
             \/ Switch \/ Tick \/ UNCHANGED vars
      PROVE  UNCHANGED <<refusal, complete>>
  BY <1>5 DEF Timeout, Close, Switch, Tick, vars, store, owner
<1>6. CASE refusal' = refusal /\ complete \subseteq complete'
  BY <1>6 DEF RefusalsName
<1>7. CASE \E h \in Handler, a \in Attempt : BeginRequest(h, a)
  <2>1. PICK h \in Handler, a \in Attempt : BeginRequest(h, a)
    BY <1>7
  <2>2. CASE refusal' = refusal
    BY <1>2, <1>6, <2>1, <2>2
  <2>3. ASSUME NEW safe, refusal[a] = NoRefusal, Verdict(safe) # NoRefusal,
               refusal' = [refusal EXCEPT ![a] = Verdict(safe)]
        PROVE  /\ RefusalsName'
               /\ \A b \in Attempt : refusal[b] # NoRefusal => refusal'[b] # NoRefusal
    <3>1. PICK v : v = Verdict(safe)
      OBVIOUS
    <3>2. /\ v # NoRefusal /\ v.retry \in 1..MaxDelay
          /\ refusal'[a] = v /\ \A b \in Attempt \ {a} : refusal'[b] = refusal[b]
      BY <1>1, <2>3, <3>1 DEF GatewayInv, Typed
    <3>. QED
      BY <3>2 DEF RefusalsName
  <2>. QED
    BY <1>2, <2>1, <2>2, <2>3
<1>. QED
  BY <1>3, <1>4, <1>5, <1>6, <1>7 DEF Next, Handle

\* A handler goes on about its own UUID, and towards a command only from there.
Sending == {"postStatus", "safety", "begin", "command"}

LEMMA HandlerGoesOn ==
  ASSUME GatewayInv, NEW h \in Handler, NEW a \in Attempt, Handle(h, a)
  PROVE  /\ handler[h].id = a /\ handler[h].pc # "idle"
         /\ handler'[h].id = a /\ handler'[h].pc # "idle"
         /\ \A g \in Handler \ {h} : handler'[g] = handler[g]
         /\ handler'[h].pc \in Sending => handler[h].pc \in Sending
<1>. DEFINE goes(next) == /\ handler[h].id = a /\ handler[h].pc # "idle"
                          /\ Goto(h, next)
                          /\ next.id = a /\ next.pc # "idle"
                          /\ next.pc \in Sending => handler[h].pc \in Sending
<1>0. ASSUME NEW next, goes(next)
      PROVE  /\ handler'[h] = next /\ \A g \in Handler \ {h} : handler'[g] = handler[g]
  BY <1>0 DEF Goto, GatewayInv, Typed
<1>1. ASSUME NEW pc, On(h, pc, a), pc # "idle", ExistingResponse(h, a)
      PROVE  \E next : goes(next)
  BY <1>1 DEF On, ExistingResponse, Reply, Replied, At, Sending
<1>2. CASE PostStatus(h, a) \/ GetStatus(h, a)
  <2>1. CASE ExistingResponse(h, a)
    BY <1>0, <1>1, <1>2, <2>1 DEF PostStatus, GetStatus
  <2>2. CASE On(h, "postStatus", a) /\ Goto(h, At("safety", a))
    <3>1. goes(At("safety", a))
      BY <2>2 DEF On, At, Sending
    <3>. QED
      BY <1>0, <3>1
  <2>3. CASE On(h, "getStatus", a) /\ Reply(h, "Failure")
    <3>1. goes(Replied(a, "Failure"))
      BY <2>3 DEF On, Reply, Replied, Sending
    <3>. QED
      BY <1>0, <3>1
  <2>. QED
    BY <1>2, <2>1, <2>2, <2>3 DEF PostStatus, GetStatus
<1>3. CASE ReadSafety(h, a)
  <2>1. PICK safe : Goto(h, Checked(a, safe))
    BY <1>3 DEF ReadSafety
  <2>2. goes(Checked(a, safe))
    BY <1>3, <2>1 DEF ReadSafety, On, Checked, Sending
  <2>. QED
    BY <1>0, <2>2
<1>4. CASE BeginRequest(h, a)
  <2>0. On(h, "begin", a)
    BY <1>4 DEF BeginRequest
  <2>1. CASE ExistingResponse(h, a)
    BY <1>0, <1>1, <2>0, <2>1
  <2>2. CASE Reply(h, "NotDispatched")
    <3>1. goes(Replied(a, "NotDispatched"))
      BY <2>0, <2>2 DEF On, Reply, Replied, Sending
    <3>. QED
      BY <1>0, <3>1
  <2>3. CASE Goto(h, At("command", a))
    <3>1. goes(At("command", a))
      BY <2>0, <2>3 DEF On, At, Sending
    <3>. QED
      BY <1>0, <3>1
  <2>. QED
    BY <1>4, <2>1, <2>2, <2>3 DEF BeginRequest
<1>5. CASE \/ CommandFeederRequest(h, a) \/ WaitForAck(h, a)
           \/ HandleExistingPending(h, a) \/ MarkAcknowledged(h, a)
  <2>0. PICK pc \in {"command", "wait", "pendingResult", "mark"} : On(h, pc, a)
    BY <1>5 DEF CommandFeederRequest, WaitForAck, HandleExistingPending, MarkAcknowledged
  <2>1. CASE UNCHANGED handler
    BY <2>0, <2>1 DEF On
  <2>2. ASSUME NEW next \in {At("wait", a), At("mark", a)}, Goto(h, next)
        PROVE  goes(next)
    BY <2>0, <2>2 DEF On, At, Sending
  <2>3. ASSUME NEW reply, Reply(h, reply) PROVE goes(Replied(a, reply))
    BY <2>0, <2>3 DEF On, Reply, Replied, Sending
  <2>4. \/ UNCHANGED handler
        \/ \E next \in {At("wait", a), At("mark", a)} : Goto(h, next)
        \/ \E reply : Reply(h, reply)
    BY <1>5 DEF CommandFeederRequest, WaitForAck, HandleExistingPending, MarkAcknowledged
  <2>. HIDE DEF goes
  <2>5. \/ UNCHANGED handler
        \/ \E next : goes(next)
    BY <2>2, <2>3, <2>4
  <2>. QED
    BY <1>0, <2>1, <2>5 DEF goes
<1>. QED
  BY <1>2, <1>3, <1>4, <1>5 DEF Handle

-----------------------------------------------------------------------------
(***************************************************************************)
(* The worker between the two.  An attempt whose row is gone or says "not  *)
(* fed" was not fed, and nothing that could still feed it is on its way,   *)
(* unless the gateway has refused it for good; so what the ledger records  *)
(* from an answer, however old, is what the feeder did.                    *)
(***************************************************************************)
\* A price that was asked for is one of the configured ones.
Priced ==
  \A a \in Attempt : status[a] # "absent" => threshold[a] \in ThresholdSats

\* A worker's attempt and, of an answer it holds, that it is still true.
Working(w) ==
  /\ w.pc \in {"post", "poll", "awaitPost", "awaitGet", "mark", "apply"} =>
       w.id \in Attempt
  /\ w.pc = "apply" => /\ w.reply = "Confirmed" => w.id \in complete
                       /\ w.reply = "NotDispatched" => refusal[w.id] # NoRefusal

\* A worker that waits has a handler of its own, which is about its attempt.
Attended(d) ==
  Waits(d) =>
    /\ worker[d].slot \in Handler
    /\ handler[worker[d].slot].pc # "idle"
    /\ handler[worker[d].slot].id = worker[d].id
    /\ \A e \in Daemon : Waits(e) /\ worker[e].slot = worker[d].slot => e = d

Workers ==
  /\ worker = [d \in Daemon |-> worker[d]]
  /\ configured \in [Daemon -> ThresholdSats]
  /\ \A d \in Daemon : Working(worker[d]) /\ Attended(d)

\* An attempt without a row, or one recorded as not fed, was not fed, and
\* nothing that could still feed it is on its way: it is refused, or forgotten.
Unfed(a) ==
  /\ inFlight[a] = 0 /\ pulses[a] = 0
  /\ refusal[a] # NoRefusal \/ ~OnItsWay(a)

Fate ==
  \A a \in Attempt :
    /\ status[a] = "confirmed" => pulses[a] > 0
    /\ status[a] \in {"absent", "reconciled_not_fed"} => Unfed(a)

Gateway == GatewayInv /\ RateInv /\ RefusalsName
FeederInv == LP!LedgerInv /\ Gateway /\ Priced /\ Workers /\ Fate

LEMMA GatewaySteps == Gateway /\ [Next]_vars => Gateway'
BY StepGateway, StepRate, OutcomesStay DEF Gateway

LEMMA InitFeeder == FeederInit => FeederInv
<1>. SUFFICES ASSUME FeederInit PROVE FeederInv
  OBVIOUS
<1>1. Ledger!Init /\ Init
  BY DEF FeederInit
<1>2. LP!LedgerInv /\ GatewayInv /\ RateInv
  BY <1>1, InitLedger, InitGateway, InitRate
<1>3. RefusalsName
  BY <1>1 DEF Init, RefusalsName
<1>4. Priced
  BY <1>1 DEF Ledger!Init, Priced
<1>5. Workers
  BY DEF FeederInit, Workers, Working, Attended, Waits, Is, Step
<1>6. Fate
  BY <1>1 DEF FeederInit, Ledger!Init, Init, Fate, Unfed, OnItsWay, On, Idle, Is, Step
<1>. QED
  BY <1>2, <1>3, <1>4, <1>5, <1>6 DEF FeederInv, Gateway

\* What a step that only turns one worker to something else may turn it to.
Turns(d, next) ==
  /\ Become(d, next)
  /\ Working(next)
  /\ next.pc \notin {"awaitPost", "awaitGet"}

LEMMA WorkerTurns ==
  ASSUME Workers, NEW d \in Daemon, NEW next, Turns(d, next), UNCHANGED gateway,
         configured' \in [Daemon -> ThresholdSats]
  PROVE  Workers' /\ (next.pc # "post" => \A a \in Attempt : Unfed(a) => Unfed(a)')
<1>0. /\ handler' = handler /\ refusal' = refusal /\ complete' = complete
      /\ inFlight' = inFlight /\ pulses' = pulses
  BY DEF gateway
<1>1. /\ worker' = [worker EXCEPT ![d] = next]
      /\ worker'[d] = next /\ \A e \in Daemon \ {d} : worker'[e] = worker[e]
  BY DEF Turns, Become, Workers
<1>2. worker' = [e \in Daemon |-> worker'[e]]
  BY <1>1 DEF Workers
<1>3. \A e \in Daemon : Waits(e)' => e # d /\ Waits(e) /\ worker'[e] = worker[e]
  BY <1>1 DEF Waits, Is, Turns
<1>4. ASSUME NEW e \in Daemon PROVE Attended(e)'
  BY <1>0, <1>3 DEF Workers, Attended
<1>5. ASSUME NEW e \in Daemon PROVE Working(worker[e])'
  <2>1. CASE e = d
    <3>1. Working(next)'
      BY <1>0 DEF Turns, Working
    <3>. QED
      BY <1>1, <2>1, <3>1 DEF Working
  <2>2. CASE e # d
    <3>1. Working(worker[e]) /\ worker'[e] = worker[e]
      BY <1>1, <2>2 DEF Workers
    <3>. QED
      BY <1>0, <3>1 DEF Working
  <2>. QED
    BY <2>1, <2>2
<1>6. ASSUME next.pc # "post", NEW a \in Attempt, Unfed(a) PROVE Unfed(a)'
  <2>1. OnItsWay(a)' => OnItsWay(a)
    BY <1>0, <1>1, <1>6 DEF OnItsWay, On, Is
  <2>. QED
    BY <1>0, <1>6, <2>1 DEF Unfed
<1>. QED
  BY <1>2, <1>4, <1>5, <1>6 DEF Workers

\* Whoever resolves an attempt, its fate is known; the other attempts keep theirs.
LEMMA FateStays ==
  ASSUME Fate, UNCHANGED gateway,
         \A a \in Attempt : Unfed(a) => Unfed(a)',
         \A a \in Attempt :
           \/ status'[a] = status[a]
           \/ status'[a] \in {"intent_committed", "unknown"}
           \/ status'[a] = "confirmed" /\ pulses[a] > 0
           \/ status'[a] = "reconciled_not_fed" /\ Unfed(a)
  PROVE  Fate'
<1>1. pulses' = pulses
  BY DEF gateway
<1>. QED
  BY <1>1 DEF Fate

\* A step of the worker alone.
LEMMA WorkerAlone ==
  ASSUME FeederInv, NEW d \in Daemon, NEW next, Turns(d, next), next.pc # "post",
         OnlyWorker
  PROVE  FeederInv'
<1>1. UNCHANGED ledger /\ UNCHANGED gateway /\ now' = now /\ configured' = configured
  BY DEF OnlyWorker
<1>2. LP!LedgerInv'
  BY <1>1, LedgerWaits DEF FeederInv
<1>3. Gateway'
  <2>1. UNCHANGED vars
    BY <1>1 DEF vars, gateway, store, owner
  <2>. QED
    BY <2>1, GatewaySteps DEF FeederInv
<1>4. Workers' /\ \A a \in Attempt : Unfed(a) => Unfed(a)'
  BY <1>1, WorkerTurns DEF FeederInv, Workers
<1>5. Fate' /\ Priced'
  BY <1>1, <1>4, FateStays DEF FeederInv, Priced, ledger
<1>. QED
  BY <1>2, <1>3, <1>4, <1>5 DEF FeederInv

LEMMA WorkerAloneSteps ==
  ASSUME FeederInv, NEW d \in Daemon,
         \/ Crash(d) \/ Wake(d) \/ CheckDue(d) \/ CheckSafety(d)
         \/ LoseRequest(d) \/ TransactionFails(d)
  PROVE  FeederInv'
<1>. DEFINE turns(next) == Turns(d, next) /\ next.pc # "post"
<1>1. OnlyWorker
  BY DEF Crash, Wake, CheckDue, CheckSafety, LoseRequest, TransactionFails
<1>2. ASSUME NEW pc \in {"down", "idle", "due", "safety", "begin"}, Become(d, Step(pc))
      PROVE  turns(Step(pc))
  BY <1>2 DEF Turns, Step, Working
<1>3. CASE Crash(d) \/ CheckDue(d) \/ CheckSafety(d) \/ TransactionFails(d)
  <2>1. \E pc \in {"down", "idle", "due", "safety", "begin"} : Become(d, Step(pc))
    BY <1>3 DEF Crash, CheckDue, CheckSafety, TransactionFails
  <2>2. \E next : turns(next)
    BY <1>2, <2>1
  <2>. QED
    BY <1>1, <2>2, WorkerAlone
<1>4. CASE Wake(d)
  <2>1. CASE Become(d, Step("due"))
    BY <1>1, <1>2, <2>1, WorkerAlone
  <2>2. CASE \E a \in Ledger!UnresolvedAttempts : Become(d, Call("poll", a, status[a]))
    <3>1. PICK a \in Attempt : Become(d, Call("poll", a, status[a]))
      BY <2>2 DEF Ledger!UnresolvedAttempts
    <3>2. turns(Call("poll", a, status[a]))
      BY <3>1 DEF Turns, Call, Working
    <3>. QED
      BY <1>1, <3>2, WorkerAlone
  <2>. QED
    BY <1>4, <2>1, <2>2 DEF Wake
<1>5. CASE LoseRequest(d)
  <2>1. CASE Become(d, Step("idle"))
    BY <1>1, <1>2, <2>1, WorkerAlone
  <2>2. CASE Become(d, For("mark", worker[d].id))
    <3>1. worker[d].id \in Attempt
      BY <1>5 DEF LoseRequest, Waits, Is, FeederInv, Workers, Working
    <3>2. turns(For("mark", worker[d].id))
      BY <2>2, <3>1 DEF Turns, For, Working
    <3>. QED
      BY <1>1, <3>2, WorkerAlone
  <2>. QED
    BY <1>5, <2>1, <2>2 DEF LoseRequest, Unanswered
<1>. QED
  BY <1>3, <1>4, <1>5

\* A transaction of the worker, of the operator or of a settlement.
LEMMA LedgerMoves ==
  ASSUME FeederInv, UNCHANGED <<gateway, now>>, LP!LedgerInv', Workers',
         \A a \in Attempt : Unfed(a) => Unfed(a)' \/ status'[a] = "intent_committed",
         \A a \in Attempt :
           \/ status'[a] = status[a] /\ threshold'[a] = threshold[a] /\ (Unfed(a) => Unfed(a)')
           \/ status'[a] = "intent_committed" /\ threshold'[a] \in ThresholdSats
           \/ /\ status[a] # "absent" /\ threshold'[a] = threshold[a]
              /\ \/ status'[a] = "unknown"
                 \/ status'[a] = "confirmed" /\ pulses[a] > 0
                 \/ status'[a] = "reconciled_not_fed" /\ Unfed(a)'
  PROVE  FeederInv'
<1>1. Gateway'
  <2>1. UNCHANGED vars
    BY DEF vars, gateway, store, owner
  <2>. QED
    BY <2>1, GatewaySteps DEF FeederInv
<1>2. Priced'
  BY DEF FeederInv, Priced
<1>3. Fate'
  <2>1. pulses' = pulses
    BY DEF gateway
  <2>. QED
    BY <2>1 DEF FeederInv, Fate
<1>. QED
  BY <1>1, <1>2, <1>3 DEF FeederInv

\* A starting daemon makes interrupted intents unknown, whatever became of them.
LEMMA StartKeeps ==
  ASSUME FeederInv, NEW d \in Daemon, Start(d)
  PROVE  FeederInv'
<1>1. UNCHANGED gateway /\ now' = now
  BY DEF Start, Ledger!MarkInterruptedFeedIntentsUnknown
<1>2. LP!LedgerInv'
  BY <1>1, LedgerKeeps, LedgerWaits DEF Start, FeederInv
<1>3. Workers' /\ \A a \in Attempt : Unfed(a) => Unfed(a)'
  <2>1. Turns(d, Step("idle")) /\ Step("idle").pc # "post"
    BY DEF Start, Turns, Step, Working
  <2>2. configured' \in [Daemon -> ThresholdSats]
    BY DEF Start, FeederInv, Workers
  <2>. QED
    BY <1>1, <2>1, <2>2, WorkerTurns DEF FeederInv
<1>4. ASSUME NEW a \in Attempt
      PROVE  /\ threshold'[a] = threshold[a]
             /\ \/ status'[a] = status[a]
                \/ status[a] # "absent" /\ status'[a] = "unknown"
  BY DEF Start, Ledger!MarkInterruptedFeedIntentsUnknown, ledger
<1>. QED
  BY <1>1, <1>2, <1>3, <1>4, LedgerMoves

\* A new attempt: nothing of it was on its way before its row was there.
LEMMA BeginFeedKeeps ==
  ASSUME FeederInv, NEW d \in Daemon, Begin(d)
  PROVE  FeederInv'
<1>0. UNCHANGED gateway /\ configured' = configured
  BY DEF Begin, OnlyLedger
<1>1. CASE Become(d, Step("idle")) /\ UNCHANGED <<ledger, now>>
  <2>1. Turns(d, Step("idle")) /\ Step("idle").pc # "post" /\ OnlyWorker
    BY <1>0, <1>1 DEF Turns, Step, Working, OnlyWorker
  <2>. QED
    BY <2>1, WorkerAlone
<1>2. ASSUME NEW a \in Attempt, Ledger!BeginFeedAttempt(a, configured[d]),
             Become(d, For("post", a))
      PROVE  FeederInv'
  <2>1. configured[d] \in ThresholdSats /\ now' = now
    BY <1>2 DEF FeederInv, Workers, Ledger!BeginFeedAttempt
  <2>2. LP!LedgerInv'
    BY <1>2, <2>1, LedgerKeeps DEF FeederInv
  <2>3. Workers'
    <3>1. Turns(d, For("post", a))
      BY <1>2 DEF Turns, For, Working
    <3>. QED
      BY <1>0, <3>1, WorkerTurns DEF FeederInv, Workers
  <2>4. /\ status'[a] = "intent_committed" /\ threshold'[a] = configured[d]
        /\ \A b \in Attempt \ {a} : status'[b] = status[b] /\ threshold'[b] = threshold[b]
    BY <1>2, LedgerSays DEF Ledger!BeginFeedAttempt, FeederInv, Accounts
  <2>5. ASSUME NEW b \in Attempt \ {a}, Unfed(b) PROVE Unfed(b)'
    <3>1. /\ handler' = handler /\ refusal' = refusal
          /\ inFlight' = inFlight /\ pulses' = pulses
      BY <1>0 DEF gateway
    <3>2. worker'[d] = For("post", a) /\ \A e \in Daemon \ {d} : worker'[e] = worker[e]
      BY <1>2 DEF Become, FeederInv, Workers
    <3>3. OnItsWay(b)' => OnItsWay(b)
      BY <3>1, <3>2 DEF OnItsWay, On, Is, For
    <3>. QED
      BY <2>5, <3>1, <3>3 DEF Unfed
  <2>. QED
    BY <1>0, <2>1, <2>2, <2>3, <2>4, <2>5, LedgerMoves
<1>. QED
  BY <1>1, <1>2 DEF Begin

\* Refused for good, or with its receipt: the answers decide the fate.
LEMMA AnswersDecide ==
  ASSUME Gateway, NEW a \in Attempt
  PROVE  /\ a \in complete => pulses[a] > 0
         /\ refusal[a] # NoRefusal => Unfed(a) /\ refusal[a].retry \in 1..MaxDelay
<1>1. a \in complete => pulses[a] > 0
  BY DEF Gateway, GatewayInv, Receipts
<1>2. refusal[a] # NoRefusal => Unfed(a)
  BY DEF Gateway, GatewayInv, Dispatched, Unfed
<1>. QED
  BY <1>1, <1>2 DEF Gateway, RefusalsName

\* Resolving transactions move one attempt, of a known price.
LEMMA ResolutionsMove ==
  ASSUME Accounts, NEW a \in Attempt
  PROVE  /\ Ledger!MarkFeedUnknown(a) =>
              status[a] # "absent" /\ status' = [status EXCEPT ![a] = "unknown"]
         /\ Ledger!ConfirmFeedAttempt(a) \/ Ledger!ReconcileUnknownAsFed(a) =>
              status[a] # "absent" /\ status' = [status EXCEPT ![a] = "confirmed"]
         /\ Ledger!ReconcileUnknownAsNotFed(a) \/ (\E r : Ledger!ResolveFeedNotDispatched(a, r)) =>
              status[a] # "absent" /\ status' = [status EXCEPT ![a] = "reconciled_not_fed"]
         /\ \/ Ledger!MarkFeedUnknown(a)
            \/ Ledger!ConfirmFeedAttempt(a) \/ Ledger!ReconcileUnknownAsFed(a)
            \/ Ledger!ReconcileUnknownAsNotFed(a)
            \/ \E r : Ledger!ResolveFeedNotDispatched(a, r)
            => threshold' = threshold /\ now' = now
BY DEF Ledger!MarkFeedUnknown, Ledger!ConfirmFeedAttempt, Ledger!ReconcileUnknownAsFed,
       Ledger!ResolveAsFed, Ledger!ReconcileUnknownAsNotFed,
       Ledger!ResolveFeedNotDispatched, Ledger!Unresolved

\* What an attempt becomes when somebody resolves it or gives up on it.
Resolves(a, s) ==
  /\ status[a] # "absent" /\ status' = [status EXCEPT ![a] = s] /\ threshold' = threshold
  /\ \/ s = "unknown"
     \/ s = "confirmed" /\ pulses[a] > 0
     \/ s = "reconciled_not_fed" /\ Unfed(a)

LEMMA ResolutionKeeps ==
  ASSUME FeederInv, UNCHANGED <<gateway, now>>, LP!LedgerInv', Workers',
         \A b \in Attempt : Unfed(b) => Unfed(b)',
         NEW a \in Attempt, NEW s, Resolves(a, s)
  PROVE  FeederInv'
<1>1. status'[a] = s /\ \A b \in Attempt \ {a} : status'[b] = status[b]
  BY LedgerSays DEF FeederInv, Accounts, Resolves
<1>2. ASSUME NEW b \in Attempt
      PROVE  \/ status'[b] = status[b] /\ threshold'[b] = threshold[b] /\ (Unfed(b) => Unfed(b)')
             \/ status'[b] = "intent_committed" /\ threshold'[b] \in ThresholdSats
             \/ /\ status[b] # "absent" /\ threshold'[b] = threshold[b]
                /\ \/ status'[b] = "unknown"
                   \/ status'[b] = "confirmed" /\ pulses[b] > 0
                   \/ status'[b] = "reconciled_not_fed" /\ Unfed(b)'
  BY <1>1 DEF Resolves
<1>. QED
  BY <1>2, LedgerMoves

\* The transaction that follows a failed POST, or the one an answer calls for.
LEMMA AnswerKeeps ==
  ASSUME FeederInv, NEW d \in Daemon, MarkUnknown(d) \/ ApplyOutcome(d)
  PROVE  FeederInv'
<1>. DEFINE a == worker[d].id
<1>1. /\ a \in Attempt /\ UNCHANGED gateway /\ configured' = configured
      /\ ApplyOutcome(d) => /\ worker[d].reply = "Confirmed" => a \in complete
                            /\ worker[d].reply = "NotDispatched" => refusal[a] # NoRefusal
  BY DEF MarkUnknown, ApplyOutcome, OnlyLedger, FeederInv, Workers, Working, Is
<1>2. Turns(d, Step("idle")) /\ Step("idle").pc # "post"
  BY DEF MarkUnknown, ApplyOutcome, Turns, Step, Working
<1>3. Workers' /\ \A b \in Attempt : Unfed(b) => Unfed(b)'
  BY <1>1, <1>2, WorkerTurns DEF FeederInv, Workers
<1>4. /\ a \in complete => pulses[a] > 0
      /\ refusal[a] # NoRefusal => Unfed(a) /\ refusal[a].retry \in 1..MaxDelay
  BY <1>1, AnswersDecide DEF FeederInv
<1>5. Accounts
  BY LedgerSays DEF FeederInv
<1>6. CASE UNCHANGED <<ledger, now>>
  BY <1>1, <1>2, <1>6, WorkerAlone DEF OnlyWorker
<1>7. CASE Ledger!MarkFeedUnknown(a)
  <2>1. LP!LedgerInv'
    BY <1>1, <1>7, LedgerKeeps DEF FeederInv
  <2>2. Resolves(a, "unknown") /\ now' = now
    BY <1>1, <1>5, <1>7, ResolutionsMove DEF Resolves
  <2>. HIDE DEF a
  <2>. QED
    BY <1>1, <1>3, <2>1, <2>2, ResolutionKeeps
<1>8. CASE /\ ApplyOutcome(d) /\ worker[d].reply = "Confirmed"
           /\ Ledger!ConfirmFeedAttempt(a) \/ Ledger!ReconcileUnknownAsFed(a)
  <2>1. LP!LedgerInv'
    BY <1>1, <1>8, LedgerKeeps DEF FeederInv
  <2>2. Resolves(a, "confirmed") /\ now' = now
    BY <1>1, <1>4, <1>5, <1>8, ResolutionsMove DEF Resolves
  <2>. HIDE DEF a
  <2>. QED
    BY <1>1, <1>3, <2>1, <2>2, ResolutionKeeps
<1>9. CASE /\ ApplyOutcome(d) /\ worker[d].reply = "NotDispatched"
           /\ Ledger!ResolveFeedNotDispatched(a, refusal[a].retry)
  <2>1. LP!LedgerInv'
    BY <1>1, <1>4, <1>9, LedgerKeeps DEF FeederInv
  <2>2. Resolves(a, "reconciled_not_fed") /\ now' = now
    BY <1>1, <1>4, <1>5, <1>9, ResolutionsMove DEF Resolves
  <2>. HIDE DEF a
  <2>. QED
    BY <1>1, <1>3, <2>1, <2>2, ResolutionKeeps
<1>. QED
  BY <1>6, <1>7, <1>8, <1>9 DEF MarkUnknown, ApplyOutcome

\* The operator says of a feed what took place, when nothing is on its way.
LEMMA OperatorKeeps ==
  ASSUME FeederInv, NEW a \in Attempt, ReconcileFeed(a)
  PROVE  FeederInv'
<1>1. UNCHANGED gateway /\ worker' = worker /\ configured' = configured
  BY DEF ReconcileFeed
<1>2. Workers' /\ \A b \in Attempt : Unfed(b) => Unfed(b)'
  <2>1. /\ handler' = handler /\ refusal' = refusal /\ complete' = complete
        /\ inFlight' = inFlight /\ pulses' = pulses
    BY <1>1 DEF gateway
  <2>. QED
    BY <1>1, <2>1 DEF FeederInv, Workers, Working, Attended, Waits, Is, Unfed, OnItsWay, On
<1>3. Accounts
  BY LedgerSays DEF FeederInv
<1>4. CASE pulses[a] > 0 /\ Ledger!ReconcileUnknownAsFed(a)
  <2>1. LP!LedgerInv'
    BY <1>4, LedgerKeeps DEF FeederInv
  <2>2. Resolves(a, "confirmed") /\ now' = now
    BY <1>3, <1>4, ResolutionsMove DEF Resolves
  <2>. QED
    BY <1>1, <1>2, <2>1, <2>2, ResolutionKeeps
<1>5. CASE pulses[a] = 0 /\ ~OnItsWay(a) /\ Ledger!ReconcileUnknownAsNotFed(a)
  <2>1. LP!LedgerInv'
    BY <1>5, LedgerKeeps DEF FeederInv
  <2>2. inFlight[a] = 0
    BY <1>5 DEF OnItsWay, FeederInv, Gateway, GatewayInv, Typed
  <2>3. Resolves(a, "reconciled_not_fed") /\ now' = now
    BY <1>3, <1>5, <2>2, ResolutionsMove DEF Resolves, Unfed
  <2>. QED
    BY <1>1, <1>2, <2>1, <2>3, ResolutionKeeps
<1>. QED
  BY <1>4, <1>5 DEF ReconcileFeed

LEMMA SettleKeeps ==
  ASSUME FeederInv, Settle
  PROVE  FeederInv'
<1>1. PICK sats \in PaymentSats : Ledger!CreditReceipt(sats)
  BY DEF Settle
<1>2. LP!LedgerInv'
  BY <1>1, LedgerKeeps DEF FeederInv
<1>3. /\ UNCHANGED <<gateway, now>> /\ worker' = worker /\ configured' = configured
      /\ status' = status /\ threshold' = threshold
  BY <1>1 DEF Settle, Ledger!CreditReceipt
<1>4. Workers' /\ \A b \in Attempt : Unfed(b) => Unfed(b)'
  <2>1. /\ handler' = handler /\ refusal' = refusal /\ complete' = complete
        /\ inFlight' = inFlight /\ pulses' = pulses
    BY <1>3 DEF gateway
  <2>. QED
    BY <1>3, <2>1 DEF FeederInv, Workers, Working, Attended, Waits, Is, Unfed, OnItsWay, On
<1>. QED
  BY <1>2, <1>3, <1>4, LedgerMoves

-----------------------------------------------------------------------------
\* Steps of the gateway under an unchanged ledger.
LEMMA GatewayMoves ==
  ASSUME FeederInv, UNCHANGED ledger, [Next]_vars,
         now' = now \/ (now < MaxTime /\ now' = now + 1),
         Workers',
         \A a \in Attempt : /\ Unfed(a) => Unfed(a)'
                            /\ pulses[a] > 0 => pulses'[a] > 0
  PROVE  FeederInv'
<1>1. LP!LedgerInv'
  BY LedgerWaits DEF FeederInv
<1>2. Gateway'
  BY GatewaySteps DEF FeederInv
<1>3. status' = status /\ threshold' = threshold
  BY DEF ledger
<1>4. Priced' /\ Fate'
  BY <1>3 DEF FeederInv, Priced, Fate
<1>. QED
  BY <1>1, <1>2, <1>4 DEF FeederInv

\* A request is handed to a handler that nobody waits for.
LEMMA RequestKeeps ==
  ASSUME FeederInv, NEW d \in Daemon, NEW h \in Handler, SendPost(d, h) \/ SendGet(d, h)
  PROVE  FeederInv'
<1>. DEFINE a == worker[d].id
<1>1. a \in Attempt /\ OnlyGateway /\ (Post(h, a) \/ Get(h, a))
  BY DEF SendPost, SendGet, FeederInv, Workers, Working, Is
<1>2. /\ handler[h] = Idle /\ UNCHANGED <<store, now, armed, owner>>
      /\ \A g \in Handler \ {h} : handler'[g] = handler[g]
      /\ \E pc : handler'[h] = At(pc, a)
      /\ SendGet(d, h) => handler'[h] = At("getStatus", a)
  BY DEF SendPost, SendGet, Post, Get, Accept, Goto, FeederInv, Gateway, GatewayInv, Typed
<1>3. /\ refusal' = refusal /\ complete' = complete
      /\ inFlight' = inFlight /\ pulses' = pulses /\ now' = now
  BY <1>2 DEF store, owner
<1>4. /\ \A e \in Daemon \ {d} : worker'[e] = worker[e]
      /\ worker' = [e \in Daemon |-> worker'[e]]
      /\ worker'[d].pc \in {"awaitPost", "awaitGet"}
      /\ worker'[d].id = a /\ worker'[d].slot = h
  BY DEF SendPost, SendGet, Become, Await, FeederInv, Workers
<1>5. Workers'
  <2>1. ASSUME NEW e \in Daemon PROVE Working(worker[e])'
    <3>1. CASE e = d
      BY <1>1, <1>4, <3>1 DEF Working
    <3>2. CASE e # d
      <4>1. Working(worker[e]) /\ worker'[e] = worker[e]
        BY <1>4, <3>2 DEF FeederInv, Workers
      <4>. QED
        BY <1>3, <4>1 DEF Working
    <3>. QED
      BY <3>1, <3>2
  <2>2. ASSUME NEW e \in Daemon \ {d}, Waits(e)'
        PROVE  Waits(e) /\ worker'[e] = worker[e] /\ worker[e].slot # h
    <3>1. Waits(e) /\ worker'[e] = worker[e]
      BY <1>4, <2>2 DEF Waits, Is
    <3>. QED
      BY <1>2, <3>1 DEF FeederInv, Workers, Attended, Idle
  <2>3. ASSUME NEW e \in Daemon PROVE Attended(e)'
    <3>1. CASE e = d
      <4>1. handler'[h].pc # "idle" /\ handler'[h].id = a
        BY <1>2 DEF SendPost, SendGet, Post, Get, Accept, Goto, At, FeederInv, Gateway, GatewayInv, Typed
      <4>. QED
        BY <1>4, <2>2, <3>1, <4>1 DEF Attended
    <3>2. CASE e # d
      <4>1. Attended(e)
        BY DEF FeederInv, Workers
      <4>. QED
        BY <1>2, <1>4, <2>2, <3>2, <4>1 DEF Attended
    <3>. QED
      BY <3>1, <3>2
  <2>. QED
    BY <1>1, <1>4, <2>1, <2>3 DEF Workers, FeederInv, OnlyGateway
<1>6. ASSUME NEW b \in Attempt, Unfed(b) PROVE Unfed(b)'
  <2>1. OnItsWay(b)' => OnItsWay(b)
    <3>1. ASSUME NEW g \in Handler, NEW pc \in {"postStatus", "safety", "begin", "command"},
                 handler'[g].pc = pc, handler'[g].id = b
          PROVE  OnItsWay(b)
      <4>1. CASE g = h
        <5>1. SendPost(d, h) /\ b = a
          BY <1>2, <3>1, <4>1 DEF At
        <5>. QED
          BY <5>1 DEF SendPost, OnItsWay
      <4>2. CASE g # h
        BY <1>2, <3>1, <4>2 DEF OnItsWay, On
      <4>. QED
        BY <4>1, <4>2
    <3>2. ASSUME NEW e \in Daemon, worker'[e].pc = "post", worker'[e].id = b
          PROVE  OnItsWay(b)
      BY <1>4, <3>2 DEF OnItsWay, Is
    <3>. QED
      BY <1>3, <3>1, <3>2 DEF OnItsWay, On, Is
  <2>. QED
    BY <1>3, <1>6, <2>1 DEF Unfed
<1>7. [Next]_vars
  BY <1>1 DEF Next
<1>8. UNCHANGED ledger
  BY <1>1 DEF OnlyGateway
<1>. QED
  BY <1>3, <1>5, <1>6, <1>7, <1>8, GatewayMoves

\* An answer is received by the one who waits for it, and is true then.
LEMMA ReceiveKeeps ==
  ASSUME FeederInv, NEW d \in Daemon, Receive(d)
  PROVE  FeederInv'
<1>. DEFINE h == worker[d].slot
            a == worker[d].id
<1>1. /\ Waits(d) /\ h \in Handler /\ a \in Attempt /\ Close(h) /\ OnlyGateway
      /\ handler[h].pc = "replied" /\ handler[h].id = a
      /\ \A e \in Daemon : Waits(e) /\ worker[e].slot = h => e = d
  BY DEF Receive, FeederInv, Workers, Working, Attended, Waits, Is
<1>2. /\ UNCHANGED <<store, now, armed, owner>>
      /\ handler'[h] = Idle /\ \A g \in Handler \ {h} : handler'[g] = handler[g]
  BY <1>1 DEF Close, Goto, FeederInv, Gateway, GatewayInv, Typed
<1>3. /\ refusal' = refusal /\ complete' = complete
      /\ inFlight' = inFlight /\ pulses' = pulses /\ now' = now
  BY <1>2 DEF store, owner
<1>4. PICK next : /\ Become(d, next) /\ Working(next)
                  /\ next.pc \in {"idle", "mark", "apply"}
  <2>1. Become(d, Step("idle")) => /\ Working(Step("idle")) /\ Step("idle").pc = "idle"
    BY DEF Step, Working
  <2>2. Working(For("mark", a)) /\ For("mark", a).pc = "mark"
    BY <1>1 DEF For, Working
  <2>3. /\ handler[h].reply = "Confirmed" => a \in complete
        /\ handler[h].reply = "NotDispatched" => refusal[a] # NoRefusal
    BY <1>1 DEF FeederInv, Gateway, GatewayInv, Truth, Truthful
  <2>4. \A s : /\ Working(Apply(a, s, handler[h].reply))
               /\ Apply(a, s, handler[h].reply).pc = "apply"
    BY <1>1, <2>3 DEF Apply, Working
  <2>5. \E next \in {Step("idle"), For("mark", a), Apply(a, worker[d].stored, handler[h].reply)} :
          Become(d, next)
    BY DEF Receive, Unanswered
  <2>. HIDE DEF a, h
  <2>. QED
    BY <2>1, <2>2, <2>4, <2>5
<1>5. /\ worker' = [e \in Daemon |-> worker'[e]]
      /\ worker'[d] = next /\ \A e \in Daemon \ {d} : worker'[e] = worker[e]
  BY <1>4 DEF Become, FeederInv, Workers
<1>. HIDE DEF a, h
<1>6. Workers'
  <2>1. ASSUME NEW e \in Daemon PROVE Working(worker[e])'
    <3>1. CASE e = d
      BY <1>3, <1>4, <1>5, <3>1 DEF Working
    <3>2. CASE e # d
      <4>1. Working(worker[e]) /\ worker'[e] = worker[e]
        BY <1>5, <3>2 DEF FeederInv, Workers
      <4>. QED
        BY <1>3, <4>1 DEF Working
    <3>. QED
      BY <3>1, <3>2
  <2>2. ASSUME NEW e \in Daemon, Waits(e)'
        PROVE  e # d /\ Waits(e) /\ worker'[e] = worker[e] /\ worker[e].slot # h
    <3>1. e # d
      BY <1>4, <1>5, <2>2 DEF Waits, Is
    <3>. QED
      BY <1>1, <1>5, <2>2, <3>1 DEF Waits, Is
  <2>3. ASSUME NEW e \in Daemon, Waits(e)' PROVE Attended(e)'
    <3>1. Attended(e) /\ Waits(e) /\ worker'[e] = worker[e] /\ worker[e].slot # h
      BY <2>2, <2>3 DEF FeederInv, Workers
    <3>. QED
      BY <1>2, <2>2, <3>1 DEF Attended
  <2>. QED
    BY <1>1, <1>5, <2>1, <2>3 DEF Workers, FeederInv, OnlyGateway, Attended
<1>7. ASSUME NEW b \in Attempt, Unfed(b) PROVE Unfed(b)'
  <2>1. OnItsWay(b)' => OnItsWay(b)
    BY <1>2, <1>3, <1>4, <1>5 DEF OnItsWay, On, Is, Idle
  <2>. QED
    BY <1>3, <1>7, <2>1 DEF Unfed
<1>8. [Next]_vars /\ UNCHANGED ledger
  BY <1>1 DEF Next, OnlyGateway
<1>. QED
  BY <1>3, <1>6, <1>7, <1>8, GatewayMoves

\* Workers stay right while only the gateway moves: whoever waits is attended,
\* and what a worker has been told stays true.
LEMMA WorkersWait ==
  ASSUME Workers, UNCHANGED <<worker, configured>>,
         complete \subseteq complete',
         \A a \in Attempt : refusal[a] # NoRefusal => refusal'[a] # NoRefusal,
         \A h \in Handler : Awaited(h) /\ handler[h].pc # "idle" =>
           handler'[h].pc # "idle" /\ handler'[h].id = handler[h].id
  PROVE  Workers'
<1>1. ASSUME NEW d \in Daemon PROVE Working(worker[d])'
  BY DEF Workers, Working
<1>2. ASSUME NEW d \in Daemon PROVE Attended(d)'
  <2>1. Attended(d)
    BY DEF Workers
  <2>2. Waits(d) => Awaited(worker[d].slot)
    BY DEF Awaited
  <2>. QED
    BY <2>1, <2>2 DEF Attended, Waits, Is
<1>. QED
  BY <1>1, <1>2 DEF Workers

\* A handler's step sends nothing for an attempt that is refused or forgotten.
LEMMA HandlingLeavesUnfed ==
  ASSUME GatewayInv, NEW h \in Handler, NEW a \in Attempt, Handle(h, a),
         \A b \in Attempt : refusal[b] # NoRefusal => refusal'[b] # NoRefusal,
         UNCHANGED worker, NEW b \in Attempt, Unfed(b)
  PROVE  Unfed(b)'
<1>1. /\ handler[h].id = a
      /\ handler'[h].id = a
      /\ \A g \in Handler \ {h} : handler'[g] = handler[g]
      /\ handler'[h].pc \in Sending => handler[h].pc \in Sending
  BY HandlerGoesOn
<1>2. inFlight'[b] = inFlight[b] /\ pulses'[b] = pulses[b]
  <2>1. CASE CommandFeederRequest(h, a)
    <3>1. a # b
      <4>1. ASSUME a = b PROVE FALSE
        <5>1. On(h, "command", b)
          BY <2>1, <4>1 DEF CommandFeederRequest
        <5>2. OnItsWay(b)
          BY <5>1 DEF OnItsWay
        <5>3. refusal[b] # NoRefusal /\ row[b] = "pending"
          BY <5>1, <5>2 DEF Unfed, GatewayInv, Senders
        <5>. QED
          BY <5>3 DEF GatewayInv, Dispatched
      <4>. QED
        BY <4>1
    <3>. QED
      BY <2>1, <3>1 DEF CommandFeederRequest, GatewayInv, Typed
  <2>2. CASE ~CommandFeederRequest(h, a)
    <3>1. UNCHANGED <<inFlight, pulses>>
      BY <2>2 DEF Handle, PostStatus, GetStatus, ReadSafety, BeginRequest, WaitForAck,
                  HandleExistingPending, MarkAcknowledged, owner
    <3>. QED
      BY <3>1
  <2>. QED
    BY <2>1, <2>2
<1>3. OnItsWay(b)' => OnItsWay(b)
  <2>1. ASSUME NEW g \in Handler, NEW pc \in Sending, handler'[g].pc = pc, handler'[g].id = b
        PROVE  \E q \in Sending : handler[g].pc = q /\ handler[g].id = b
    BY <1>1, <2>1
  <2>2. inFlight'[b] > 0 => inFlight[b] > 0
    BY <1>2
  <2>. QED
    BY <2>1, <2>2 DEF OnItsWay, On, Sending, Is
<1>. QED
  BY <1>2, <1>3 DEF Unfed

LEMMA GatewayStepKeeps ==
  ASSUME FeederInv, GatewayStep
  PROVE  FeederInv'
<1>0. /\ UNCHANGED ledger /\ UNCHANGED <<worker, configured>>
      /\ GatewayInv /\ RateInv /\ RefusalsName /\ Workers
  BY DEF GatewayStep, OnlyItself, FeederInv, Gateway
<1>1. [Next]_vars
  BY DEF GatewayStep, Next
<1>2. /\ complete \subseteq complete'
      /\ \A a \in Attempt : refusal[a] # NoRefusal => refusal'[a] # NoRefusal
  BY <1>0, <1>1, OutcomesStay
<1>3. \A a \in Attempt : inFlight[a] \in Nat /\ pulses[a] \in Nat
  BY <1>0 DEF GatewayInv, Typed
<1>4. ASSUME NEW h \in Handler, NEW a \in Attempt, Handle(h, a) PROVE FeederInv'
  <2>1. Workers'
    <3>1. \A g \in Handler : handler[g].pc # "idle" =>
            handler'[g].pc # "idle" /\ handler'[g].id = handler[g].id
      BY <1>0, <1>4, HandlerGoesOn
    <3>. QED
      BY <1>0, <1>2, <3>1, WorkersWait
  <2>2. \A b \in Attempt : Unfed(b) => Unfed(b)'
    BY <1>0, <1>2, <1>4, HandlingLeavesUnfed
  <2>3. now' = now /\ pulses' = pulses
    BY <1>4 DEF Handle, PostStatus, GetStatus, ReadSafety, BeginRequest, CommandFeederRequest,
                WaitForAck, HandleExistingPending, MarkAcknowledged, owner
  <2>. QED
    BY <1>0, <1>1, <2>1, <2>2, <2>3, GatewayMoves
<1>5. ASSUME NEW h \in Handler, Timeout(h) \/ (~Awaited(h) /\ Close(h)) PROVE FeederInv'
  <2>1. PICK next : /\ handler'[h] = next /\ \A g \in Handler \ {h} : handler'[g] = handler[g]
                    /\ next.pc \notin Sending
                    /\ Timeout(h) => next.pc # "idle" /\ next.id = handler[h].id
    <3>1. \A next : Goto(h, next) =>
            handler'[h] = next /\ \A g \in Handler \ {h} : handler'[g] = handler[g]
      BY <1>0 DEF Goto, GatewayInv, Typed
    <3>2. Timeout(h) => Goto(h, Replied(handler[h].id, "Ambiguous"))
      BY DEF Timeout, Reply
    <3>3. Close(h) => Goto(h, Idle)
      BY DEF Close
    <3>4. /\ Replied(handler[h].id, "Ambiguous").pc = "replied" /\ Idle.pc = "idle"
          /\ Replied(handler[h].id, "Ambiguous").id = handler[h].id
      BY DEF Replied, Idle
    <3>5. CASE Timeout(h)
      BY <3>1, <3>2, <3>4, <3>5 DEF Sending
    <3>6. CASE ~Timeout(h)
      BY <1>5, <3>1, <3>3, <3>4, <3>6 DEF Sending
    <3>. QED
      BY <3>5, <3>6
  <2>2. /\ now' = now /\ inFlight' = inFlight /\ pulses' = pulses
    BY <1>5 DEF Timeout, Close, owner
  <2>3. Workers'
    <3>1. \A g \in Handler : Awaited(g) /\ handler[g].pc # "idle" =>
            handler'[g].pc # "idle" /\ handler'[g].id = handler[g].id
      BY <1>5, <2>1
    <3>. QED
      BY <1>0, <1>2, <3>1, WorkersWait
  <2>4. ASSUME NEW b \in Attempt, Unfed(b) PROVE Unfed(b)'
    <3>1. OnItsWay(b)' => OnItsWay(b)
      BY <1>0, <2>1, <2>2 DEF OnItsWay, On, Sending, Is
    <3>. QED
      BY <1>2, <2>2, <2>4, <3>1 DEF Unfed
  <2>. QED
    BY <1>0, <1>1, <2>2, <2>3, <2>4, GatewayMoves
<1>6. ASSUME handler' = handler, refusal' = refusal,
             now' = now \/ (now < MaxTime /\ now' = now + 1),
             \A b \in Attempt : /\ inFlight[b] = 0 => inFlight'[b] = 0 /\ pulses'[b] = pulses[b]
                                /\ pulses[b] > 0 => pulses'[b] > 0
      PROVE  FeederInv'
  <2>1. Workers'
    BY <1>0, <1>2, <1>6, WorkersWait
  <2>2. ASSUME NEW b \in Attempt, Unfed(b) PROVE Unfed(b)'
    <3>1. inFlight'[b] = 0 /\ pulses'[b] = 0 /\ ~(inFlight'[b] > 0)
      BY <1>6, <2>2 DEF Unfed
    <3>2. OnItsWay(b)' => OnItsWay(b)
      BY <1>0, <1>6, <3>1 DEF OnItsWay, On, Is
    <3>. QED
      BY <1>6, <2>2, <3>1, <3>2 DEF Unfed
  <2>. QED
    BY <1>0, <1>1, <1>6, <2>1, <2>2, GatewayMoves
<1>7. ASSUME NEW a \in Attempt, OwnerPulse(a) \/ OwnerDeny(a) \/ OwnerComplete(a)
      PROVE  FeederInv'
  <2>1. handler' = handler /\ refusal' = refusal /\ now' = now
    BY <1>7 DEF OwnerPulse, OwnerDeny, OwnerComplete, store
  <2>2. \A b \in Attempt : /\ inFlight[b] = 0 => inFlight'[b] = 0 /\ pulses'[b] = pulses[b]
                           /\ pulses[b] > 0 => pulses'[b] > 0
    BY <1>0, <1>3, <1>7 DEF OwnerPulse, OwnerDeny, OwnerComplete, GatewayInv, Typed
  <2>. QED
    BY <1>6, <2>1, <2>2
<1>8. CASE Switch \/ Tick
  BY <1>6, <1>8 DEF Switch, Tick, store, owner
<1>. QED
  BY <1>4, <1>5, <1>7, <1>8 DEF GatewayStep

\* Every step of the daemons, the gateway, the owner, payers and the operator.
LEMMA StepFeeder == FeederInv /\ [FeederNext]_feederVars => FeederInv'
<1>. SUFFICES ASSUME FeederInv, [FeederNext]_feederVars PROVE FeederInv'
  OBVIOUS
<1>1. ASSUME NEW d \in Daemon, Start(d) PROVE FeederInv'
  BY <1>1, StartKeeps
<1>2. ASSUME NEW d \in Daemon, Work(d) PROVE FeederInv'
  BY <1>2, WorkerAloneSteps, BeginFeedKeeps, RequestKeeps, ReceiveKeeps, AnswerKeeps DEF Work
<1>3. ASSUME NEW d \in Daemon, Fault(d) PROVE FeederInv'
  BY <1>3, WorkerAloneSteps DEF Fault
<1>4. CASE UNCHANGED feederVars
  <2>1. UNCHANGED <<gateway, now>> /\ UNCHANGED ledger /\ UNCHANGED <<worker, configured>>
    BY <1>4 DEF feederVars
  <2>2. Workers' /\ \A b \in Attempt : Unfed(b) => Unfed(b)'
    <3>1. /\ handler' = handler /\ refusal' = refusal /\ complete' = complete
          /\ inFlight' = inFlight /\ pulses' = pulses
      BY <2>1 DEF gateway
    <3>. QED
      BY <2>1, <3>1 DEF FeederInv, Workers, Working, Attended, Waits, Is, Unfed, OnItsWay, On
  <2>3. UNCHANGED vars /\ pulses' = pulses
    BY <2>1 DEF vars, gateway, store, owner
  <2>. QED
    BY <2>1, <2>2, <2>3, GatewayMoves
<1>. QED
  BY <1>1, <1>2, <1>3, <1>4, GatewayStepKeeps, SettleKeeps, OperatorKeeps DEF FeederNext

LEMMA FeederAlways == FeederSpec => []FeederInv
BY InitFeeder, StepFeeder, PTL DEF FeederSpec

(***************************************************************************)
(* Whatever was lost, late, repeated or restarted, by any number of        *)
(* daemons: a confirmed attempt was fed, one recorded as not fed was not   *)
(* and is not under way.                                                   *)
(***************************************************************************)
THEOREM LedgerIsTrue == FeederSpec => []LedgerTellsTheTruth
<1>1. FeederInv => LedgerTellsTheTruth
  BY DEF FeederInv, Fate, Unfed, LedgerTellsTheTruth
<1>. QED
  BY <1>1, FeederAlways, PTL

-----------------------------------------------------------------------------
(***************************************************************************)
(* The composition: a feeder's step is a step of the gateway and a step of *)
(* the ledger, or leaves them alone.  What was shown of each holds of both *)
(* together.                                                               *)
(***************************************************************************)
LEMMA StepIsGateway == FeederInv /\ [FeederNext]_feederVars => [Next]_vars
<1>. SUFFICES ASSUME FeederInv, [FeederNext]_feederVars PROVE [Next]_vars
  OBVIOUS
<1>1. CASE UNCHANGED <<gateway, now>>
  BY <1>1 DEF vars, gateway, store, owner
<1>2. ASSUME NEW d \in Daemon, Start(d) PROVE UNCHANGED <<gateway, now>>
  BY <1>2 DEF Start, Ledger!MarkInterruptedFeedIntentsUnknown
<1>3. ASSUME NEW d \in Daemon,
             \/ Wake(d) \/ CheckDue(d) \/ CheckSafety(d) \/ Begin(d)
             \/ MarkUnknown(d) \/ ApplyOutcome(d)
      PROVE  UNCHANGED <<gateway, now>>
  BY <1>3 DEF Wake, CheckDue, CheckSafety, Begin, MarkUnknown, ApplyOutcome, OnlyWorker,
              OnlyLedger, Ledger!BeginFeedAttempt, Ledger!MarkFeedUnknown,
              Ledger!ConfirmFeedAttempt, Ledger!ReconcileUnknownAsFed, Ledger!ResolveAsFed,
              Ledger!ResolveFeedNotDispatched
<1>4. ASSUME NEW d \in Daemon, Fault(d) PROVE UNCHANGED <<gateway, now>>
  BY <1>4 DEF Fault, Crash, LoseRequest, TransactionFails, OnlyWorker
<1>5. ASSUME NEW d \in Daemon, NEW h \in Handler, SendPost(d, h) \/ SendGet(d, h) PROVE Next
  BY <1>5 DEF SendPost, SendGet, Next, FeederInv, Workers, Working, Is
<1>6. ASSUME NEW d \in Daemon, Receive(d) PROVE Next
  BY <1>6 DEF Receive, Next, FeederInv, Workers, Attended
<1>7. ASSUME Settle \/ \E a \in Attempt : ReconcileFeed(a) PROVE UNCHANGED <<gateway, now>>
  BY <1>7 DEF Settle, ReconcileFeed, Ledger!CreditReceipt, Ledger!ReconcileUnknownAsFed,
              Ledger!ResolveAsFed, Ledger!ReconcileUnknownAsNotFed
<1>8. ASSUME GatewayStep PROVE Next
  BY <1>8 DEF GatewayStep, Next
<1>9. CASE UNCHANGED feederVars
  BY <1>1, <1>9 DEF feederVars
<1>. QED
  BY <1>1, <1>2, <1>3, <1>4, <1>5, <1>6, <1>7, <1>8, <1>9 DEF FeederNext, Work

\* Seen from the gateway, the worker is one of its clients.
THEOREM FeederUsesGateway == FeederSpec => Spec
<1>1. FeederInit => Init
  BY DEF FeederInit
<1>. QED
  BY <1>1, FeederAlways, StepIsGateway, PTL DEF FeederSpec, Spec

LEMMA StepIsLedger == FeederInv /\ [FeederNext]_feederVars => [Ledger!Next]_(Ledger!vars)
<1>. SUFFICES ASSUME FeederInv, [FeederNext]_feederVars PROVE [Ledger!Next]_(Ledger!vars)
  OBVIOUS
<1>1. CASE UNCHANGED <<ledger, now>>
  BY <1>1 DEF ledger, Ledger!vars
<1>2. ASSUME NEW d \in Daemon, Start(d)
      PROVE  UNCHANGED <<ledger, now>> \/ Ledger!MarkInterruptedFeedIntentsUnknown
  BY <1>2 DEF Start
<1>3. ASSUME NEW d \in Daemon, Begin(d)
      PROVE  \/ UNCHANGED <<ledger, now>>
             \/ \E a \in Attempt, t \in ThresholdSats : Ledger!BeginFeedAttempt(a, t)
  BY <1>3 DEF Begin, FeederInv, Workers
<1>4. ASSUME NEW d \in Daemon, MarkUnknown(d) \/ ApplyOutcome(d)
      PROVE  \/ UNCHANGED <<ledger, now>>
             \/ \E a \in Attempt : Ledger!MarkFeedUnknown(a) \/ Ledger!Resolve(a)
  <2>. DEFINE a == worker[d].id
  <2>1. a \in Attempt
    BY <1>4 DEF MarkUnknown, ApplyOutcome, FeederInv, Workers, Working, Is
  <2>2. ApplyOutcome(d) /\ worker[d].reply = "NotDispatched"
        => refusal[a].retry \in 1..MaxDelay
    BY <2>1, AnswersDecide DEF ApplyOutcome, FeederInv, Workers, Working, Is
  <2>. QED
    BY <1>4, <2>1, <2>2 DEF MarkUnknown, ApplyOutcome, Ledger!Resolve
<1>5. ASSUME NEW d \in Daemon,
             \/ Wake(d) \/ CheckDue(d) \/ CheckSafety(d) \/ Receive(d)
             \/ \E h \in Handler : SendPost(d, h) \/ SendGet(d, h)
      PROVE  UNCHANGED <<ledger, now>>
  BY <1>5 DEF Wake, CheckDue, CheckSafety, Receive, SendPost, SendGet, OnlyWorker, OnlyGateway
<1>6. ASSUME NEW d \in Daemon, Fault(d) PROVE UNCHANGED <<ledger, now>>
  BY <1>6 DEF Fault, Crash, LoseRequest, TransactionFails, OnlyWorker
<1>7. ASSUME Settle PROVE \E sats \in PaymentSats : Ledger!CreditReceipt(sats)
  BY <1>7 DEF Settle
<1>8. ASSUME NEW a \in Attempt, ReconcileFeed(a) PROVE Ledger!Resolve(a)
  BY <1>8 DEF ReconcileFeed, Ledger!Resolve
<1>9. ASSUME GatewayStep PROVE UNCHANGED <<ledger, now>> \/ \E t \in 0..MaxTime : Ledger!SetClock(t)
  <2>1. UNCHANGED ledger /\ (now' = now \/ (now < MaxTime /\ now' = now + 1))
    <3>1. UNCHANGED ledger
      BY <1>9 DEF GatewayStep, OnlyItself
    <3>2. ASSUME NEW h \in Handler, NEW a \in Attempt, Handle(h, a) PROVE now' = now
      BY <3>2 DEF Handle, PostStatus, GetStatus, ReadSafety, BeginRequest, CommandFeederRequest,
                  WaitForAck, HandleExistingPending, MarkAcknowledged
    <3>3. ASSUME NEW h \in Handler, Timeout(h) \/ Close(h) PROVE now' = now
      BY <3>3 DEF Timeout, Close
    <3>4. ASSUME NEW a \in Attempt, OwnerPulse(a) \/ OwnerDeny(a) \/ OwnerComplete(a) PROVE now' = now
      BY <3>4 DEF OwnerPulse, OwnerDeny, OwnerComplete
    <3>5. CASE Switch
      BY <3>1, <3>5 DEF Switch
    <3>6. CASE Tick
      BY <3>1, <3>6 DEF Tick
    <3>. QED
      BY <1>9, <3>1, <3>2, <3>3, <3>4, <3>5, <3>6 DEF GatewayStep
  <2>2. now \in Nat /\ MaxTime \in Nat
    BY GatewayAssumption DEF FeederInv, Gateway, RateInv, Clocks
  <2>3. CASE now < MaxTime /\ now' = now + 1
    <3>1. now + 1 \in 0..MaxTime /\ Ledger!SetClock(now + 1)
      BY <2>1, <2>2, <2>3 DEF Ledger!SetClock, ledger
    <3>. QED
      BY <3>1
  <2>. QED
    BY <2>1, <2>3
<1>10. CASE UNCHANGED feederVars
  BY <1>1, <1>10 DEF feederVars
<1>11. CASE UNCHANGED <<ledger, now>> \/ Ledger!Next
  BY <1>1, <1>11
<1>12. ASSUME \/ \E sats \in PaymentSats : Ledger!CreditReceipt(sats)
              \/ Ledger!MarkInterruptedFeedIntentsUnknown
              \/ \E a \in Attempt, t \in ThresholdSats : Ledger!BeginFeedAttempt(a, t)
              \/ \E a \in Attempt : Ledger!MarkFeedUnknown(a) \/ Ledger!Resolve(a)
              \/ \E t \in 0..MaxTime : Ledger!SetClock(t)
       PROVE  Ledger!Next
  BY <1>12 DEF Ledger!Next
<1>. QED
  BY <1>2, <1>3, <1>4, <1>5, <1>6, <1>7, <1>8, <1>9, <1>10, <1>11, <1>12
     DEF FeederNext, Work

\* Seen from the ledger, the worker, settlements and the operator are its callers.
THEOREM FeederUsesLedger == FeederSpec => Ledger!Spec
<1>1. FeederInit => Ledger!Init
  BY DEF FeederInit
<1>. QED
  BY <1>1, FeederAlways, StepIsLedger, PTL DEF FeederSpec, Ledger!Spec

-----------------------------------------------------------------------------
(***************************************************************************)
(* The promise to the payers.  What was received is the credit and what    *)
(* the confirmed attempts were debited; what was spent is the price of the *)
(* attempts that were fed.  A pulse is always that of the one unresolved   *)
(* attempt, every earlier one is confirmed, and the credit still covers    *)
(* it: the debit that follows does not change what was received.           *)
(***************************************************************************)
LEMMA PromiseSums ==
  /\ Received = credit + Total(threshold, debited)
  /\ \A p : Promise!Spent(p) = Total(p, Attempt)
BY DEF Received, Total, Promise!Spent, MapThenSumSet, MapThenFoldSet,
       Promise!MapThenSumSet, Promise!MapThenFoldSet

LEMMA ReceivedNext == Received' = credit' + Total(threshold', debited')
BY DEF Received, Total, MapThenSumSet, MapThenFoldSet

LEMMA InitPromise == FeederInit => Promise!Init
<1>. SUFFICES ASSUME FeederInit PROVE Promise!Init
  OBVIOUS
<1>1. credit = 0 /\ debited = {} /\ pulses = [a \in Attempt |-> 0]
  BY DEF FeederInit, Ledger!Init, Init
<1>2. PICK n : n = Received
  OBVIOUS
<1>3. n = 0
  <2>1. Total(threshold, {}) = 0
    BY TotalEmpty
  <2>. QED
    BY <1>1, <1>2, <2>1, PromiseSums
<1>4. Price = [a \in Attempt |-> 0]
  BY <1>1 DEF Price
<1>. QED
  BY <1>2, <1>3, <1>4 DEF Promise!Init

LEMMA Numbers ==
  ASSUME FeederInv
  PROVE  /\ debited \subseteq Attempt /\ IsFiniteSet(debited) /\ credit \in Nat
         /\ \A a \in Attempt : threshold[a] \in Nat
         /\ Total(threshold, debited) \in Int
<1>1. debited \in SUBSET Attempt /\ credit \in Nat /\ \A a \in Attempt : threshold[a] \in Nat
  BY LedgerSays DEF FeederInv, Accounts
<1>2. IsFiniteSet(debited)
  BY <1>1, FS_Subset, FeederAssumption
<1>. QED
  BY <1>1, <1>2, TotalType

\* A receipt raises what was received.
LEMMA ReceiptPromised ==
  ASSUME FeederInv, NEW sats \in PaymentSats, Ledger!CreditReceipt(sats), pulses' = pulses
  PROVE  Received' > Received /\ Price' = Price
<1>1. /\ sats \in Nat /\ sats > 0 /\ credit' = credit + sats
      /\ debited' = debited /\ threshold' = threshold
  BY FeederAssumption DEF Ledger!CreditReceipt
<1>. QED
  BY <1>1, Numbers, PromiseSums, ReceivedNext DEF Price

\* A new attempt has its price before it is fed or debited.
LEMMA BeginPromised ==
  ASSUME FeederInv, NEW a \in Attempt, NEW t \in ThresholdSats,
         Ledger!BeginFeedAttempt(a, t), pulses' = pulses
  PROVE  Received' = Received /\ Price' = Price
<1>1. /\ status[a] = "absent" /\ credit' = credit /\ debited' = debited
      /\ \A b \in Attempt \ {a} : threshold'[b] = threshold[b]
  BY LedgerSays DEF Ledger!BeginFeedAttempt, FeederInv, Accounts
<1>2. a \notin debited /\ pulses[a] = 0
  BY <1>1, LedgerSays DEF FeederInv, Accounts, Fate, Unfed
<1>3. PICK f, e : f = threshold /\ e = threshold'
  OBVIOUS
<1>4. Total(e, debited) = Total(f, debited)
  BY <1>1, <1>2, <1>3, Numbers, TotalSame
<1>. QED
  BY <1>1, <1>2, <1>3, <1>4, PromiseSums, ReceivedNext DEF Price

\* A debit moves the price from the credit to the debits.
LEMMA DebitPromised ==
  ASSUME FeederInv, NEW a \in Attempt, NEW expected, Ledger!ResolveAsFed(a, expected),
         pulses' = pulses
  PROVE  Received' = Received /\ Price' = Price
<1>1. /\ a \notin debited /\ debited' = debited \cup {a} /\ threshold' = threshold
      /\ credit' = credit - threshold[a]
  BY DEF Ledger!ResolveAsFed
<1>2. PICK f : f = threshold
  OBVIOUS
<1>3. \A b \in debited \cup {a} : f[b] \in Int
  BY <1>2, Numbers
<1>4. Total(f, debited \cup {a}) = f[a] + Total(f, debited)
  BY <1>1, <1>3, Numbers, TotalAdded
<1>5. f[a] \in Int /\ credit \in Int /\ Total(f, debited) \in Int
  BY <1>2, Numbers
<1>. QED
  BY <1>1, <1>2, <1>4, <1>5, PromiseSums, ReceivedNext DEF Price

\* A pulse is paid for: the attempt is unresolved, all earlier ones are debited.
LEMMA PulsePromised ==
  ASSUME FeederInv, NEW a \in Attempt, OwnerPulse(a), UNCHANGED ledger
  PROVE  /\ Price[a] = 0 /\ threshold[a] \in ThresholdSats
         /\ Total(Price, Attempt) + threshold[a] <= Received
         /\ Price' = [Price EXCEPT ![a] = threshold[a]] /\ Received' = Received
<1>0. Accounts /\ GatewayInv /\ Fate /\ Priced
  BY LedgerSays DEF FeederInv, Gateway
<1>1. /\ inFlight[a] > 0 /\ pulses[a] = 0 /\ pulses \in [Attempt -> Nat]
      /\ pulses' = [pulses EXCEPT ![a] = @ + 1]
  <2>1. inFlight[a] > 0 /\ inFlight[a] \in Nat /\ pulses[a] \in Nat
        /\ inFlight[a] + pulses[a] <= 1
    BY <1>0 DEF OwnerPulse, GatewayInv, Typed, Dispatched
  <2>. QED
    BY <1>0, <2>1 DEF OwnerPulse, GatewayInv, Typed
<1>2. status[a] \in {"intent_committed", "unknown"} /\ threshold[a] \in ThresholdSats
  <2>1. status[a] \notin {"absent", "reconciled_not_fed", "confirmed"}
    BY <1>0, <1>1 DEF Fate, Unfed
  <2>. QED
    BY <1>0, <2>1 DEF Accounts, Priced
<1>3. ASSUME NEW b \in Attempt PROVE b \in debited <=> pulses[b] > 0
  <2>1. CASE b = a
    BY <1>0, <1>1, <1>2, <2>1 DEF Accounts
  <2>2. CASE b # a /\ pulses[b] > 0
    <3>1. status[b] \notin {"absent", "reconciled_not_fed"}
      BY <1>0, <2>2 DEF Fate, Unfed
    <3>2. status[b] \notin {"intent_committed", "unknown"}
      BY <1>0, <1>2, <2>2 DEF Accounts
    <3>. QED
      BY <1>0, <2>2, <3>1, <3>2 DEF Accounts
  <2>3. CASE b \in debited
    BY <1>0, <2>3 DEF Accounts, Fate
  <2>. QED
    BY <2>1, <2>2, <2>3
<1>4. PICK p, f : p = Price /\ f = threshold
  OBVIOUS
<1>5. /\ \A b \in Attempt : p[b] \in Int
      /\ \A b \in Attempt \ debited : p[b] = 0
      /\ \A b \in debited : p[b] = f[b]
  BY <1>3, <1>4, Numbers DEF Price
<1>6. Total(p, Attempt) = Total(f, debited)
  <2>1. Total(p, Attempt) = Total(p, debited)
    BY <1>5, Numbers, TotalWithoutZeros, FeederAssumption
  <2>2. Total(p, debited) = Total(f, debited)
    BY <1>5, Numbers, TotalSame
  <2>. QED
    BY <2>1, <2>2
<1>7. credit >= threshold[a]
  BY <1>0, <1>2 DEF Accounts
<1>8. Total(Price, Attempt) + threshold[a] <= Received
  BY <1>4, <1>6, <1>7, Numbers, PromiseSums
<1>9. Price' = [Price EXCEPT ![a] = threshold[a]]
  <2>1. threshold' = threshold
    BY DEF ledger
  <2>2. pulses'[a] > 0 /\ \A b \in Attempt \ {a} : pulses'[b] = pulses[b]
    BY <1>1
  <2>. QED
    BY <2>1, <2>2 DEF Price
<1>10. Received' = Received
  BY PromiseSums, ReceivedNext DEF ledger
<1>. QED
  BY <1>1, <1>2, <1>8, <1>9, <1>10 DEF Price

LEMMA StepPromise == FeederInv /\ [FeederNext]_feederVars => [Promise!Next]_(Promise!promise)
<1>. SUFFICES ASSUME FeederInv, [FeederNext]_feederVars
              PROVE  [Promise!Next]_(Promise!promise)
  OBVIOUS
<1>1. CASE Received' = Received /\ Price' = Price
  BY <1>1 DEF Promise!promise
<1>2. CASE \E a \in Attempt : OwnerPulse(a) /\ UNCHANGED ledger
  <2>1. PICK a \in Attempt : OwnerPulse(a) /\ UNCHANGED ledger
    BY <1>2
  <2>2. PICK t \in ThresholdSats : t = threshold[a]
    BY <2>1, PulsePromised
  <2>3. Promise!Spent(Price) = Total(Price, Attempt)
    BY PromiseSums
  <2>4. Price[a] = 0 /\ Promise!Spent(Price) + t <= Received
        /\ Price' = [Price EXCEPT ![a] = t] /\ Received' = Received
    BY <2>1, <2>2, <2>3, PulsePromised
  <2>. QED
    BY <2>4 DEF Promise!Next, Promise!Feed
<1>3. ASSUME pulses' = pulses, NEW sats \in PaymentSats, Ledger!CreditReceipt(sats)
      PROVE  Promise!Next
  <2>1. Received' > Received /\ Price' = Price
    BY <1>3, ReceiptPromised
  <2>. QED
    BY <2>1 DEF Promise!Next, Promise!Receive
<1>4. ASSUME credit' = credit, debited' = debited, threshold' = threshold, pulses' = pulses
      PROVE  Received' = Received /\ Price' = Price
  BY <1>4, PromiseSums, ReceivedNext DEF Price
<1>5. ASSUME pulses' = pulses,
             \/ Ledger!MarkInterruptedFeedIntentsUnknown
             \/ \E a \in Attempt :
                  \/ \E t \in ThresholdSats : Ledger!BeginFeedAttempt(a, t)
                  \/ Ledger!MarkFeedUnknown(a) \/ Ledger!Resolve(a)
      PROVE  Received' = Received /\ Price' = Price
  <2>1. CASE \E a \in Attempt, t \in ThresholdSats : Ledger!BeginFeedAttempt(a, t)
    BY <1>5, <2>1, BeginPromised
  <2>2. CASE \E a \in Attempt, e \in Ledger!Unresolved : Ledger!ResolveAsFed(a, e)
    BY <1>5, <2>2, DebitPromised
  <2>3. CASE credit' = credit /\ debited' = debited /\ threshold' = threshold
    BY <1>4, <1>5, <2>3
  <2>. QED
    BY <1>5, <2>1, <2>2, <2>3
       DEF Ledger!MarkInterruptedFeedIntentsUnknown, Ledger!MarkFeedUnknown, Ledger!Resolve,
           Ledger!ConfirmFeedAttempt, Ledger!ReconcileUnknownAsFed, Ledger!Unresolved,
           Ledger!ReconcileUnknownAsNotFed, Ledger!ResolveFeedNotDispatched
<1>6. CASE UNCHANGED ledger /\ ~(\E a \in Attempt : OwnerPulse(a))
  <2>1. pulses' = pulses
    <3>1. [Next]_vars
      BY StepIsGateway
    <3>2. ASSUME NEW h \in Handler, NEW a \in Attempt, Post(h, a) \/ Get(h, a) \/ Handle(h, a)
          PROVE  pulses' = pulses
      BY <3>2 DEF Post, Get, Accept, Handle, PostStatus, GetStatus, ReadSafety, BeginRequest,
                  CommandFeederRequest, WaitForAck, HandleExistingPending, MarkAcknowledged, owner
    <3>3. ASSUME \/ \E h \in Handler : Timeout(h) \/ Close(h)
                 \/ \E a \in Attempt : OwnerDeny(a) \/ OwnerComplete(a)
                 \/ Switch \/ Tick \/ UNCHANGED vars
          PROVE  pulses' = pulses
      BY <3>3 DEF Timeout, Close, OwnerDeny, OwnerComplete, Switch, Tick, vars, owner
    <3>. QED
      BY <1>6, <3>1, <3>2, <3>3 DEF Next
  <2>. QED
    BY <1>1, <1>4, <1>6, <2>1 DEF ledger
<1>7. CASE ~(UNCHANGED ledger)
  <2>1. pulses' = pulses
    BY <1>7 DEF FeederNext, Start, Work, Fault, Wake, CheckDue, CheckSafety, Begin, SendPost,
                SendGet, Receive, MarkUnknown, ApplyOutcome, Crash, LoseRequest,
                TransactionFails, OnlyWorker, OnlyLedger, OnlyGateway, OnlyItself, GatewayStep,
                ReconcileFeed, Settle, gateway, feederVars
  <2>2. \/ Ledger!MarkInterruptedFeedIntentsUnknown
        \/ \E a \in Attempt :
             \/ \E t \in ThresholdSats : Ledger!BeginFeedAttempt(a, t)
             \/ Ledger!MarkFeedUnknown(a) \/ Ledger!Resolve(a)
        \/ \E sats \in PaymentSats : Ledger!CreditReceipt(sats)
    <3>1. Ledger!Next /\ ~(\E t \in 0..MaxTime : Ledger!SetClock(t))
      BY <1>7, StepIsLedger DEF Ledger!SetClock, Ledger!vars, ledger
    <3>. QED
      BY <3>1 DEF Ledger!Next
  <2>. QED
    BY <1>1, <1>3, <1>5, <2>1, <2>2
<1>. QED
  BY <1>2, <1>6, <1>7

(***************************************************************************)
(* The system implements what the payers are promised: money is kept, and  *)
(* each attempt is fed at most once, within what was received, for every   *)
(* number of daemons, clients and attempts and every price.                *)
(***************************************************************************)
THEOREM FeederKeepsPromise == FeederSpec => KeepsPromise
BY InitPromise, StepPromise, FeederAlways, PTL DEF FeederSpec, KeepsPromise, Promise!Spec
=============================================================================
