----------------------------- MODULE FeederOwner -----------------------------
(***************************************************************************)
(* The openHAB rule that owns the feeder,                                  *)
(* deploy/openhab/feeder-owner-v2.js, and what the gateway concludes from  *)
(* the receipts it leaves (src/openhab.rs).                                *)
(* It keeps its receipts in one String item that openHAB persists by JDBC, *)
(* serialises its runs by a token in a shared cache, and pulses the plug   *)
(* for one second with a timer.  openHAB may restart at any step, the      *)
(* script may be reloaded under a pending timer, a command may be          *)
(* delivered any number of times, and a write may fail half way.           *)
(***************************************************************************)
EXTENDS Integers, Sequences, SequencesExt, FiniteSets, FiniteSetsExt

CONSTANTS
  Request,     \* request ids of feeder commands
  Run,         \* executions of the rule, a timer that is pending included
  MaxEntries,  \* MAX_LEDGER_ENTRIES
  Cooldown,    \* COOLDOWN_MS
  Window,      \* seconds around a completion in which its receipt is looked for
  MaxTime,     \* bound on time
  MaxRestarts  \* bound on restarts and reloads

ASSUME OwnerAssumption ==
  /\ "free" \notin Run /\ "held" \notin Run
  /\ MaxEntries \in Nat
  /\ Cooldown \in Nat \ {0}
  /\ Window \in Nat
  /\ MaxTime \in Nat
  /\ MaxRestarts \in Nat

VARIABLES
  item,       \* state of GoatFeeder_OwnerLedgerV2: the receipt of each request
  history,    \* the rows JDBC holds for that item
  restored,   \* the item had a state after the last restart (it was not NULL)
  guard,      \* the token: a Run, "free", or "held" by one that gave up
  lastStart,  \* LAST_START_KEY of the shared cache
  run,        \* what each execution is about to do
  plug,       \* Goat_Plugs_Outlet2_Switch is ON
  counter,    \* GoatFeedings
  result,     \* state of GoatFeeder_ManualResult
  pulses,     \* times the plug was switched on for it
  startedAt,  \* when that was
  now, restarts

receipts == <<item, history, restored>>
feeder == <<plug, counter, pulses, startedAt>>
vars == <<receipts, guard, lastStart, run, feeder, result, now, restarts>>

Never == -Cooldown
Absent == [status |-> "absent", updatedAt |-> Never]
Accepted == [status |-> "accepted", updatedAt |-> Never]
Complete(t) == [status |-> "complete", updatedAt |-> t]

Row(t, state) == [time |-> t, state |-> state]
jdbc == Last(history).state
Persist(new) == history' = Append(history, Row(now, new))

Result(r, s) == [id |-> r, status |-> s]
NoResult == [status |-> "NULL"]

Ended == [pc |-> "ended"]
At(pc, r) == [pc |-> pc, id |-> r]
Finish(r, t) == [pc |-> "finish", id |-> r, at |-> t]
Is(i, pc) == run[i].pc = pc

Become(i, next) == run' = [run EXCEPT ![i] = next]
PostResult(r, s) == result' \in {result, Result(r, s)}   \* it may fail
ReleaseBusy(i) == guard' = IF guard = i THEN "free" ELSE guard

\* The rule ends and nobody owns the feeder: only a restart frees it again.
GiveUp(i, r, s) ==
  /\ Become(i, Ended)
  /\ PostResult(r, s)
  /\ guard' = IF guard = i THEN "held" ELSE guard

End(i, r, s) ==
  /\ Become(i, Ended)
  /\ PostResult(r, s)
  /\ ReleaseBusy(i)

Known == {r \in Request : item[r].status # "absent"}
\* Mutants: operators named Mutant... are plausible bugs of the operator they
\* precede.  Nothing here uses them; each breaks a property below.
MutantLastStartCachedOnly == lastStart

LastStart == Max({lastStart} \cup {item[r].updatedAt : r \in Request})

-----------------------------------------------------------------------------
Init ==
  /\ item = [r \in Request |-> Absent]
  /\ history = <<Row(0, item)>>
  /\ restored = TRUE
  /\ guard = "free"
  /\ lastStart = Never
  /\ run = [i \in Run |-> Ended]
  /\ plug = FALSE
  /\ counter = 0
  /\ result = NoResult
  /\ pulses = [r \in Request |-> 0]
  /\ startedAt = [r \in Request |-> 0]
  /\ now = 0
  /\ restarts = 0

\* A command arrives; compareAndSet admits one run at a time.
Trigger(i, r) ==
  /\ Is(i, "ended") /\ guard # i
  /\ \/ guard = "free" /\ guard' = i /\ Become(i, At("admit", r)) /\ UNCHANGED result
     \/ guard # "free" /\ PostResult(r, "denied") /\ UNCHANGED <<guard, run>>
  /\ UNCHANGED <<receipts, lastStart, feeder, now, restarts>>

(***************************************************************************)
(* Admission.  The age of the request and the size of the ledger in bytes  *)
(* are up to the request: they may deny any.                               *)
(***************************************************************************)
Trusted == restored /\ item = jdbc

MutantAdmitDespiteUncertain ==
  /\ Trusted
  /\ Cardinality(Known) < MaxEntries
  /\ now - LastStart >= Cooldown

Admissible ==
  /\ Trusted
  /\ \A q \in Known : item[q].status = "complete"
  /\ Cardinality(Known) < MaxEntries
  /\ now - LastStart >= Cooldown

\* Mutant: an interrupted request is taken up again.
MutantAdmitInterrupted(i) ==
  /\ Is(i, "admit")
  /\ LET r == run[i].id
         others == Known \ {r}
     IN \/ Trusted /\ r \in Known /\ End(i, r, item[r].status)
        \/ ~(Trusted /\ r \in Known) /\ End(i, r, "denied")
        \/ /\ Trusted /\ item[r].status # "complete"
           /\ \A q \in others : item[q].status = "complete"
           /\ Cardinality(others) < MaxEntries /\ now - LastStart >= Cooldown
           /\ Become(i, At("accept", r))
           /\ UNCHANGED <<guard, result>>
  /\ UNCHANGED <<receipts, lastStart, feeder, now, restarts>>

Admit(i) ==
  /\ Is(i, "admit")
  /\ LET r == run[i].id IN
       \/ Trusted /\ r \in Known /\ End(i, r, item[r].status)
       \/ ~(Trusted /\ r \in Known) /\ End(i, r, "denied")
       \/ /\ Admissible /\ r \notin Known
          /\ Become(i, At("accept", r))
          /\ UNCHANGED <<guard, result>>
  /\ UNCHANGED <<receipts, lastStart, feeder, now, restarts>>

(***************************************************************************)
(* writeLedger: the item is updated, then persisted, and both are read     *)
(* back.  It fails with neither, the item or both of them changed.         *)
(***************************************************************************)
Written(new) == item' = new /\ Persist(new)
HalfWritten(new) ==
  \/ UNCHANGED <<item, history>>
  \/ item' = new /\ UNCHANGED history
  \/ Written(new)

WriteAccepted(i) ==
  /\ Is(i, "accept")
  /\ LET r == run[i].id
         new == [item EXCEPT ![r] = Accepted]
     IN \/ /\ Written(new)
           /\ Become(i, At("on", r))
           /\ UNCHANGED <<guard, result>>
        \/ HalfWritten(new) /\ GiveUp(i, r, "failed")
  /\ UNCHANGED <<restored, lastStart, feeder, now, restarts>>

\* The pulse begins; the counter may be invalid, and the timer may not be made.
TurnOn(i) ==
  /\ Is(i, "on")
  /\ LET r == run[i].id IN
       \/ /\ GiveUp(i, r, "failed")
          /\ plug' = FALSE
          /\ UNCHANGED <<lastStart, pulses, startedAt>>
       \/ /\ lastStart' = now
          /\ pulses' = [pulses EXCEPT ![r] = @ + 1]
          /\ startedAt' = [startedAt EXCEPT ![r] = now]
          /\ \/ plug' = TRUE /\ Become(i, At("timer", r)) /\ PostResult(r, "running")
                /\ UNCHANGED guard
             \/ plug' = FALSE /\ GiveUp(i, r, "failed")
  /\ UNCHANGED <<receipts, counter, now, restarts>>

\* One second later the completion is stamped.  A timer whose token is gone only switches off.
TimerFires(i) ==
  /\ Is(i, "timer")
  /\ plug' = FALSE
  /\ LET r == run[i].id IN
       \/ /\ guard # i
          /\ Become(i, Ended)
          /\ UNCHANGED <<guard, result, counter>>
       \/ /\ guard = i
          /\ counter' = counter + 1
          /\ Become(i, Finish(r, now))
          /\ UNCHANGED <<guard, result>>
       \/ /\ guard = i
          /\ counter' \in {counter, counter + 1}
          /\ GiveUp(i, r, "failed")
  /\ UNCHANGED <<receipts, lastStart, pulses, startedAt, now, restarts>>

WriteComplete(i) ==
  /\ Is(i, "finish")
  /\ LET r == run[i].id
         new == [item EXCEPT ![r] = Complete(run[i].at)]
     IN \/ Written(new) /\ End(i, r, "complete")
        \/ HalfWritten(new) /\ GiveUp(i, r, "failed")
  /\ UNCHANGED <<restored, lastStart, feeder, now, restarts>>

-----------------------------------------------------------------------------
\* The one-second expire metadata of the plug item, the independent OFF.
Expire ==
  /\ plug /\ plug' = FALSE
  /\ UNCHANGED <<receipts, guard, lastStart, run, counter, pulses, startedAt,
                 result, now, restarts>>

Forget ==
  /\ restarts < MaxRestarts /\ restarts' = restarts + 1
  /\ guard' = "free"
  /\ lastStart' = Never

\* openHAB restarts: the item is restored from JDBC, or is NULL.
Restart ==
  /\ Forget
  /\ item' = jdbc /\ restored' \in BOOLEAN
  /\ run' = [i \in Run |-> Ended]
  /\ result' \in {result, NoResult}
  /\ UNCHANGED <<history, feeder, now>>

\* The script is reloaded and the shared cache renewed; a timer may survive.
Reload ==
  /\ Forget
  /\ \A i \in Run : Is(i, "ended") \/ Is(i, "timer")
  /\ UNCHANGED <<receipts, run, feeder, result, now>>

Tick ==
  /\ now < MaxTime /\ now' = now + 1
  /\ UNCHANGED <<receipts, guard, lastStart, run, feeder, result, restarts>>

Next ==
  \/ \E i \in Run :
       \/ \E r \in Request : Trigger(i, r)
       \/ Admit(i)
       \/ WriteAccepted(i)
       \/ TurnOn(i)
       \/ TimerFires(i)
       \/ WriteComplete(i)
  \/ Expire
  \/ Restart
  \/ Reload
  \/ Tick

Spec == Init /\ [][Next]_vars
-----------------------------------------------------------------------------
(***************************************************************************)
(* What the gateway concludes of a request from the items and, for a       *)
(* completion, from the rows JDBC stored around it (feeder_result_v2).     *)
(***************************************************************************)
ResultOutcome(r) ==
  IF result = NoResult THEN "Absent"
  ELSE IF result.id # r THEN "Absent"
  ELSE CASE result.status \in {"accepted", "running"} -> "Pending"
         [] result.status = "denied" -> "Rejected"
         [] OTHER -> "Ambiguous"

RowsAround(t) ==
  {n \in DOMAIN history : t - Window <= history[n].time /\ history[n].time <= t + Window}

\* JDBC contradicts the item, or the receipt was complete in an earlier row.
Contradicted(r, rows) ==
  \E n \in rows :
    LET receipt == history[n].state[r] IN
      \/ /\ receipt.status = "complete"
         /\ receipt # item[r] \/ history[n].time < item[r].updatedAt
      \/ /\ receipt.status # "complete"
         /\ \E m \in rows : m < n /\ history[m].state[r].status = "complete"

Certified(r, rows) == \E n \in rows : history[n].state[r].status = "complete"

\* Mutant: the item is enough.
MutantTrustItem(r) ==
  IF ~restored THEN "Error" ELSE
  CASE item[r].status = "absent" -> ResultOutcome(r)
    [] item[r].status = "accepted" -> "Pending"
    [] item[r].status = "complete" -> "Complete"

FeederResult(r) ==
  IF ~restored THEN "Error" ELSE
  CASE item[r].status = "absent" -> ResultOutcome(r)
    [] item[r].status = "accepted" -> "Pending"
    [] item[r].status = "complete" ->
         LET rows == RowsAround(item[r].updatedAt) IN
           IF Contradicted(r, rows) THEN "Error"
           ELSE IF Certified(r, rows) THEN "Complete"
           ELSE "Ambiguous"
-----------------------------------------------------------------------------
\* A request is pulsed at most once, also across restarts, reloads of the
\* script, repeated commands and writes that failed half way; and while a pulse
\* has no durable receipt, no other request is pulsed: the "restart_uncertain"
\* refusal and the held token see to it.
PulsesAreAccountedFor ==
  /\ \A r \in Request : pulses[r] <= 1
  /\ \A q, r \in Request :
       /\ pulses[q] > 0 /\ jdbc[q].status # "complete"
       /\ pulses[r] > 0 /\ jdbc[r].status # "complete"
       => q = r

\* A "Complete" the gateway concludes, and confirms to the ledger as a feed that
\* took place, is backed by a pulse that ended and by a receipt that a restart
\* restores; a pulse is never concluded to be absent or rejected; and nothing the
\* owner writes, in time, is taken for a contradiction.
CompletionIsTrue ==
  \A r \in Request :
    /\ FeederResult(r) = "Complete" =>
         /\ pulses[r] = 1 /\ startedAt[r] <= item[r].updatedAt
         /\ jdbc[r] = item[r]
    /\ pulses[r] > 0 => FeederResult(r) \notin {"Absent", "Rejected"}
    /\ \A n \in DOMAIN history :
         /\ history[n].state[r].status = "complete"
         /\ history[n].time <= history[n].state[r].updatedAt + Window
         => FeederResult(r) = "Complete" \/ ~restored

\* Two pulses start at least COOLDOWN_MS apart, although the cached start is lost
\* in a restart: the completion time of the receipts bounds it.
StartsAreSpaced ==
  \A q, r \in Request :
    /\ q # r /\ pulses[q] > 0 /\ pulses[r] > 0 /\ startedAt[q] <= startedAt[r]
    => startedAt[r] - startedAt[q] >= Cooldown

=============================================================================
