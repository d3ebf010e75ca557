-------------------------- MODULE FeederOwner_proofs --------------------------
(***************************************************************************)
(* For any number of requests and executions, any ledger size, cooldown    *)
(* and window, and any restarts, reloads and failed writes: a request is   *)
(* pulsed once, its receipts are what happened, and pulses are apart.      *)
(***************************************************************************)
EXTENDS FeederOwner, SequenceTheorems, TLAPS

Receipt == {Absent, Accepted} \cup {Complete(t) : t \in Nat}

Rows == [time : Nat, state : [Request -> Receipt]]

Typed ==
  /\ item \in [Request -> Receipt]
  /\ history \in Seq(Rows)
  /\ history # <<>>
  /\ run = [i \in Run |-> run[i]]
  /\ pulses \in [Request -> {0, 1}]
  /\ startedAt \in [Request -> Nat]
  /\ lastStart \in Int
  /\ now \in Nat

IsComplete(receipt) == receipt.status = "complete"

\* Some receipt is the newest: what LastStart takes the maximum of has one.
HasNewest(state) ==
  \A r \in Request : \E m \in Request :
    \A q \in Request : state[q].updatedAt <= state[m].updatedAt

\* JDBC never takes back a completion, and holds none before its time.
CompletionsStay ==
  \A m, n \in DOMAIN history : m <= n =>
    \A r \in Request : IsComplete(history[m].state[r]) =>
      /\ history[n].state[r] = history[m].state[r]
      /\ history[m].state[r].updatedAt <= history[m].time

\* The item is what JDBC holds, or is one write ahead of it.
ItemFollows ==
  \A r \in Request :
    \/ item[r] = jdbc[r]
    \/ jdbc[r] = Absent /\ item[r] = Accepted
    \/ jdbc[r] = Accepted /\ IsComplete(item[r])

OneUncertain == \A q, r \in Request : jdbc[q] = Accepted /\ jdbc[r] = Accepted => q = r

\* A completed request was pulsed before it completed; a pulsed one has a receipt.
Pulsed ==
  \A r \in Request :
    /\ startedAt[r] <= now
    /\ IsComplete(item[r]) =>
         pulses[r] = 1 /\ startedAt[r] <= item[r].updatedAt /\ item[r].updatedAt <= now
    /\ pulses[r] = 1 => jdbc[r] # Absent

\* Every pulse so far began a cooldown ago.
Rested == \A q \in Request : pulses[q] = 1 => startedAt[q] + Cooldown <= now

\* What an execution that owns the token knows between two of its steps.
Owning(work) ==
  /\ work.pc = "accept" =>
       /\ item = jdbc /\ item[work.id] = Absent /\ Rested
       /\ \A q \in Request : item[q] # Accepted
  /\ work.pc = "on" =>
       item = jdbc /\ item[work.id] = Accepted /\ pulses[work.id] = 0 /\ Rested
  /\ work.pc \in {"timer", "finish"} =>
       item = jdbc /\ item[work.id] = Accepted /\ pulses[work.id] = 1
  /\ work.pc = "finish" =>
       work.at \in Nat /\ startedAt[work.id] <= work.at /\ work.at <= now

\* Only a timer may be without the token, after a reload.
Holds(i, work) ==
  /\ work.pc \in {"ended", "admit", "accept", "on", "timer", "finish"}
  /\ work.pc # "ended" => work.id \in Request
  /\ work.pc \notin {"ended", "timer"} => guard = i
  /\ guard = i => Owning(work)

RunsHold == \A i \in Run : Holds(i, run[i])

Durable ==
  /\ HasNewest(item) /\ HasNewest(jdbc)
  /\ CompletionsStay /\ ItemFollows /\ OneUncertain
  /\ Pulsed /\ StartsAreSpaced

OwnerInv == Typed /\ Durable /\ RunsHold

-----------------------------------------------------------------------------
LEMMA ReceiptKinds ==
  /\ Absent # Accepted /\ ~IsComplete(Absent) /\ ~IsComplete(Accepted)
  /\ Absent \in Receipt /\ Accepted \in Receipt
  /\ Absent.updatedAt = Never /\ Accepted.updatedAt = Never
  /\ \A t \in Nat : /\ Complete(t) \in Receipt /\ IsComplete(Complete(t))
                    /\ Complete(t).updatedAt = t
  /\ \A x \in Receipt : /\ x = Absent \/ x = Accepted \/ IsComplete(x)
                        /\ x.updatedAt \in Int
                        /\ Never <= x.updatedAt
  /\ \A x \in Receipt : /\ x.status = "absent" <=> x = Absent
                        /\ x.status = "accepted" <=> x = Accepted
<1>. USE DEF Receipt, Absent, Accepted, Complete, IsComplete
<1>1. Never \in Int /\ \A t \in Nat : Never <= t
  BY OwnerAssumption DEF Never
<1>2. /\ Absent # Accepted /\ ~IsComplete(Absent) /\ ~IsComplete(Accepted)
      /\ Absent \in Receipt /\ Accepted \in Receipt
      /\ Absent.updatedAt = Never /\ Accepted.updatedAt = Never
  OBVIOUS
<1>3. \A t \in Nat : /\ Complete(t) \in Receipt /\ IsComplete(Complete(t))
                     /\ Complete(t).updatedAt = t
  OBVIOUS
<1>4. \A x \in Receipt : x = Absent \/ x = Accepted \/ \E t \in Nat : x = Complete(t)
  OBVIOUS
<1>5. ASSUME NEW x \in Receipt
      PROVE  /\ x = Absent \/ x = Accepted \/ IsComplete(x)
             /\ x.updatedAt \in Int
             /\ Never <= x.updatedAt
             /\ x.status = "absent" <=> x = Absent
             /\ x.status = "accepted" <=> x = Accepted
  <2>1. CASE x = Absent
    BY <2>1, <1>1, <1>2
  <2>2. CASE x = Accepted
    BY <2>2, <1>1, <1>2
  <2>3. CASE \E t \in Nat : x = Complete(t)
    BY <2>3, <1>1
  <2>. QED
    BY <1>4, <2>1, <2>2, <2>3
<1>. QED
  BY <1>2, <1>3, <1>5

\* jdbc is the last row, and an appended row is the last.
LEMMA LastRow ==
  ASSUME Typed
  PROVE  /\ Len(history) \in Nat \ {0} /\ DOMAIN history = 1..Len(history)
         /\ jdbc = history[Len(history)].state
         /\ \A n \in DOMAIN history : /\ history[n].time \in Nat
                                      /\ history[n].state \in [Request -> Receipt]
         /\ jdbc \in [Request -> Receipt]
<1>1. Len(history) \in Nat \ {0} /\ DOMAIN history = 1..Len(history)
  BY DEF Typed
<1>2. \A n \in DOMAIN history : history[n] \in Rows
  BY <1>1, ElementOfSeq DEF Typed
<1>3. jdbc = history[Len(history)].state
  BY DEF jdbc, Last
<1>. QED
  BY <1>1, <1>2, <1>3 DEF Rows

LEMMA PersistAppends ==
  ASSUME Typed, NEW new \in [Request -> Receipt], Persist(new)
  PROVE  /\ history' \in Seq(Rows)
         /\ history' # <<>>
         /\ DOMAIN history' = 1..(Len(history) + 1)
         /\ \A n \in DOMAIN history : history'[n] = history[n]
         /\ history'[Len(history) + 1].time = now
         /\ history'[Len(history) + 1].state = new
         /\ jdbc' = new
<1>1. Row(now, new) \in Rows
  BY DEF Row, Rows, Typed
<1>2. history' = Append(history, Row(now, new))
  BY DEF Persist
<1>3. /\ history' \in Seq(Rows)
      /\ Len(history') = Len(history) + 1 /\ Len(history) \in Nat
      /\ \A n \in 1..Len(history) : history'[n] = history[n]
      /\ history'[Len(history) + 1] = Row(now, new)
  BY <1>1, <1>2 DEF Typed
<1>4. DOMAIN history' = 1..(Len(history) + 1) /\ history' # <<>>
  BY <1>3
<1>5. jdbc' = history'[Len(history) + 1].state
  BY <1>3 DEF jdbc, Last
<1>6. Row(now, new).time = now /\ Row(now, new).state = new
  BY DEF Row
<1>. QED
  BY <1>3, <1>4, <1>5, <1>6, LastRow

LEMMA InitOwner == Init => OwnerInv
<1>. SUFFICES ASSUME Init PROVE OwnerInv
  OBVIOUS
<1>1. item \in [Request -> Receipt] /\ \A r \in Request : item[r] = Absent
  BY ReceiptKinds DEF Init
<1>a. Row(0, item) \in Rows
  BY <1>1 DEF Row, Rows
<1>2. /\ history \in Seq(Rows)
      /\ Len(history) = 1 /\ history # <<>>
      /\ history[1].state = item /\ history[1].time = 0
  BY <1>a DEF Init, Row
<1>3. Typed
  BY <1>1, <1>2, OwnerAssumption DEF Init, Typed, Never
<1>4. jdbc = item
  BY <1>2, <1>3, LastRow
<1>5. HasNewest(item)
  BY <1>1, OwnerAssumption DEF HasNewest, Absent, Never
<1>6. CompletionsStay /\ ItemFollows /\ OneUncertain
  BY <1>1, <1>2, <1>4, ReceiptKinds, LastRow, <1>3 DEF CompletionsStay, ItemFollows, OneUncertain
<1>7. Pulsed /\ StartsAreSpaced
  BY <1>1, ReceiptKinds DEF Init, Pulsed, StartsAreSpaced
<1>8. RunsHold
  BY OwnerAssumption DEF Init, RunsHold, Holds, Ended, Owning
<1>. QED
  BY <1>3, <1>4, <1>5, <1>6, <1>7, <1>8 DEF OwnerInv, Durable

-----------------------------------------------------------------------------
\* Steps that leave the receipts and the pulses alone.
LEMMA DurableStays ==
  ASSUME OwnerInv, UNCHANGED <<item, history, pulses, startedAt>>, now' \in Nat, now <= now'
  PROVE  Durable'
<1>1. jdbc' = jdbc
  BY DEF jdbc
<1>2. Pulsed'
  <2>. SUFFICES ASSUME NEW r \in Request
                PROVE  /\ startedAt[r] <= now'
                       /\ IsComplete(item[r]) => item[r].updatedAt <= now'
    BY <1>1 DEF OwnerInv, Durable, Pulsed
  <2>1. startedAt[r] <= now /\ (IsComplete(item[r]) => item[r].updatedAt <= now)
    BY DEF OwnerInv, Durable, Pulsed
  <2>2. startedAt[r] \in Int /\ now \in Int /\ item[r].updatedAt \in Int
    BY ReceiptKinds DEF OwnerInv, Typed
  <2>. QED
    BY <2>1, <2>2
<1>. QED
  BY <1>1, <1>2 DEF OwnerInv, Durable, HasNewest, CompletionsStay, ItemFollows, OneUncertain,
                    StartsAreSpaced, IsComplete

LEMMA OwningStays ==
  ASSUME OwnerInv, UNCHANGED <<item, history, pulses, startedAt>>, now' \in Nat, now <= now',
         NEW work, Owning(work)
  PROVE  Owning(work)'
<1>1. jdbc' = jdbc
  BY DEF jdbc
<1>2. ASSUME Rested PROVE Rested'
  <2>. SUFFICES ASSUME NEW q \in Request, pulses[q] = 1 PROVE startedAt[q] + Cooldown <= now'
    BY DEF Rested
  <2>1. startedAt[q] + Cooldown <= now
    BY <1>2 DEF Rested
  <2>. QED
    BY <2>1, OwnerAssumption DEF OwnerInv, Typed
<1>3. ASSUME work.at \in Nat, work.at <= now PROVE work.at <= now'
  BY <1>3 DEF OwnerInv, Typed
<1>. QED
  BY <1>1, <1>2, <1>3 DEF Owning

\* Only one execution can have the token: another than i, while it is i's or
\* nobody's, has ended or is a timer that only switches off.
LEMMA OthersKeep ==
  ASSUME OwnerInv, NEW i \in Run, NEW next,
         guard \in {i, "free", "held"}, guard' \in {i, "free", "held"},
         Become(i, next), Holds(i, next)'
  PROVE  RunsHold'
<1>. SUFFICES ASSUME NEW j \in Run PROVE Holds(j, run[j])'
  BY DEF RunsHold
<1>1. CASE j = i
  BY <1>1 DEF Become, OwnerInv, Typed
<1>2. CASE j # i
  <2>1. run'[j] = run[j]
    BY <1>2 DEF Become, OwnerInv, Typed
  <2>2. guard # j /\ guard' # j
    BY <1>2, OwnerAssumption
  <2>3. run[j].pc \in {"ended", "timer"} /\ (run[j].pc # "ended" => run[j].id \in Request)
    BY <2>2 DEF OwnerInv, RunsHold, Holds
  <2>. QED
    BY <2>1, <2>2, <2>3 DEF Holds
<1>. QED
  BY <1>1, <1>2

\* A step that ends i and takes the token from it.
LEMMA Leaves ==
  ASSUME OwnerInv, NEW i \in Run, guard = i, Become(i, Ended), guard' \in {"free", "held"}
  PROVE  RunsHold'
<1>1. Holds(i, Ended)'
  BY OwnerAssumption DEF Holds, Ended
<1>. QED
  BY <1>1, OthersKeep

-----------------------------------------------------------------------------
(***************************************************************************)
(* The two writes of a request that owns the feeder: what it writes is one *)
(* receipt ahead of an item that JDBC holds.  Whichever part of the write  *)
(* took place, the receipts are sound.                                     *)
(***************************************************************************)
Accepts(r, x) ==
  /\ item[r] = Absent /\ x = Accepted
  /\ \A q \in Request : item[q] # Accepted

Completes(r, x) ==
  /\ item[r] = Accepted /\ pulses[r] = 1
  /\ x \in {Complete(t) : t \in startedAt[r]..now}

LEMMA NewestOfNew ==
  ASSUME Typed, HasNewest(item), NEW r \in Request, NEW x \in Receipt,
         item[r].updatedAt = Never
  PROVE  HasNewest([item EXCEPT ![r] = x])
<1>. DEFINE new == [item EXCEPT ![r] = x]
<1>1. /\ new[r] = x /\ \A q \in Request : q # r => new[q] = item[q]
      /\ \A q \in Request : item[q].updatedAt \in Int /\ Never <= item[q].updatedAt
      /\ x.updatedAt \in Int /\ Never <= x.updatedAt
  BY ReceiptKinds DEF Typed
<1>2. PICK m \in Request : \A q \in Request : item[q].updatedAt <= item[m].updatedAt
  BY DEF HasNewest
<1>3. CASE item[m].updatedAt <= x.updatedAt
  <2>1. \A q \in Request : new[q].updatedAt <= new[r].updatedAt
    BY <1>1, <1>2, <1>3
  <2>. QED
    BY <2>1 DEF HasNewest
<1>4. CASE x.updatedAt < item[m].updatedAt
  <2>1. m # r
    BY <1>1, <1>4
  <2>2. \A q \in Request : new[q].updatedAt <= new[m].updatedAt
    BY <1>1, <1>2, <1>4, <2>1
  <2>. QED
    BY <2>2 DEF HasNewest
<1>. QED
  BY <1>1, <1>3, <1>4

LEMMA WritesKeep ==
  ASSUME OwnerInv, item = jdbc, NEW r \in Request, NEW x \in Receipt,
         Accepts(r, x) \/ Completes(r, x),
         NEW new, new = [item EXCEPT ![r] = x],
         HalfWritten(new), UNCHANGED <<pulses, startedAt, now, lastStart>>, NEW i \in Run,
         NEW next, Become(i, next)
  PROVE  Typed' /\ Durable'
<1>. USE DEF OwnerInv, Durable
<1>1. new \in [Request -> Receipt] /\ new[r] = x /\ \A q \in Request : q # r => new[q] = item[q]
  BY DEF Typed
<1>2. item[r].updatedAt = Never /\ ~IsComplete(item[r])
  BY ReceiptKinds DEF Accepts, Completes
<1>3. HasNewest(new)
  BY <1>2, NewestOfNew
<1>4. Len(history) \in Nat \ {0} /\ DOMAIN history = 1..Len(history)
      /\ jdbc = history[Len(history)].state
  BY LastRow
<1>5. ASSUME UNCHANGED <<item, history>> PROVE Typed' /\ Durable'
  <2>1. Typed'
    BY <1>5 DEF Typed, Become
  <2>. QED
    BY <1>5, <2>1, DurableStays DEF Typed
\* The receipts of the new item are backed by pulses.
<1>6. \A q \in Request :
        /\ startedAt[q] <= now
        /\ IsComplete(new[q]) =>
             pulses[q] = 1 /\ startedAt[q] <= new[q].updatedAt /\ new[q].updatedAt <= now
  <2>. SUFFICES ASSUME NEW q \in Request
                PROVE  /\ startedAt[q] <= now
                       /\ IsComplete(new[q]) =>
                            /\ pulses[q] = 1
                            /\ startedAt[q] <= new[q].updatedAt /\ new[q].updatedAt <= now
    OBVIOUS
  <2>1. CASE q # r
    BY <2>1, <1>1 DEF Pulsed
  <2>2. CASE q = r /\ Accepts(r, x)
    BY <2>2, <1>1, ReceiptKinds DEF Pulsed, Accepts
  <2>3. CASE q = r /\ Completes(r, x)
    <3>1. PICK t \in startedAt[r]..now : x = Complete(t)
      BY <2>3 DEF Completes
    <3>2. t \in Nat /\ startedAt[r] <= t /\ t <= now
      BY DEF Typed
    <3>. QED
      BY <2>3, <3>1, <3>2, <1>1, ReceiptKinds DEF Completes, Pulsed
  <2>. QED
    BY <2>1, <2>2, <2>3
<1>7. (Accepts(r, x) /\ x = Accepted) \/ (Completes(r, x) /\ IsComplete(x))
  BY DEF Accepts, Completes, Complete, IsComplete
<1>8. ASSUME item' = new, UNCHANGED history PROVE Typed' /\ Durable'
  <2>1. jdbc' = jdbc
    BY <1>8 DEF jdbc
  <2>2. Typed'
    BY <1>8, <1>1 DEF Typed, Become
  <2>3. HasNewest(item)' /\ HasNewest(jdbc)' /\ CompletionsStay' /\ OneUncertain'
    BY <1>8, <1>3, <2>1 DEF HasNewest, CompletionsStay, OneUncertain, IsComplete
  <2>4. ItemFollows'
    <3>1. item'[r] = x /\ \A q \in Request : q # r => item'[q] = jdbc'[q]
      BY <1>8, <2>1, <1>1
    <3>2. (jdbc'[r] = Absent /\ x = Accepted) \/ (jdbc'[r] = Accepted /\ IsComplete(x))
      BY <2>1, <1>7 DEF Accepts, Completes
    <3>. QED
      BY <3>1, <3>2 DEF ItemFollows, IsComplete
  <2>5. Pulsed' /\ StartsAreSpaced'
    BY <1>8, <1>6, <2>1 DEF Pulsed, StartsAreSpaced, IsComplete
  <2>. QED
    BY <2>2, <2>3, <2>4, <2>5
<1>9. ASSUME Written(new) PROVE Typed' /\ Durable'
  <2>1. /\ history' \in Seq(Rows) /\ history' # <<>>
        /\ DOMAIN history' = 1..(Len(history) + 1)
        /\ \A n \in DOMAIN history : history'[n] = history[n]
        /\ history'[Len(history) + 1].time = now
        /\ history'[Len(history) + 1].state = new
        /\ jdbc' = new
    BY <1>9, <1>1, PersistAppends DEF Written
  <2>2. item' = new
    BY <1>9 DEF Written
  <2>3. Typed'
    BY <2>1, <2>2, <1>1 DEF Typed, Become
  <2>4. HasNewest(item)' /\ HasNewest(jdbc)' /\ ItemFollows'
    BY <2>1, <2>2, <1>3 DEF HasNewest, ItemFollows
  <2>5. CompletionsStay'
    <3>. SUFFICES ASSUME NEW m \in DOMAIN history', NEW n \in DOMAIN history', m <= n,
                         NEW q \in Request, IsComplete(history'[m].state[q])
                  PROVE  /\ history'[n].state[q] = history'[m].state[q]
                         /\ history'[m].state[q].updatedAt <= history'[m].time
      BY DEF CompletionsStay, IsComplete
    <3>1. CASE n \in DOMAIN history
      BY <3>1, <2>1, <1>4 DEF CompletionsStay
    <3>2. CASE n = Len(history) + 1 /\ m = n
      BY <3>2, <2>1, <1>6
    <3>3. CASE n = Len(history) + 1 /\ m # n
      <4>1. m \in DOMAIN history /\ m <= Len(history) /\ Len(history) \in DOMAIN history
        BY <3>3, <2>1, <1>4
      <4>2. /\ item[q] = history[m].state[q]
            /\ history[m].state[q].updatedAt <= history[m].time
        BY <4>1, <2>1, <1>4 DEF CompletionsStay
      <4>3. q # r
        BY <4>1, <4>2, <2>1, <1>2
      <4>. QED
        BY <3>3, <4>1, <4>2, <4>3, <2>1, <1>1
    <3>. QED
      BY <3>1, <3>2, <3>3, <2>1, <1>4
  <2>6. OneUncertain'
    <3>1. CASE Accepts(r, x)
      BY <3>1, <2>1, <1>1 DEF OneUncertain, Accepts
    <3>2. CASE Completes(r, x)
      BY <3>2, <1>7, <2>1, <1>1, ReceiptKinds DEF OneUncertain, Completes
    <3>. QED
      BY <3>1, <3>2
  <2>7. Pulsed'
    <3>1. \A q \in Request : pulses[q] = 1 => new[q] # Absent
      BY <1>1, <1>7, ReceiptKinds DEF Pulsed
    <3>. QED
      BY <3>1, <1>6, <2>1, <2>2 DEF Pulsed, IsComplete
  <2>8. StartsAreSpaced'
    BY DEF StartsAreSpaced
  <2>. QED
    BY <2>3, <2>4, <2>5, <2>6, <2>7, <2>8
<1>. QED
  BY <1>5, <1>8, <1>9 DEF HalfWritten

-----------------------------------------------------------------------------
\* A step that changes neither the receipts nor the token, or takes the token
\* while every execution is at rest.
LEMMA RunsStay ==
  ASSUME OwnerInv, UNCHANGED <<item, history, pulses, startedAt, run>>,
         now' \in Nat, now <= now',
         \/ guard' = guard
         \/ guard' = "free" /\ \A i \in Run : run[i].pc \in {"ended", "timer"}
  PROVE  RunsHold'
<1>. SUFFICES ASSUME NEW i \in Run PROVE Holds(i, run[i])'
  BY DEF RunsHold
<1>1. Holds(i, run[i])
  BY DEF OwnerInv, RunsHold
<1>2. guard' = i => Owning(run[i])
  BY <1>1, OwnerAssumption DEF Holds
<1>3. ASSUME NEW work, work = run[i] PROVE Owning(work) => Owning(work)'
  BY OwningStays
<1>4. guard' = i => Owning(run[i])'
  BY <1>2, <1>3
<1>. QED
  BY <1>1, <1>4 DEF Holds

LEMMA LastStartBounds ==
  ASSUME Typed, HasNewest(item), NEW q \in Request
  PROVE  LastStart \in Int /\ item[q].updatedAt <= LastStart
<1>. DEFINE S == {lastStart} \cup {item[r].updatedAt : r \in Request}
<1>1. S \subseteq Int
  BY ReceiptKinds DEF Typed
<1>2. PICK m \in Request : \A r \in Request : item[r].updatedAt <= item[m].updatedAt
  BY DEF HasNewest
<1>3. \E x \in S : \A y \in S : x >= y
  <2>1. PICK top \in S : \A y \in S : y = lastStart \/ y <= top
    BY <1>2
  <2>2. lastStart \in S
    OBVIOUS
  <2>. HIDE DEF S
  <2>3. CASE lastStart >= top
    <3>1. \A y \in S : lastStart >= y
      BY <1>1, <2>1, <2>2, <2>3
    <3>. QED
      BY <2>2, <3>1
  <2>4. CASE lastStart < top
    <3>1. \A y \in S : top >= y
      BY <1>1, <2>1, <2>2, <2>4
    <3>. QED
      BY <3>1
  <2>. QED
    BY <1>1, <2>2, <2>3, <2>4
<1>4. Max(S) \in S /\ \A y \in S : Max(S) >= y
  BY <1>3 DEF Max
<1>. QED
  BY <1>1, <1>4 DEF LastStart

LEMMA TriggerKeeps ==
  ASSUME OwnerInv, NEW i \in Run, NEW r \in Request, Trigger(i, r)
  PROVE  OwnerInv'
<1>. UNCHANGED <<item, history, pulses, startedAt, lastStart, now>> /\ now \in Nat
  BY DEF Trigger, receipts, feeder, OwnerInv, Typed
<1>1. Typed'
  BY DEF OwnerInv, Typed, Trigger, Become
<1>2. Durable'
  BY DurableStays
<1>3. RunsHold'
  <2>1. CASE guard = "free" /\ guard' = i /\ Become(i, At("admit", r))
    <3>1. Holds(i, At("admit", r))'
      BY <2>1 DEF Holds, At, Owning
    <3>. QED
      BY <2>1, <3>1, OthersKeep
  <2>2. CASE UNCHANGED <<guard, run>>
    BY <2>2, RunsStay
  <2>. QED
    BY <2>1, <2>2 DEF Trigger
<1>. QED
  BY <1>1, <1>2, <1>3 DEF OwnerInv

LEMMA AdmitKeeps ==
  ASSUME OwnerInv, NEW i \in Run, Admit(i)
  PROVE  OwnerInv'
<1>. UNCHANGED <<item, history, pulses, startedAt, lastStart, now>> /\ now \in Nat
  BY DEF Admit, receipts, feeder, OwnerInv, Typed
<1>. PICK r \in Request : r = run[i].id
  BY DEF Admit, Is, OwnerInv, RunsHold, Holds
<1>1. Typed'
  BY DEF OwnerInv, Typed, Admit, Become, End
<1>2. Durable'
  BY DurableStays
<1>3. guard = i
  BY DEF Admit, Is, OwnerInv, RunsHold, Holds
<1>4. ASSUME NEW s, End(i, r, s) PROVE RunsHold'
  BY <1>3, <1>4, Leaves DEF End, ReleaseBusy
<1>5. ASSUME Admissible, r \notin Known, Become(i, At("accept", r)), UNCHANGED guard
      PROVE  RunsHold'
  <2>1. item = jdbc /\ item[r] = Absent
    BY <1>3, <1>5, ReceiptKinds DEF Admissible, Trusted, Known, OwnerInv, Typed
  <2>2. \A q \in Request : item[q] # Accepted
    BY <1>5, ReceiptKinds DEF Admissible, Known, OwnerInv, Typed, Accepted
  <2>3. Rested
    <3>. SUFFICES ASSUME NEW q \in Request, pulses[q] = 1 PROVE startedAt[q] + Cooldown <= now
      BY DEF Rested
    <3>1. IsComplete(item[q])
      BY <2>1, <2>2, ReceiptKinds DEF OwnerInv, Durable, Pulsed, Typed
    <3>2. startedAt[q] <= item[q].updatedAt /\ item[q].updatedAt \in Int
      BY <3>1, ReceiptKinds DEF OwnerInv, Durable, Pulsed, Typed
    <3>3. item[q].updatedAt <= LastStart /\ LastStart \in Int
      BY LastStartBounds DEF OwnerInv, Durable
    <3>4. now - LastStart >= Cooldown
      BY <1>5 DEF Admissible
    <3>. QED
      BY <3>2, <3>3, <3>4, OwnerAssumption DEF OwnerInv, Typed
  <2>4. Owning(At("accept", r))
    BY <2>1, <2>2, <2>3 DEF Owning, At
  <2>5. Owning(At("accept", r))'
    BY <2>4, OwningStays
  <2>6. Holds(i, At("accept", r))'
    BY <1>3, <1>5, <2>5 DEF Holds, At
  <2>. QED
    BY <1>3, <1>5, <2>6, OthersKeep
<1>6. RunsHold'
  BY <1>4, <1>5 DEF Admit
<1>. QED
  BY <1>1, <1>2, <1>6 DEF OwnerInv

LEMMA WriteAcceptedKeeps ==
  ASSUME OwnerInv, NEW i \in Run, WriteAccepted(i)
  PROVE  OwnerInv'
<1>. UNCHANGED <<pulses, startedAt, lastStart, now>>
  BY DEF WriteAccepted, feeder
<1>1. PICK r \in Request : r = run[i].id
  BY DEF WriteAccepted, Is, OwnerInv, RunsHold, Holds
<1>2. guard = i /\ item = jdbc /\ Accepts(r, Accepted) /\ Rested
  BY <1>1 DEF WriteAccepted, Is, OwnerInv, RunsHold, Holds, Owning, Accepts
<1>3. PICK new \in [Request -> Receipt] : new = [item EXCEPT ![r] = Accepted]
  BY ReceiptKinds DEF OwnerInv, Typed
<1>4. \/ Written(new) /\ Become(i, At("on", r)) /\ UNCHANGED guard
      \/ HalfWritten(new) /\ GiveUp(i, r, "failed")
  BY <1>1, <1>3 DEF WriteAccepted
<1>5. PICK next : HalfWritten(new) /\ Become(i, next)
  BY <1>4 DEF HalfWritten, GiveUp
<1>6. Typed' /\ Durable'
  BY <1>2, <1>3, <1>5, WritesKeep, ReceiptKinds
<1>7. CASE Written(new) /\ Become(i, At("on", r)) /\ UNCHANGED guard
  <2>1. jdbc' = new /\ item' = new
    BY <1>7, PersistAppends DEF Written, OwnerInv
  <2>2. new[r] = Accepted
    BY <1>3 DEF OwnerInv, Typed
  <2>3. pulses[r] = 0
    BY <1>2 DEF Accepts, OwnerInv, Durable, Pulsed, Typed
  <2>4. Rested'
    BY <1>2 DEF Rested
  <2>5. Owning(At("on", r))'
    BY <2>1, <2>2, <2>3, <2>4 DEF Owning, At
  <2>6. Holds(i, At("on", r))'
    BY <1>2, <1>7, <2>5 DEF Holds, At
  <2>. QED
    BY <1>2, <1>6, <1>7, <2>6, OthersKeep DEF OwnerInv
<1>8. CASE HalfWritten(new) /\ GiveUp(i, r, "failed")
  BY <1>2, <1>6, <1>8, Leaves DEF GiveUp, OwnerInv
<1>. QED
  BY <1>4, <1>7, <1>8

LEMMA WriteCompleteKeeps ==
  ASSUME OwnerInv, NEW i \in Run, WriteComplete(i)
  PROVE  OwnerInv'
<1>. UNCHANGED <<pulses, startedAt, lastStart, now>>
  BY DEF WriteComplete, feeder
<1>1. PICK r \in Request : r = run[i].id
  BY DEF WriteComplete, Is, OwnerInv, RunsHold, Holds
<1>2. /\ guard = i /\ item = jdbc /\ item[r] = Accepted /\ pulses[r] = 1
      /\ run[i].at \in Nat /\ startedAt[r] <= run[i].at /\ run[i].at <= now
  BY <1>1 DEF WriteComplete, Is, OwnerInv, RunsHold, Holds, Owning
<1>3. PICK x \in Receipt : x = Complete(run[i].at)
  BY <1>2, ReceiptKinds
<1>4. Completes(r, x)
  <2>1. run[i].at \in startedAt[r]..now
    BY <1>2 DEF OwnerInv, Typed
  <2>. QED
    BY <1>2, <1>3, <2>1 DEF Completes
<1>5. PICK new : new = [item EXCEPT ![r] = x]
  OBVIOUS
<1>6. \/ Written(new) /\ End(i, r, "complete")
      \/ HalfWritten(new) /\ GiveUp(i, r, "failed")
  BY <1>1, <1>3, <1>5 DEF WriteComplete
<1>7. HalfWritten(new) /\ Become(i, Ended) /\ guard' \in {"free", "held"}
  BY <1>2, <1>6 DEF HalfWritten, GiveUp, End, ReleaseBusy
<1>8. Typed' /\ Durable'
  BY <1>2, <1>4, <1>5, <1>7, WritesKeep
<1>. QED
  BY <1>2, <1>7, <1>8, Leaves DEF OwnerInv

\* The pulse begins, and may end at once because no timer can be made.
LEMMA PulseBegins ==
  ASSUME OwnerInv, NEW r \in Request, item = jdbc, item[r] = Accepted, pulses[r] = 0, Rested,
         UNCHANGED <<item, history, now>>,
         pulses' = [pulses EXCEPT ![r] = @ + 1], startedAt' = [startedAt EXCEPT ![r] = now]
  PROVE  Durable' /\ pulses' \in [Request -> {0, 1}] /\ startedAt' \in [Request -> Nat]
<1>. USE DEF OwnerInv, Durable
<1>1. /\ pulses'[r] = 1 /\ startedAt'[r] = now
      /\ \A q \in Request : q # r => pulses'[q] = pulses[q] /\ startedAt'[q] = startedAt[q]
  BY DEF Typed
<1>2. pulses' \in [Request -> {0, 1}] /\ startedAt' \in [Request -> Nat]
  BY DEF Typed
<1>3. jdbc' = jdbc
  BY DEF jdbc
<1>4. Pulsed'
  <2>1. ~IsComplete(item[r]) /\ jdbc[r] # Absent
    BY ReceiptKinds
  <2>. QED
    BY <1>1, <1>3, <2>1 DEF Pulsed, Typed, IsComplete
<1>5. StartsAreSpaced'
  <2>. SUFFICES ASSUME NEW p \in Request, NEW q \in Request, p # q,
                       pulses'[p] > 0, pulses'[q] > 0, startedAt'[p] <= startedAt'[q]
                PROVE  startedAt'[q] - startedAt'[p] >= Cooldown
    BY DEF StartsAreSpaced
  <2>0. /\ startedAt[p] \in Nat /\ startedAt[q] \in Nat /\ now \in Nat
        /\ pulses[p] \in {0, 1} /\ pulses[q] \in {0, 1}
    BY DEF Typed
  <2>1. CASE q = r
    <3>1. pulses[p] = 1 /\ startedAt'[p] = startedAt[p]
      BY <1>1, <2>0, <2>1
    <3>2. startedAt[p] + Cooldown <= now
      BY <3>1 DEF Rested
    <3>. QED
      BY <1>1, <2>0, <2>1, <3>1, <3>2, OwnerAssumption
  <2>2. CASE p = r
    <3>1. pulses[q] = 1 /\ startedAt'[q] = startedAt[q]
      BY <1>1, <2>0, <2>2
    <3>2. startedAt[q] + Cooldown <= now
      BY <3>1 DEF Rested
    <3>. QED
      BY <1>1, <2>0, <2>2, <3>1, <3>2, OwnerAssumption
  <2>3. CASE p # r /\ q # r
    BY <1>1, <2>3 DEF StartsAreSpaced
  <2>. QED
    BY <2>1, <2>2, <2>3
<1>6. HasNewest(item)' /\ HasNewest(jdbc)' /\ CompletionsStay' /\ ItemFollows' /\ OneUncertain'
  BY <1>3 DEF HasNewest, CompletionsStay, ItemFollows, OneUncertain, IsComplete
<1>. QED
  BY <1>2, <1>4, <1>5, <1>6

LEMMA TurnOnKeeps ==
  ASSUME OwnerInv, NEW i \in Run, TurnOn(i)
  PROVE  OwnerInv'
<1>. UNCHANGED <<item, history, now>> /\ now \in Nat
  BY DEF TurnOn, receipts, OwnerInv, Typed
<1>1. PICK r \in Request : r = run[i].id
  BY DEF TurnOn, Is, OwnerInv, RunsHold, Holds
<1>2. guard = i /\ item = jdbc /\ item[r] = Accepted /\ pulses[r] = 0 /\ Rested
  BY <1>1 DEF TurnOn, Is, OwnerInv, RunsHold, Holds, Owning
<1>3. CASE GiveUp(i, r, "failed") /\ UNCHANGED <<lastStart, pulses, startedAt>>
  <2>1. Typed' /\ RunsHold'
    BY <1>2, <1>3, Leaves DEF GiveUp, OwnerInv, Typed, Become
  <2>. QED
    BY <1>3, <2>1, DurableStays DEF OwnerInv
<1>4. CASE /\ lastStart' = now
           /\ pulses' = [pulses EXCEPT ![r] = @ + 1]
           /\ startedAt' = [startedAt EXCEPT ![r] = now]
           /\ \/ Become(i, At("timer", r)) /\ UNCHANGED guard
              \/ GiveUp(i, r, "failed")
  <2>1. Durable' /\ pulses' \in [Request -> {0, 1}] /\ startedAt' \in [Request -> Nat]
    BY <1>2, <1>4, PulseBegins
  <2>2. Typed'
    BY <1>4, <2>1 DEF OwnerInv, Typed, Become, GiveUp
  <2>3. CASE Become(i, At("timer", r)) /\ UNCHANGED guard
    <3>1. pulses'[r] = 1 /\ jdbc' = jdbc
      BY <1>2, <1>4 DEF OwnerInv, Typed, jdbc
    <3>2. Owning(At("timer", r))'
      BY <1>2, <3>1 DEF Owning, At
    <3>3. Holds(i, At("timer", r))'
      BY <1>2, <3>2 DEF Holds, At
    <3>. QED
      BY <1>2, <2>1, <2>2, <2>3, <3>3, OthersKeep DEF OwnerInv
  <2>4. CASE GiveUp(i, r, "failed")
    BY <1>2, <2>1, <2>2, <2>4, Leaves DEF OwnerInv, GiveUp
  <2>. QED
    BY <1>4, <2>3, <2>4
<1>. QED
  BY <1>1, <1>3, <1>4 DEF TurnOn

LEMMA TimerFiresKeeps ==
  ASSUME OwnerInv, NEW i \in Run, TimerFires(i)
  PROVE  OwnerInv'
<1>. UNCHANGED <<item, history, pulses, startedAt, lastStart, now>> /\ now \in Nat
  BY DEF TimerFires, receipts, OwnerInv, Typed
<1>1. PICK r \in Request : r = run[i].id
  BY DEF TimerFires, Is, OwnerInv, RunsHold, Holds
<1>2. Typed'
  BY DEF TimerFires, Become, GiveUp, OwnerInv, Typed
<1>3. Durable'
  BY DurableStays
<1>4. CASE guard # i /\ Become(i, Ended) /\ UNCHANGED guard
  <2>. SUFFICES ASSUME NEW j \in Run, NEW work, work = run'[j] PROVE Holds(j, work)'
    BY <1>2, <1>3 DEF OwnerInv, RunsHold
  <2>1. CASE j = i
    <3>1. work = Ended
      BY <2>1, <1>4 DEF Become, OwnerInv, Typed
    <3>. QED
      BY <1>4, <2>1, <3>1 DEF Holds, Ended
  <2>2. CASE j # i
    <3>1. work = run[j]
      BY <2>2, <1>4 DEF Become, OwnerInv, Typed
    <3>2. Holds(j, work)
      BY <3>1 DEF OwnerInv, RunsHold
    <3>3. Owning(work) => Owning(work)'
      BY OwningStays
    <3>. QED
      BY <1>4, <3>2, <3>3 DEF Holds
  <2>. QED
    BY <2>1, <2>2
<1>5. CASE guard = i /\ Become(i, Finish(r, now)) /\ UNCHANGED guard
  <2>1. item = jdbc /\ item[r] = Accepted /\ pulses[r] = 1 /\ startedAt[r] <= now
    BY <1>1, <1>5 DEF TimerFires, Is, OwnerInv, RunsHold, Holds, Owning, Durable, Pulsed
  <2>2. jdbc' = jdbc
    BY DEF jdbc
  <2>3. ASSUME NEW next, next = Finish(r, now) PROVE Holds(i, next)'
    BY <1>5, <2>1, <2>2, <2>3 DEF Holds, Owning, Finish, OwnerInv, Typed
  <2>4. RunsHold'
    BY <1>5, <2>3, OthersKeep
  <2>. QED
    BY <1>2, <1>3, <2>4 DEF OwnerInv
<1>6. CASE guard = i /\ GiveUp(i, r, "failed")
  BY <1>2, <1>3, <1>6, Leaves DEF GiveUp, OwnerInv
<1>. QED
  BY <1>1, <1>4, <1>5, <1>6 DEF TimerFires

\* What the item lost in a restart, JDBC never had.
LEMMA RestartKeeps ==
  ASSUME OwnerInv, Restart
  PROVE  OwnerInv'
<1>. UNCHANGED <<history, pulses, startedAt, now>>
  BY DEF Restart, feeder
<1>1. jdbc' = jdbc /\ item' = jdbc
  BY DEF Restart, jdbc
<1>2. lastStart' \in Int
  BY OwnerAssumption DEF Restart, Forget, Never
<1>3. Typed'
  BY <1>1, <1>2, LastRow DEF OwnerInv, Typed, Restart
<1>4. \A r \in Request : IsComplete(jdbc[r]) => item[r] = jdbc[r]
  BY ReceiptKinds DEF OwnerInv, Durable, ItemFollows
<1>5. Pulsed'
  BY <1>1, <1>4 DEF OwnerInv, Durable, Pulsed, IsComplete
<1>6. Durable'
  BY <1>1, <1>5 DEF OwnerInv, Durable, HasNewest, CompletionsStay, ItemFollows, OneUncertain,
                    StartsAreSpaced, IsComplete
<1>7. RunsHold'
  BY OwnerAssumption DEF Restart, Forget, RunsHold, Holds, Ended
<1>. QED
  BY <1>3, <1>6, <1>7 DEF OwnerInv

LEMMA ReloadKeeps ==
  ASSUME OwnerInv, Reload
  PROVE  OwnerInv'
<1>. UNCHANGED <<item, history, pulses, startedAt, run, now>> /\ now \in Nat
  BY DEF Reload, receipts, feeder, OwnerInv, Typed
<1>1. lastStart' \in Int /\ guard' = "free" /\ \A i \in Run : run[i].pc \in {"ended", "timer"}
  BY OwnerAssumption DEF Reload, Forget, Never, Is
<1>2. Typed'
  BY <1>1 DEF OwnerInv, Typed
<1>. QED
  BY <1>1, <1>2, DurableStays, RunsStay DEF OwnerInv

LEMMA TimePasses ==
  ASSUME OwnerInv, UNCHANGED <<receipts, guard, lastStart, run, pulses, startedAt>>,
         now' \in {now, now + 1}
  PROVE  OwnerInv'
<1>. UNCHANGED <<item, history>> /\ now' \in Nat /\ now <= now'
  BY DEF receipts, OwnerInv, Typed
<1>1. Typed'
  BY DEF OwnerInv, Typed
<1>. QED
  BY <1>1, DurableStays, RunsStay DEF OwnerInv

LEMMA NextOwner == OwnerInv /\ [Next]_vars => OwnerInv'
<1>. SUFFICES ASSUME OwnerInv, [Next]_vars PROVE OwnerInv'
  OBVIOUS
<1>1. ASSUME NEW i \in Run, NEW r \in Request, Trigger(i, r) PROVE OwnerInv'
  BY <1>1, TriggerKeeps
<1>2. ASSUME NEW i \in Run, Admit(i) \/ WriteAccepted(i) \/ TurnOn(i) PROVE OwnerInv'
  BY <1>2, AdmitKeeps, WriteAcceptedKeeps, TurnOnKeeps
<1>3. ASSUME NEW i \in Run, TimerFires(i) \/ WriteComplete(i) PROVE OwnerInv'
  BY <1>3, TimerFiresKeeps, WriteCompleteKeeps
<1>4. ASSUME Expire \/ Tick \/ UNCHANGED vars PROVE OwnerInv'
  BY <1>4, TimePasses DEF Expire, Tick, vars, feeder
<1>5. ASSUME Restart \/ Reload PROVE OwnerInv'
  BY <1>5, RestartKeeps, ReloadKeeps
<1>. QED
  BY <1>1, <1>2, <1>3, <1>4, <1>5 DEF Next

\* The inductive invariant of the owner: the receipts of JDBC, the item one
\* write ahead of them, and what the execution with the token knows.
THEOREM OwnerInvariant == Spec => []OwnerInv
BY InitOwner, NextOwner, PTL DEF Spec

-----------------------------------------------------------------------------
LEMMA PulsesFromInv == OwnerInv => PulsesAreAccountedFor
<1>. SUFFICES ASSUME OwnerInv PROVE PulsesAreAccountedFor
  OBVIOUS
<1>1. \A r \in Request : pulses[r] \in {0, 1}
  BY DEF OwnerInv, Typed
<1>2. ASSUME NEW r \in Request, pulses[r] > 0, jdbc[r].status # "complete"
      PROVE  jdbc[r] = Accepted
  <2>1. jdbc[r] # Absent /\ jdbc[r] \in Receipt
    BY <1>1, <1>2, LastRow DEF OwnerInv, Durable, Pulsed
  <2>. QED
    BY <1>2, <2>1, ReceiptKinds DEF IsComplete
<1>. QED
  BY <1>1, <1>2 DEF OwnerInv, Durable, OneUncertain, PulsesAreAccountedFor

\* A request is pulsed at most once, whatever restarts, reloads, repeated
\* commands and half-failed writes; and none while another has no receipt.
THEOREM PulsesAccounted == Spec => []PulsesAreAccountedFor
BY OwnerInvariant, PulsesFromInv, PTL

\* Two pulses are a cooldown apart, although the cached start is lost.
THEOREM PulsesSpaced == Spec => []StartsAreSpaced
<1>1. OwnerInv => StartsAreSpaced
  BY DEF OwnerInv, Durable
<1>. QED
  BY <1>1, OwnerInvariant, PTL

\* Each row of JDBC that shows a completion is the item's own.
LEMMA CompletionsAgree ==
  ASSUME OwnerInv, NEW r \in Request, NEW n \in DOMAIN history, IsComplete(history[n].state[r])
  PROVE  /\ jdbc[r] = history[n].state[r] /\ item[r] = jdbc[r]
         /\ history[n].state[r].updatedAt <= history[n].time
         /\ \A m \in DOMAIN history : n < m => IsComplete(history[m].state[r])
<1>1. Len(history) \in DOMAIN history /\ n <= Len(history) /\ jdbc = history[Len(history)].state
  BY LastRow DEF OwnerInv
<1>2. jdbc[r] = history[n].state[r] /\ history[n].state[r].updatedAt <= history[n].time
  BY <1>1 DEF OwnerInv, Durable, CompletionsStay
<1>3. item[r] = jdbc[r]
  BY <1>2, ReceiptKinds DEF OwnerInv, Durable, ItemFollows
<1>4. ASSUME NEW m \in DOMAIN history, n < m PROVE IsComplete(history[m].state[r])
  <2>1. n <= m
    BY <1>4, LastRow DEF OwnerInv
  <2>. QED
    BY <2>1 DEF OwnerInv, Durable, CompletionsStay
<1>. QED
  BY <1>2, <1>3, <1>4

LEMMA CompletionFromInv == OwnerInv => CompletionIsTrue
<1>. SUFFICES ASSUME OwnerInv, NEW r \in Request
              PROVE  /\ FeederResult(r) = "Complete" =>
                          /\ pulses[r] = 1 /\ startedAt[r] <= item[r].updatedAt
                          /\ jdbc[r] = item[r]
                     /\ pulses[r] > 0 => FeederResult(r) \notin {"Absent", "Rejected"}
                     /\ \A n \in DOMAIN history :
                          /\ history[n].state[r].status = "complete"
                          /\ history[n].time <= history[n].state[r].updatedAt + Window
                          => FeederResult(r) = "Complete" \/ ~restored
  BY DEF CompletionIsTrue
<1>. DEFINE rows == RowsAround(item[r].updatedAt)
<1>0. item[r] \in Receipt /\ jdbc[r] \in Receipt
  BY LastRow DEF OwnerInv, Typed
<1>1. /\ item[r] = Absent => item[r].status = "absent"
      /\ item[r] = Accepted => item[r].status = "accepted"
      /\ item[r] = Absent \/ item[r] = Accepted \/ item[r].status = "complete"
  BY <1>0, ReceiptKinds DEF IsComplete
<1>2. ASSUME item[r].status = "complete", restored
      PROVE  FeederResult(r) = IF Contradicted(r, rows) THEN "Error"
                               ELSE IF Certified(r, rows) THEN "Complete" ELSE "Ambiguous"
  BY <1>2 DEF FeederResult
<1>3. FeederResult(r) = "Complete" =>
        /\ pulses[r] = 1 /\ startedAt[r] <= item[r].updatedAt
        /\ jdbc[r] = item[r]
  <2>. SUFFICES ASSUME FeederResult(r) = "Complete"
                PROVE  /\ pulses[r] = 1 /\ startedAt[r] <= item[r].updatedAt
                       /\ jdbc[r] = item[r]
    OBVIOUS
  <2>0. ResultOutcome(r) # "Complete"
    BY DEF ResultOutcome
  <2>1. restored /\ item[r].status = "complete"
    <3>1. restored
      BY DEF FeederResult
    <3>2. item[r] # Absent
      BY <1>1, <2>0, <3>1 DEF FeederResult
    <3>3. item[r] # Accepted
      BY <1>1, <3>1 DEF FeederResult
    <3>. QED
      BY <1>1, <3>1, <3>2, <3>3
  <2>2. Certified(r, rows)
    BY <2>1, <1>2
  <2>3. PICK n \in DOMAIN history : IsComplete(history[n].state[r])
    BY <2>2 DEF Certified, RowsAround, IsComplete
  <2>. QED
    BY <2>1, <2>3, CompletionsAgree DEF OwnerInv, Durable, Pulsed, IsComplete
<1>4. pulses[r] > 0 => FeederResult(r) \notin {"Absent", "Rejected"}
  <2>. SUFFICES ASSUME pulses[r] > 0 PROVE FeederResult(r) \notin {"Absent", "Rejected"}
    OBVIOUS
  <2>1. jdbc[r] # Absent
    BY DEF OwnerInv, Durable, Pulsed, Typed
  <2>2. item[r] # Absent
    BY <2>1, ReceiptKinds DEF OwnerInv, Durable, ItemFollows
  <2>3. CASE item[r] = Accepted
    BY <2>3, <1>1 DEF FeederResult
  <2>4. CASE item[r].status = "complete"
    BY <2>4, <1>2 DEF FeederResult
  <2>. QED
    BY <1>1, <2>2, <2>3, <2>4
<1>5. ASSUME NEW n \in DOMAIN history, restored,
             history[n].state[r].status = "complete",
             history[n].time <= history[n].state[r].updatedAt + Window
      PROVE  FeederResult(r) = "Complete"
  <2>1. /\ IsComplete(history[n].state[r]) /\ item[r] = history[n].state[r]
        /\ item[r].updatedAt <= history[n].time
    BY <1>5, CompletionsAgree DEF IsComplete
  <2>2. n \in rows
    <3>1. history[n].time \in Nat /\ item[r].updatedAt \in Int
      BY <1>0, LastRow, ReceiptKinds DEF OwnerInv
    <3>. QED
      BY <1>5, <2>1, <3>1, OwnerAssumption DEF RowsAround
  <2>3. Certified(r, rows)
    BY <1>5, <2>2 DEF Certified
  <2>4. ~Contradicted(r, rows)
    <3>1. ASSUME NEW m \in rows, IsComplete(history[m].state[r])
          PROVE  history[m].state[r] = item[r] /\ ~(history[m].time < item[r].updatedAt)
      <4>1. m \in DOMAIN history
        BY DEF RowsAround
      <4>2. history[m].time \in Nat /\ item[r].updatedAt \in Int
        BY <1>0, <4>1, LastRow, ReceiptKinds DEF OwnerInv
      <4>. QED
        BY <3>1, <4>1, <4>2, CompletionsAgree
    <3>2. ASSUME NEW l \in rows, NEW m \in rows, l < m, IsComplete(history[l].state[r])
          PROVE  IsComplete(history[m].state[r])
      BY <3>2, CompletionsAgree DEF RowsAround
    <3>. QED
      BY <3>1, <3>2 DEF Contradicted, IsComplete
  <2>. QED
    BY <1>2, <1>5, <2>1, <2>3, <2>4 DEF IsComplete
<1>. QED
  BY <1>3, <1>4, <1>5

\* What the gateway concludes from the item and JDBC's rows is what happened.
THEOREM CompletionTrue == Spec => []CompletionIsTrue
BY OwnerInvariant, CompletionFromInv, PTL
=============================================================================
