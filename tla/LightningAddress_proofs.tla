----------------------- MODULE LightningAddress_proofs ------------------------
(***************************************************************************)
(* The bounds on running requests, on reservations in a window and on      *)
(* requests in a day, for every limit, lease, deadline and number of       *)
(* processes, and what an invoice that is handed out says.  The argument   *)
(* for the first: a running call still has its open reservation, since its *)
(* deadline comes before the reservation's end; and the active             *)
(* reservations are bounded where they are made.  For the second: the row  *)
(* of a reservation is still there while the reservation counts.  For the  *)
(* third: a request that is recorded was running, and counted as such,     *)
(* until then.                                                             *)
(***************************************************************************)
EXTENDS LightningAddress, FiniteSetTheorems, TLAPS

\* A call not made has no reservation, and a running one has its own.
CallsHaveRows ==
  \A i \in Id :
    /\ call[i].pc = "none" => admitted[i] = Never /\ row[i].status = "absent"
    /\ admitted[i] # Never => admitted[i] <= now
    /\ call[i].pc = "issuing" =>
         /\ admitted[i] # Never
         /\ row[i].status = "open"
         /\ row[i].created = admitted[i]
         /\ now <= admitted[i] + Deadline

\* The rows of the current window are all there.
RecentRowsStay ==
  \A i \in Id : admitted[i] # Never /\ admitted[i] > now - Window =>
    row[i].status # "absent" /\ row[i].created = admitted[i]

AdmissionInv ==
  /\ TypeOK
  /\ CallsHaveRows
  /\ RecentRowsStay
  /\ Cardinality(Active) <= ActiveLimit
  /\ RateBound

USE AdmissionAssumption

\* A subset of the reservations is finite and no larger than its superset.
LEMMA Smaller ==
  ASSUME NEW S \in SUBSET Id, NEW T \in SUBSET S
  PROVE  /\ IsFiniteSet(S) /\ IsFiniteSet(T)
         /\ Cardinality(S) \in Nat /\ Cardinality(T) \in Nat
         /\ Cardinality(T) <= Cardinality(S)
<1>1. IsFiniteSet(S)
  BY FS_Subset
<1>. QED
  BY <1>1, FS_Subset, FS_CardinalityType

\* One more reservation adds at most one to a count below its limit.
LEMMA OneMore ==
  ASSUME NEW S \in SUBSET Id, NEW i \in Id, NEW T \in SUBSET (S \cup {i}),
         NEW n \in Nat, Cardinality(S) < n
  PROVE  Cardinality(T) <= n
<1>1. IsFiniteSet(S) /\ Cardinality(S) \in Nat
  BY Smaller
<1>2. IsFiniteSet(S \cup {i}) /\ Cardinality(S \cup {i}) <= Cardinality(S) + 1
  <2>1. /\ IsFiniteSet(S \cup {i})
        /\ Cardinality(S \cup {i}) = IF i \in S THEN Cardinality(S) ELSE Cardinality(S) + 1
    BY <1>1, FS_AddElement
  <2>. QED
    BY <1>1, <2>1
<1>3. Cardinality(T) <= Cardinality(S \cup {i}) /\ Cardinality(T) \in Nat
  BY <1>2, FS_Subset, FS_CardinalityType
<1>4. Cardinality(S \cup {i}) \in Nat
  BY <1>2, FS_CardinalityType
<1>. QED
  BY <1>1, <1>2, <1>3, <1>4

LEMMA InitAdmissionInv == Init => AdmissionInv
<1>. SUFFICES ASSUME Init PROVE AdmissionInv
  OBVIOUS
<1>1. TypeOK
  BY DEF Init, TypeOK, Absent, None, Never
<1>2. CallsHaveRows /\ RecentRowsStay
  BY DEF Init, CallsHaveRows, RecentRowsStay, Absent, None
<1>3. Active = {}
  BY DEF Init, Active, Absent
<1>4. \A t \in 0..now : AdmittedBy(t) = {}
  BY DEF Init, AdmittedBy
<1>. QED
  BY <1>1, <1>2, <1>3, <1>4, FS_EmptySet DEF AdmissionInv, RateBound

-----------------------------------------------------------------------------
\* Time passes (Tick): reservations only leave the counts.
LEMMA TickInv == ASSUME AdmissionInv, Tick PROVE AdmissionInv'
<1>1. TypeOK'
  BY DEF AdmissionInv, TypeOK, Tick
<1>2. CallsHaveRows'
  BY DEF AdmissionInv, TypeOK, Tick, CallsHaveRows, Running, Never
<1>3. RecentRowsStay'
  BY DEF AdmissionInv, TypeOK, Tick, RecentRowsStay, Never
<1>4. Cardinality(Active') <= ActiveLimit
  <2>1. Active' \in SUBSET Active /\ Active \in SUBSET Id
    BY DEF AdmissionInv, TypeOK, Tick, Active
  <2>. QED
    BY <2>1, Smaller DEF AdmissionInv
<1>5. RateBound'
  <2>. SUFFICES ASSUME NEW t \in 0..now' PROVE Cardinality(AdmittedBy(t)') <= RecentLimit
    BY DEF RateBound
  <2>1. CASE t <= now
    <3>1. AdmittedBy(t)' = AdmittedBy(t)
      BY DEF AdmittedBy, Tick
    <3>. QED
      BY <2>1, <3>1 DEF AdmissionInv, RateBound, TypeOK
  <2>2. CASE t = now + 1
    <3>1. AdmittedBy(t)' \in SUBSET AdmittedBy(now) /\ AdmittedBy(now) \in SUBSET Id
      BY <2>2 DEF AdmissionInv, TypeOK, Tick, CallsHaveRows, AdmittedBy, Never
    <3>2. Cardinality(AdmittedBy(now)) <= RecentLimit
      BY DEF AdmissionInv, RateBound, TypeOK
    <3>. QED
      BY <3>1, <3>2, Smaller
  <2>. QED
    BY <2>1, <2>2 DEF AdmissionInv, TypeOK, Tick
<1>. QED
  BY <1>1, <1>2, <1>3, <1>4, <1>5 DEF AdmissionInv

\* A reservation (reserve_invoice), admitted or refused.
LEMMA ReserveInvoiceInv ==
  ASSUME AdmissionInv, NEW p \in Process, NEW i \in Id, ReserveInvoice(p, i)
  PROVE  AdmissionInv'
<1>. DEFINE kept == [j \in Id |-> IF Deletable(j) THEN Absent ELSE row[j]]
<1>1. kept \in [Id -> [status : {"absent", "open", "finished"}, created : Nat]]
  BY DEF AdmissionInv, TypeOK, Absent
<1>2. \A j \in Id : kept[j] = row[j] \/ (kept[j] = Absent /\ Deletable(j))
  OBVIOUS
<1>3. \A j \in Id : j \in Active => ~Deletable(j)
  BY DEF AdmissionInv, TypeOK, Active, Deletable
<1>4. \A j \in Id : call[j].pc = "issuing" => ~Deletable(j)
  BY DEF AdmissionInv, TypeOK, CallsHaveRows, Deletable, Never
<1>5. \A j \in Id : admitted[j] # Never /\ admitted[j] > now - Window => ~Deletable(j)
  BY DEF AdmissionInv, TypeOK, RecentRowsStay, Deletable, Never
<1>6. CASE Admits
  <2>1. /\ row' = [kept EXCEPT ![i] = Reserved(now)]
        /\ call' = [call EXCEPT ![i] = Issuing(p)]
        /\ admitted' = [admitted EXCEPT ![i] = now]
        /\ now' = now /\ issued' = issued
    BY <1>6 DEF ReserveInvoice
  <2>. HIDE DEF kept
  <2>2. TypeOK'
    BY <1>1, <2>1 DEF AdmissionInv, TypeOK, Reserved, Issuing
  <2>3. CallsHaveRows'
    <3>. SUFFICES ASSUME NEW j \in Id
                  PROVE  /\ call'[j].pc = "none" => admitted'[j] = Never /\ row'[j].status = "absent"
                         /\ admitted'[j] # Never => admitted'[j] <= now'
                         /\ call'[j].pc = "issuing" =>
                              /\ admitted'[j] # Never
                              /\ row'[j].status = "open"
                              /\ row'[j].created = admitted'[j]
                              /\ now' <= admitted'[j] + Deadline
      BY DEF CallsHaveRows
    <3>1. CASE j = i
      BY <1>1, <2>1, <3>1 DEF AdmissionInv, TypeOK, Reserved, Issuing, Never
    <3>2. CASE j # i
      <4>1. row'[j] = kept[j] /\ call'[j] = call[j] /\ admitted'[j] = admitted[j]
        BY <1>1, <2>1, <3>2 DEF AdmissionInv, TypeOK
      <4>. QED
        BY <4>1, <1>2, <1>4, <2>1 DEF AdmissionInv, CallsHaveRows, Absent
    <3>. QED
      BY <3>1, <3>2
  <2>4. RecentRowsStay'
    <3>. SUFFICES ASSUME NEW j \in Id, admitted'[j] # Never, admitted'[j] > now' - Window
                  PROVE  row'[j].status # "absent" /\ row'[j].created = admitted'[j]
      BY DEF RecentRowsStay
    <3>1. CASE j = i
      BY <1>1, <2>1, <3>1 DEF AdmissionInv, TypeOK, Reserved
    <3>2. CASE j # i
      <4>1. row'[j] = kept[j] /\ admitted'[j] = admitted[j]
        BY <1>1, <2>1, <3>2 DEF AdmissionInv, TypeOK
      <4>. QED
        BY <4>1, <1>2, <1>5, <2>1 DEF AdmissionInv, RecentRowsStay
    <3>. QED
      BY <3>1, <3>2
  <2>5. Cardinality(Active') <= ActiveLimit
    <3>1. Active' \in SUBSET (Active \cup {i}) /\ Active \in SUBSET Id
      <4>1. \A j \in Id \ {i} : row'[j] = kept[j]
        BY <1>1, <2>1
      <4>2. \A j \in Id \ {i} : row'[j].status = "open" => row'[j] = row[j]
        BY <4>1, <1>2 DEF Absent
      <4>. QED
        BY <4>2, <2>1 DEF Active
    <3>2. Cardinality(Active) < ActiveLimit
      BY <1>6 DEF Admits
    <3>. QED
      BY <3>1, <3>2, OneMore
  <2>6. RateBound'
    <3>. SUFFICES ASSUME NEW t \in 0..now PROVE Cardinality(AdmittedBy(t)') <= RecentLimit
      BY <2>1 DEF RateBound
    <3>1. CASE t = now
      <4>1. AdmittedBy(t)' \in SUBSET (Recent \cup {i}) /\ Recent \in SUBSET Id
        <5>1. \A j \in Id \ {i} : admitted'[j] = admitted[j]
          BY <2>1 DEF AdmissionInv, TypeOK
        <5>2. \A j \in Id : admitted[j] # Never /\ admitted[j] > now - Window => j \in Recent
          BY DEF AdmissionInv, RecentRowsStay, Recent
        <5>. QED
          BY <3>1, <5>1, <5>2, <2>1 DEF AdmittedBy, Recent
      <4>2. Cardinality(Recent) < RecentLimit
        BY <1>6 DEF Admits
      <4>. QED
        BY <4>1, <4>2, OneMore
    <3>2. CASE t < now
      <4>1. AdmittedBy(t)' = AdmittedBy(t)
        <5>1. admitted[i] = Never
          BY <2>1 DEF AdmissionInv, CallsHaveRows, ReserveInvoice
        <5>. QED
          BY <2>1, <3>2, <5>1 DEF AdmittedBy, AdmissionInv, TypeOK
      <4>. QED
        BY <4>1 DEF AdmissionInv, RateBound
    <3>. QED
      BY <3>1, <3>2 DEF AdmissionInv, TypeOK
  <2>. QED
    BY <2>2, <2>3, <2>4, <2>5, <2>6 DEF AdmissionInv
<1>7. CASE ~Admits
  <2>1. row' = kept /\ UNCHANGED <<now, call, issued, admitted>>
    BY <1>7 DEF ReserveInvoice
  <2>. HIDE DEF kept
  <2>2. TypeOK'
    BY <1>1, <2>1 DEF AdmissionInv, TypeOK
  <2>3. CallsHaveRows'
    BY <1>2, <1>4, <2>1 DEF AdmissionInv, CallsHaveRows, Absent
  <2>4. RecentRowsStay'
    BY <1>2, <1>5, <2>1 DEF AdmissionInv, RecentRowsStay
  <2>5. Cardinality(Active') <= ActiveLimit
    <3>1. Active' \in SUBSET Active /\ Active \in SUBSET Id
      BY <1>2, <2>1 DEF Active, Absent
    <3>. QED
      BY <3>1, Smaller DEF AdmissionInv
  <2>6. RateBound'
    BY <2>1 DEF AdmissionInv, RateBound, AdmittedBy
  <2>. QED
    BY <2>2, <2>3, <2>4, <2>5, <2>6 DEF AdmissionInv
<1>. QED
  BY <1>6, <1>7

\* The other steps end calls and close rows; they open none.
LEMMA EndingInv ==
  ASSUME AdmissionInv,
         now' = now, admitted' = admitted, TypeOK',
         \A i \in Id : call'[i].pc \in {"none", "issuing"} => call'[i] = call[i] /\ row'[i] = row[i],
         \A i \in Id : row'[i] = row[i] \/ (row[i].status # "absent" /\ row'[i] = [row[i] EXCEPT !.status = "finished"])
  PROVE  AdmissionInv'
<1>1. CallsHaveRows'
  BY DEF AdmissionInv, CallsHaveRows
<1>2. RecentRowsStay'
  <2>1. \A i \in Id : row[i].status # "absent" =>
          row'[i].status # "absent" /\ row'[i].created = row[i].created
    BY DEF AdmissionInv, TypeOK
  <2>. QED
    BY <2>1 DEF AdmissionInv, RecentRowsStay
<1>3. Cardinality(Active') <= ActiveLimit
  <2>1. Active' \in SUBSET Active /\ Active \in SUBSET Id
    BY DEF AdmissionInv, TypeOK, Active
  <2>. QED
    BY <2>1, Smaller DEF AdmissionInv
<1>4. RateBound'
  BY DEF AdmissionInv, RateBound, AdmittedBy
<1>. QED
  BY <1>1, <1>2, <1>3, <1>4 DEF AdmissionInv

LEMMA NextAdmissionInv == AdmissionInv /\ [Next]_vars => AdmissionInv'
<1>. SUFFICES ASSUME AdmissionInv, [Next]_vars PROVE AdmissionInv'
  OBVIOUS
<1>1. CASE Tick
  BY <1>1, TickInv
<1>2. ASSUME NEW p \in Process, Crash(p) PROVE AdmissionInv'
  <2>1. TypeOK'
    BY <1>2 DEF AdmissionInv, TypeOK, Crash, OfProcess, Over
  <2>2. \A i \in Id : call'[i].pc \in {"none", "issuing"} => call'[i] = call[i]
    BY <1>2 DEF Crash, Over
  <2>. QED
    BY <1>2, <2>1, <2>2, EndingInv DEF Crash
<1>3. ASSUME NEW p \in Process, NEW i \in Id, ReserveInvoice(p, i) PROVE AdmissionInv'
  BY <1>3, ReserveInvoiceInv
<1>4. ASSUME NEW i \in Id, RecordReceiveRequest(i) \/ FailCreation(i) \/ Cancel(i)
      PROVE  AdmissionInv'
  <2>1. TypeOK'
    <3>1. call' \in [Id -> [pc : {"none", "issuing", "finishing", "over"},
                            process : Process \cup {NoProcess}]]
      <4>1. CASE RecordReceiveRequest(i) \/ FailCreation(i)
        BY <4>1 DEF AdmissionInv, TypeOK, RecordReceiveRequest, FailCreation, Finishing
      <4>2. CASE Cancel(i)
        BY <4>2 DEF AdmissionInv, TypeOK, Cancel, Over
      <4>. QED
        BY <1>4, <4>1, <4>2
    <3>2. issued' \in [Id -> Nat \cup {Never}]
      BY <1>4 DEF AdmissionInv, TypeOK, RecordReceiveRequest, FailCreation, Cancel
    <3>. QED
      BY <1>4, <3>1, <3>2 DEF AdmissionInv, TypeOK, RecordReceiveRequest, FailCreation, Cancel
  <2>2. \A j \in Id : call'[j].pc \in {"none", "issuing"} => call'[j] = call[j]
    BY <1>4 DEF AdmissionInv, TypeOK, RecordReceiveRequest, FailCreation, Cancel, Finishing, Over
  <2>3. now' = now /\ admitted' = admitted /\ row' = row
    BY <1>4 DEF RecordReceiveRequest, FailCreation, Cancel
  <2>. QED
    BY <2>1, <2>2, <2>3, EndingInv
<1>5. ASSUME NEW i \in Id, FinishInvoiceAdmission(i) PROVE AdmissionInv'
  <2>1. TypeOK'
    <3>1. row' \in [Id -> [status : {"absent", "open", "finished"}, created : Nat]]
      BY <1>5 DEF AdmissionInv, TypeOK, FinishInvoiceAdmission
    <3>2. call' \in [Id -> [pc : {"none", "issuing", "finishing", "over"},
                            process : Process \cup {NoProcess}]]
      BY <1>5 DEF AdmissionInv, TypeOK, FinishInvoiceAdmission, Over
    <3>. QED
      BY <1>5, <3>1, <3>2 DEF AdmissionInv, TypeOK, FinishInvoiceAdmission
  <2>2. \A j \in Id : call'[j].pc \in {"none", "issuing"} => call'[j] = call[j] /\ row'[j] = row[j]
    BY <1>5 DEF AdmissionInv, TypeOK, FinishInvoiceAdmission, Over
  <2>3. \A j \in Id : row'[j] = row[j]
          \/ (row[j].status # "absent" /\ row'[j] = [row[j] EXCEPT !.status = "finished"])
    BY <1>5 DEF AdmissionInv, TypeOK, FinishInvoiceAdmission
  <2>. QED
    BY <1>5, <2>1, <2>2, <2>3, EndingInv DEF FinishInvoiceAdmission
<1>6. CASE UNCHANGED vars
  <2>1. TypeOK'
    BY <1>6 DEF AdmissionInv, TypeOK, vars
  <2>. QED
    BY <1>6, <2>1, EndingInv DEF vars
<1>. QED
  BY <1>1, <1>2, <1>3, <1>4, <1>5, <1>6 DEF Next

LEMMA AdmissionInvHolds == Spec => []AdmissionInv
BY InitAdmissionInv, NextAdmissionInv, PTL DEF Spec

-----------------------------------------------------------------------------
\* The stored rows, calls and times have their types in every reachable state.
THEOREM AdmissionTypes == Spec => []TypeOK
<1>1. AdmissionInv => TypeOK
  BY DEF AdmissionInv
<1>. QED
  BY <1>1, AdmissionInvHolds, PTL

\* However many processes share the database, and however calls end, no more
\* than ActiveLimit requests are on their way to Strike.
THEOREM RunningRequestsBounded == Spec => []ActiveBound
<1>1. ASSUME AdmissionInv PROVE ActiveBound
  <2>1. Running \in SUBSET Active /\ Active \in SUBSET Id
    BY <1>1 DEF AdmissionInv, TypeOK, CallsHaveRows, Running, Active, Never
  <2>. QED
    BY <1>1, <2>1, Smaller DEF AdmissionInv, ActiveBound
<1>. QED
  BY <1>1, AdmissionInvHolds, PTL

\* In any Window seconds no more than RecentLimit reservations are made.
THEOREM ReservationsRateBounded == Spec => []RateBound
<1>1. AdmissionInv => RateBound
  BY DEF AdmissionInv
<1>. QED
  BY <1>1, AdmissionInvHolds, PTL
-----------------------------------------------------------------------------
\* The requests of the last day, and those that may still be recorded.
Counted == IssuedSince(now - Day) \cup Running
DayInv == Cardinality(Counted) <= DayLimit

\* A union is no larger than its parts together.
LEMMA UnionIsSmaller ==
  ASSUME NEW S \in SUBSET Id, NEW T \in SUBSET Id
  PROVE  Cardinality(S \cup T) <= Cardinality(S) + Cardinality(T)
<1>1. IsFiniteSet(S) /\ IsFiniteSet(T) /\ S \cap T \in SUBSET S
  BY Smaller
<1>2. /\ Cardinality(S) \in Nat /\ Cardinality(T) \in Nat /\ Cardinality(S \cap T) \in Nat
  BY <1>1, Smaller
<1>3. Cardinality(S \cup T) = Cardinality(S) + Cardinality(T) - Cardinality(S \cap T)
  BY <1>1, FS_Union
<1>. QED
  BY <1>2, <1>3

\* A request that is admitted is counted before it is recorded, and counted
\* no more often after.
LEMMA NextDayInv == AdmissionInv /\ DayInv /\ [Next]_vars => DayInv'
<1>. SUFFICES ASSUME AdmissionInv, DayInv, [Next]_vars PROVE DayInv'
  OBVIOUS
<1>1. Counted \in SUBSET Id
  BY DEF Counted, IssuedSince, Running
<1>2. ASSUME Counted' \subseteq Counted PROVE DayInv'
  BY <1>1, <1>2, Smaller DEF DayInv
<1>3. now \in Nat /\ issued \in [Id -> Nat \cup {Never}]
  BY DEF AdmissionInv, TypeOK
<1>4. CASE Tick
  <2>1. now' = now + 1 /\ issued' = issued /\ call' = call
    BY <1>4 DEF Tick
  <2>2. \A i \in Id : issued[i] # Never /\ issued[i] > now' - Day => issued[i] > now - Day
    BY <1>3, <2>1
  <2>. QED
    BY <1>2, <2>1, <2>2 DEF Counted, IssuedSince, Running
<1>5. ASSUME NEW p \in Process, NEW i \in Id, ReserveInvoice(p, i) PROVE DayInv'
  <2>1. now' = now /\ issued' = issued
    BY <1>5 DEF ReserveInvoice
  <2>2. CASE ~Admits
    BY <1>2, <1>5, <2>1, <2>2 DEF ReserveInvoice, Counted, IssuedSince, Running
  <2>3. CASE Admits
    <3>1. Counted' \in SUBSET (Counted \cup {i})
      BY <1>5, <2>1 DEF AdmissionInv, TypeOK, ReserveInvoice, Counted, IssuedSince, Running
    <3>2. Running \in SUBSET Active /\ Active \in SUBSET Id /\ IssuedSince(now - Day) \in SUBSET Id
      BY DEF AdmissionInv, TypeOK, CallsHaveRows, Running, Active, Never, IssuedSince
    <3>3. /\ Cardinality(Running) <= Cardinality(Active)
          /\ Cardinality(Running) \in Nat /\ Cardinality(Active) \in Nat
          /\ Cardinality(IssuedSince(now - Day)) \in Nat
          /\ Cardinality(Counted) \in Nat
      BY <1>1, <3>2, Smaller
    <3>4. Cardinality(Counted) <= Cardinality(IssuedSince(now - Day)) + Cardinality(Running)
      BY <3>2, UnionIsSmaller DEF Counted
    <3>5. Cardinality(IssuedSince(now - Day)) + Cardinality(Active) < DayLimit
      BY <2>3 DEF Admits
    <3>6. Cardinality(Counted) < DayLimit
      BY <3>3, <3>4, <3>5
    <3>. QED
      BY <1>1, <3>1, <3>6, OneMore DEF DayInv
  <2>. QED
    BY <2>2, <2>3
<1>6. ASSUME NEW i \in Id, RecordReceiveRequest(i) PROVE DayInv'
  <2>1. i \in Running /\ now' = now
    BY <1>6 DEF RecordReceiveRequest, Running
  <2>2. \A j \in Id : j # i => issued'[j] = issued[j]
    BY <1>3, <1>6 DEF RecordReceiveRequest
  <2>3. Running' \subseteq Running
    BY <1>6 DEF AdmissionInv, TypeOK, RecordReceiveRequest, Running, Finishing
  <2>. QED
    BY <1>2, <2>1, <2>2, <2>3 DEF Counted, IssuedSince
<1>7. ASSUME NEW i \in Id, FailCreation(i) \/ FinishInvoiceAdmission(i) \/ Cancel(i) PROVE DayInv'
  <2>1. now' = now /\ issued' = issued
    BY <1>7 DEF FailCreation, FinishInvoiceAdmission, Cancel
  <2>2. Running' \subseteq Running
    BY <1>7 DEF AdmissionInv, TypeOK, FailCreation, FinishInvoiceAdmission, Cancel, Running, Finishing, Over
  <2>. QED
    BY <1>2, <2>1, <2>2 DEF Counted, IssuedSince
<1>8. ASSUME NEW p \in Process, Crash(p) PROVE DayInv'
  BY <1>2, <1>8 DEF Crash, Counted, IssuedSince, Running, Over
<1>9. CASE UNCHANGED vars
  BY <1>2, <1>9 DEF vars, Counted, IssuedSince, Running
<1>. QED
  BY <1>4, <1>5, <1>6, <1>7, <1>8, <1>9 DEF Next

LEMMA InitDayInv == Init => DayInv
<1>. SUFFICES ASSUME Init PROVE DayInv
  OBVIOUS
<1>1. Counted = {}
  BY DEF Init, Counted, IssuedSince, Running, None
<1>. QED
  BY <1>1, FS_EmptySet DEF DayInv

\* In any Day seconds no more than DayLimit requests are recorded.
THEOREM RequestsOfDayBounded == Spec => []DayBound
<1>1. ASSUME DayInv PROVE DayBound
  <2>1. IssuedSince(now - Day) \in SUBSET Counted /\ Counted \in SUBSET Id
    BY DEF Counted, IssuedSince, Running
  <2>. QED
    BY <1>1, <2>1, Smaller DEF DayInv, DayBound
<1>. QED
  BY <1>1, AdmissionInvHolds, InitDayInv, NextDayInv, PTL DEF Spec

-----------------------------------------------------------------------------
\* The callbacks stay within the admission, whatever they do besides.
LEMMA AddressStep == [AddressNext]_<<vars, address>> => [Next]_vars
<1>. SUFFICES ASSUME AddressNext PROVE Next
  BY DEF vars
<1>1. CASE \E p \in Process, i \in Id : \E ask \in [user : User \cup {Stranger}, amount : Asks] :
             Callback(p, i, ask)
  BY <1>1 DEF Callback, Next
<1>2. CASE \E i \in Id : Issue(i) \/ HandOut(i)
  BY <1>2 DEF Issue, HandOut, Next
<1>3. CASE Tick \/ (\E i \in Id : FailCreation(i) \/ Cancel(i)) \/ (\E p \in Process : Crash(p))
  BY <1>3 DEF Next
<1>. QED
  BY <1>1, <1>2, <1>3 DEF AddressNext

\* What the admission promises, it promises to the address: the bounds above
\* hold of the invoices that wallets ask for.
THEOREM AddressesAreAdmitted == AddressSpec => Spec
<1>1. AddressInit => Init
  BY DEF AddressInit
<1>. QED
  BY <1>1, AddressStep, PTL DEF Spec, AddressSpec

\* An invoice that pays what was asked, recorded as it was.
AsAsked(ask, line) ==
  /\ line # NoRequest
  /\ Callable(ask)
  /\ line.invoice.genuine
  /\ line.invoice.amount = ask.amount
  /\ line.invoice.description = ask.user
  /\ line.payment = line.invoice.payment
  /\ line.user = ask.user
  /\ line.amount = ask.amount
  /\ \E r \in RequestId : requests[r] = line

\* A payment hash has one row.
OnePayment ==
  \A r, s \in RequestId : requests[r] # NoRequest /\ requests[s] # NoRequest =>
    (requests[r].payment = requests[s].payment => r = s)

\* Each call was allowed, and will answer with what it was asked for.
AddressInv ==
  /\ asked = [i \in Id |-> asked[i]]
  /\ result = [i \in Id |-> result[i]]
  /\ requests = [r \in RequestId |-> requests[r]]
  /\ \A i \in Id :
       /\ call[i].pc = "none" => result[i] = NoRequest
       /\ call[i].pc = "issuing" => Callable(asked[i])
       /\ result[i] # NoRequest => AsAsked(asked[i], result[i])
  /\ \A h \in handed : AsAsked(h.ask, h.row)
  /\ OnePayment

LEMMA InitAddressInv == AddressInit => AddressInv
BY DEF AddressInit, Init, AddressInv, None, OnePayment

\* A row is not the absence of one.
LEMMA RowIsThere == ASSUME NEW ask, NEW response PROVE RowOf(ask, response) # NoRequest
<1>1. DOMAIN NoRequest = {"user"}
  BY DEF NoRequest
<1>2. "payment" \in DOMAIN RowOf(ask, response)
  BY DEF RowOf
<1>. QED
  BY <1>1, <1>2

\* validate_receive_request_response: what it accepts for a call becomes a
\* row that says what was asked.
LEMMA AcceptedIsAsAsked ==
  ASSUME NEW ask, Callable(ask), NEW response, NEW r \in RequestId,
         Acceptable(response, ask.amount, Discovery[ask.user].metadata, Expiry, now),
         requests'[r] = RowOf(ask, response)
  PROVE  AsAsked(ask, RowOf(ask, response))'
<1>1. Discovery[ask.user].metadata = ask.user
  BY DEF Callable, Discovery
<1>2. PICK line : line = RowOf(ask, response)
  OBVIOUS
<1>3. /\ line.user = ask.user /\ line.amount = ask.amount
      /\ line.payment = response.payment /\ line.invoice = response.invoice
  BY <1>2 DEF RowOf
<1>4. /\ response.invoice.genuine
      /\ response.invoice.amount = ask.amount
      /\ response.invoice.payment = response.payment
      /\ response.invoice.description = ask.user
  BY <1>1 DEF Acceptable, Verify
<1>5. line # NoRequest
  BY <1>2, RowIsThere
<1>. QED
  BY <1>2, <1>3, <1>4, <1>5 DEF AsAsked

\* What a step that records nothing may do to one call: nothing, end it, or
\* admit it.
Continues(i) ==
  /\ asked'[i] = asked[i] /\ result'[i] = result[i]
  /\ call'[i].pc \in {"none", "issuing"} => call'[i] = call[i]
Ends(i) == call'[i] = Over /\ result'[i] = NoRequest
Begins(i) ==
  /\ call[i].pc = "none" /\ call'[i].pc = "issuing"
  /\ Callable(asked'[i]) /\ result'[i] = result[i]

LEMMA AddressStays ==
  ASSUME AddressInv,
         asked' = [i \in Id |-> asked'[i]],
         result' = [i \in Id |-> result'[i]],
         requests' = requests,
         \A h \in handed' : h \in handed \/ AsAsked(h.ask, h.row),
         \A i \in Id : Continues(i) \/ Ends(i) \/ Begins(i)
  PROVE  AddressInv'
<1>1. ASSUME NEW ask, NEW line, AsAsked(ask, line) PROVE AsAsked(ask, line)'
  BY <1>1 DEF AsAsked
<1>2. ASSUME NEW i \in Id
      PROVE  /\ call'[i].pc = "none" => result'[i] = NoRequest
             /\ call'[i].pc = "issuing" => Callable(asked'[i])
             /\ (result[i] # NoRequest => AsAsked(asked[i], result[i]))'
  <2>1. /\ call[i].pc = "none" => result[i] = NoRequest
        /\ call[i].pc = "issuing" => Callable(asked[i])
        /\ result[i] # NoRequest => AsAsked(asked[i], result[i])
    BY DEF AddressInv
  <2>2. CASE Continues(i)
    <3>1. PICK ask, line : /\ ask = asked[i] /\ ask = asked'[i]
                           /\ line = result[i] /\ line = result'[i]
      BY <2>2 DEF Continues
    <3>2. line # NoRequest => AsAsked(ask, line)'
      BY <1>1, <2>1, <3>1
    <3>3. (result[i] # NoRequest => AsAsked(asked[i], result[i]))'
      BY <3>1, <3>2
    <3>. QED
      BY <2>1, <2>2, <3>3 DEF Continues
  <2>3. CASE Ends(i)
    BY <2>3 DEF Ends, Over
  <2>4. CASE Begins(i)
    BY <2>1, <2>4 DEF Begins
  <2>. QED
    BY <2>2, <2>3, <2>4
<1>3. (\A h \in handed : AsAsked(h.ask, h.row))'
  BY <1>1 DEF AddressInv
<1>4. OnePayment'
  BY DEF AddressInv, OnePayment
<1>5. requests' = [r \in RequestId |-> requests'[r]]
  BY DEF AddressInv
<1>. QED
  BY <1>2, <1>3, <1>4, <1>5 DEF AddressInv

LEMMA CallbackKeeps ==
  ASSUME AdmissionInv, AddressInv, NEW p \in Process, NEW i \in Id, NEW ask, Callback(p, i, ask)
  PROVE  AddressInv'
<1>1. /\ Callable(ask) /\ call[i].pc = "none"
      /\ requests' = requests /\ result' = result /\ handed' = handed
      /\ asked' = IF call'[i] = call[i] THEN asked ELSE [asked EXCEPT ![i] = ask]
  BY DEF Callback, ReserveInvoice
<1>2. /\ asked = [j \in Id |-> asked[j]] /\ result = [j \in Id |-> result[j]]
      /\ call = [j \in Id |-> call[j]]
  BY DEF AddressInv, AdmissionInv, TypeOK
<1>3. call' = call \/ call' = [call EXCEPT ![i] = Issuing(p)]
  BY DEF Callback, ReserveInvoice
<1>4. Issuing(p).pc = "issuing"
  BY DEF Issuing
<1>5. ASSUME NEW j \in Id PROVE Continues(j) \/ Ends(j) \/ Begins(j)
  <2>1. CASE j # i \/ call' = call
    BY <1>1, <1>2, <1>3, <2>1 DEF Continues
  <2>2. CASE j = i /\ call' = [call EXCEPT ![i] = Issuing(p)]
    <3>1. call'[i] = Issuing(p) /\ call'[i] # call[i]
      BY <1>1, <1>2, <1>4, <2>2
    <3>2. asked'[i] = ask
      BY <1>1, <1>2, <3>1
    <3>. QED
      BY <1>1, <1>4, <2>2, <3>1, <3>2 DEF Begins
  <2>. QED
    BY <1>3, <2>1, <2>2
<1>6. asked' = [j \in Id |-> asked'[j]] /\ result' = [j \in Id |-> result'[j]]
  BY <1>1, <1>2
<1>. QED
  BY <1>1, <1>5, <1>6, AddressStays

\* What ends a call forgets it.
LEMMA ForgetKeeps ==
  ASSUME AddressInv, Forget, requests' = requests,
         \A i \in Id : call'[i] = Over
                       \/ (call'[i].pc \in {"none", "issuing"} => call'[i] = call[i]),
         \A h \in handed' : h \in handed \/ AsAsked(h.ask, h.row)
  PROVE  AddressInv'
<1>1. /\ asked' = [i \in Id |-> asked'[i]] /\ result' = [i \in Id |-> result'[i]]
      /\ \A i \in Id : IF call'[i] = Over THEN result'[i] = NoRequest
                       ELSE asked'[i] = asked[i] /\ result'[i] = result[i]
  BY DEF Forget
<1>2. ASSUME NEW i \in Id PROVE Continues(i) \/ Ends(i) \/ Begins(i)
  BY <1>1 DEF Continues, Ends
<1>. QED
  BY <1>1, <1>2, AddressStays

LEMMA EndKeeps ==
  ASSUME AdmissionInv, AddressInv, Forget, requests' = requests, handed' = handed,
         Tick \/ (\E i \in Id : FailCreation(i) \/ Cancel(i)) \/ (\E p \in Process : Crash(p))
  PROVE  AddressInv'
<1>1. call = [i \in Id |-> call[i]]
  BY DEF AdmissionInv, TypeOK
<1>2. ASSUME NEW j \in Id
      PROVE  call'[j] = Over \/ (call'[j].pc \in {"none", "issuing"} => call'[j] = call[j])
  <2>1. CASE Tick
    BY <2>1 DEF Tick
  <2>2. ASSUME NEW i \in Id, FailCreation(i) \/ Cancel(i)
        PROVE  call'[j] = Over \/ (call'[j].pc \in {"none", "issuing"} => call'[j] = call[j])
    BY <1>1, <2>2 DEF FailCreation, Cancel, Finishing
  <2>3. ASSUME NEW p \in Process, Crash(p) PROVE call'[j] = Over \/ call'[j] = call[j]
    BY <2>3 DEF Crash
  <2>. QED
    BY <2>1, <2>2, <2>3
<1>. QED
  BY <1>2, ForgetKeeps

LEMMA HandOutKeeps ==
  ASSUME AdmissionInv, AddressInv, NEW i \in Id, HandOut(i) PROVE AddressInv'
<1>1. /\ Forget /\ requests' = requests
      /\ handed' = handed \cup
           (IF result[i] = NoRequest THEN {} ELSE {[ask |-> asked[i], row |-> result[i]]})
  BY DEF HandOut
<1>2. call = [j \in Id |-> call[j]] /\ call' = [call EXCEPT ![i] = Over]
  BY DEF AdmissionInv, TypeOK, HandOut, FinishInvoiceAdmission
<1>3. \A j \in Id : call'[j] = Over \/ call'[j] = call[j]
  BY <1>2
<1>4. ASSUME NEW h \in handed', h \notin handed PROVE AsAsked(h.ask, h.row)
  <2>1. result[i] # NoRequest /\ h = [ask |-> asked[i], row |-> result[i]]
    BY <1>1, <1>4
  <2>2. h.ask = asked[i] /\ h.row = result[i]
    BY <2>1
  <2>. QED
    BY <2>1, <2>2 DEF AddressInv
<1>. QED
  BY <1>1, <1>3, <1>4, ForgetKeeps

\* What Issue does with an answer of Strike.
Issues(i, ask, response) ==
  /\ Acceptable(response, ask.amount, Discovery[ask.user].metadata, Expiry, now)
  /\ \/ /\ requests[response.id] = NoRequest
        /\ \A q \in RequestId :
             requests[q] # NoRequest => requests[q].payment # RowOf(ask, response).payment
        /\ requests' = [requests EXCEPT ![response.id] = RowOf(ask, response)]
        /\ RecordReceiveRequest(i)
     \/ /\ requests[response.id] = RowOf(ask, response)
        /\ FailCreation(i)
        /\ UNCHANGED requests
  /\ result' = [result EXCEPT ![i] = RowOf(ask, response)]

\* A row is recorded, or is there as it would be.
LEMMA IssueKeeps ==
  ASSUME AdmissionInv, AddressInv, NEW i \in Id, Issue(i) PROVE AddressInv'
<1>1. PICK ask : ask = asked[i]
  OBVIOUS
<1>r. PICK r \in RequestId : \E response \in Responses(ask, r) : Issues(i, ask, response)
  BY <1>1 DEF Issue, Issues
<1>2. PICK response \in Responses(ask, r) : Issues(i, ask, response)
  BY <1>r
<1>3. PICK line : line = RowOf(ask, response)
  OBVIOUS
<1>4. line # NoRequest
  BY <1>3, RowIsThere
<1>5. response.id = r
  BY <1>2 DEF Responses
<1>6. call[i].pc = "issuing" /\ asked' = asked /\ handed' = handed /\ Callable(ask)
  BY <1>1 DEF Issue, AddressInv
<1>7. call = [j \in Id |-> call[j]] /\ call' = [call EXCEPT ![i] = Finishing(call[i])]
  BY <1>2 DEF Issues, AdmissionInv, TypeOK, RecordReceiveRequest, FailCreation
<1>8. \A j \in Id : j # i => call'[j] = call[j]
  BY <1>7
<1>9. call'[i].pc = "finishing"
  BY <1>7 DEF Finishing
<1>10. /\ asked = [j \in Id |-> asked[j]] /\ result = [j \in Id |-> result[j]]
       /\ requests = [q \in RequestId |-> requests[q]]
  BY DEF AddressInv
<1>11. \/ /\ requests[r] = NoRequest
          /\ \A q \in RequestId : requests[q] # NoRequest => requests[q].payment # line.payment
          /\ requests' = [requests EXCEPT ![r] = line]
       \/ requests[r] = line /\ requests' = requests
  BY <1>2, <1>3, <1>5 DEF Issues
<1>12. requests' = [q \in RequestId |-> requests'[q]] /\ requests'[r] = line
  BY <1>10, <1>11
<1>13. \A q \in RequestId : requests[q] # NoRequest => requests'[q] = requests[q]
  BY <1>10, <1>11
<1>14. AsAsked(ask, line)'
  BY <1>2, <1>3, <1>6, <1>12, AcceptedIsAsAsked DEF Issues
<1>15. ASSUME NEW a, NEW l, AsAsked(a, l) PROVE AsAsked(a, l)'
  <2>1. PICK q \in RequestId : requests[q] = l
    BY <1>15 DEF AsAsked
  <2>2. l # NoRequest
    BY <1>15 DEF AsAsked
  <2>3. requests'[q] = l
    BY <1>13, <2>1, <2>2
  <2>. QED
    BY <1>15, <2>3 DEF AsAsked
<1>16. OnePayment'
  <2>. SUFFICES ASSUME NEW q \in RequestId, NEW s \in RequestId,
                       requests'[q] # NoRequest, requests'[s] # NoRequest,
                       requests'[q].payment = requests'[s].payment
                PROVE  q = s
    BY DEF OnePayment
  <2>1. OnePayment
    BY DEF AddressInv
  <2>2. CASE requests' = requests
    BY <2>1, <2>2 DEF OnePayment
  <2>3. CASE /\ requests[r] = NoRequest
             /\ \A u \in RequestId : requests[u] # NoRequest => requests[u].payment # line.payment
             /\ requests' = [requests EXCEPT ![r] = line]
    <3>1. \A u \in RequestId : u # r => requests'[u] = requests[u]
      BY <1>10, <2>3
    <3>. QED
      BY <1>12, <2>1, <2>3, <3>1 DEF OnePayment
  <2>. QED
    BY <1>11, <2>2, <2>3
<1>17. result' = [j \in Id |-> result'[j]] /\ result'[i] = line
       /\ \A j \in Id : j # i => result'[j] = result[j]
  BY <1>2, <1>3, <1>10 DEF Issues
<1>18. ASSUME NEW j \in Id
       PROVE  /\ call'[j].pc = "none" => result'[j] = NoRequest
              /\ call'[j].pc = "issuing" => Callable(asked'[j])
              /\ (result[j] # NoRequest => AsAsked(asked[j], result[j]))'
  <2>1. CASE j = i
    <3>1. asked'[i] = ask /\ result'[i] = line
      BY <1>1, <1>6, <1>17
    <3>2. (AsAsked(asked[i], result[i]))'
      BY <1>14, <3>1
    <3>. QED
      BY <1>9, <2>1, <3>2
  <2>2. CASE j # i
    <3>1. PICK a, l : a = asked[j] /\ a = asked'[j] /\ l = result[j] /\ l = result'[j]
      BY <1>6, <1>17, <2>2
    <3>2. l # NoRequest => AsAsked(a, l)'
      BY <1>15, <3>1 DEF AddressInv
    <3>3. (result[j] # NoRequest => AsAsked(asked[j], result[j]))'
      BY <3>1, <3>2
    <3>. QED
      BY <1>8, <2>2, <3>1, <3>3 DEF AddressInv
  <2>. QED
    BY <2>1, <2>2
<1>19. (\A h \in handed : AsAsked(h.ask, h.row))'
  BY <1>6, <1>15 DEF AddressInv
<1>20. asked' = [j \in Id |-> asked'[j]]
  BY <1>6, <1>10
<1>. QED
  BY <1>12, <1>16, <1>17, <1>18, <1>19, <1>20 DEF AddressInv

LEMMA NextAddressInv ==
  AdmissionInv /\ AddressInv /\ [AddressNext]_<<vars, address>> => AddressInv'
<1>. SUFFICES ASSUME AdmissionInv, AddressInv, [AddressNext]_<<vars, address>>
              PROVE  AddressInv'
  OBVIOUS
<1>1. CASE \E p \in Process, i \in Id : \E ask \in [user : User \cup {Stranger}, amount : Asks] :
             Callback(p, i, ask)
  BY <1>1, CallbackKeeps
<1>2. CASE \E i \in Id : Issue(i) \/ HandOut(i)
  BY <1>2, IssueKeeps, HandOutKeeps
<1>3. CASE /\ Tick \/ (\E i \in Id : FailCreation(i) \/ Cancel(i)) \/ (\E p \in Process : Crash(p))
           /\ Forget
           /\ UNCHANGED <<requests, handed>>
  BY <1>3, EndKeeps
<1>4. CASE UNCHANGED <<vars, address>>
  <2>1. /\ asked' = asked /\ result' = result /\ requests' = requests /\ handed' = handed
        /\ call' = call
    BY <1>4 DEF vars, address
  <2>2. \A i \in Id : Continues(i)
    BY <2>1 DEF Continues
  <2>3. asked' = [i \in Id |-> asked'[i]] /\ result' = [i \in Id |-> result'[i]]
    BY <2>1 DEF AddressInv
  <2>. QED
    BY <2>1, <2>2, <2>3, AddressStays
<1>. QED
  BY <1>1, <1>2, <1>3, <1>4 DEF AddressNext

\* Whoever pays an invoice that a callback handed out pays what was asked,
\* to the address that was asked for, and the only row with its payment hash
\* says so: whatever Strike answers, and to however many calls at once.
THEOREM InvoicesAreAsAsked == AddressSpec => []InvoiceIsAsAsked
<1>1. AddressInv => InvoiceIsAsAsked
  BY DEF AddressInv, AsAsked, OnePayment, InvoiceIsAsAsked
<1>2. AddressSpec => []AdmissionInv
  BY AddressesAreAdmitted, AdmissionInvHolds, PTL
<1>. QED
  BY <1>1, <1>2, InitAddressInv, NextAddressInv, PTL DEF AddressSpec

=============================================================================
