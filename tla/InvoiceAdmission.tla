--------------------------- MODULE InvoiceAdmission ---------------------------
(***************************************************************************)
(* How many invoices the daemons ask Strike for (src/ledger/admission.rs,  *)
(* create_and_record_receive_request of src/strike.rs): a reservation in   *)
(* the shared database before the request, given back after it, with at    *)
(* most 4 running, 30 a minute and 10,000 issued a day.  A call is cut off *)
(* by its deadline, dropped with its client, or lost in a crash, and its   *)
(* reservation then runs out by itself.                                    *)
(***************************************************************************)
EXTENDS Integers, FiniteSets

CONSTANTS
  Process,      \* daemons that share the database
  NoProcess,    \* the process of a call not made yet
  Id,           \* reservations that may be made
  Slots,        \* 4 calls of a process at a time
  ActiveLimit,  \* 4 reservations at a time
  RecentLimit,  \* 30 reservations in Window
  DayLimit,     \* 10,000 requests issued in Day
  Window,       \* 60 seconds
  Day,          \* 86,400 seconds
  Lease,        \* 30 seconds of a reservation
  Deadline,     \* 20 seconds of a call
  MaxTime       \* bound: seconds

ASSUME AdmissionAssumption ==
  /\ IsFiniteSet(Id)
  /\ Slots \in Nat
  /\ ActiveLimit \in Nat /\ RecentLimit \in Nat /\ DayLimit \in Nat
  /\ Window \in Nat /\ Day \in Nat /\ Lease \in Nat /\ Deadline \in Nat
  /\ Deadline < Lease /\ Lease <= Window
  /\ MaxTime \in Nat

VARIABLES
  now,         \* unixepoch() of the shared database
  row,         \* invoice_admissions by id
  call,        \* the creation each reservation was made for
  issued,      \* created_at of strike_receive_requests, by reservation
  admitted     \* when each reservation was made, and its call began

vars == <<now, row, call, issued, admitted>>

Never == -1
Absent == [status |-> "absent", created |-> 0]
Reserved(t) == [status |-> "open", created |-> t]

None == [pc |-> "none", process |-> NoProcess]
Issuing(p) == [pc |-> "issuing", process |-> p]
Finishing(c) == [pc |-> "finishing", process |-> c.process]
Over == [pc |-> "over", process |-> NoProcess]

Running == {i \in Id : call[i].pc = "issuing"}
OfProcess(p) == {i \in Id : call[i].pc \in {"issuing", "finishing"} /\ call[i].process = p}

\* Mutant: finished rows are deleted at once.
MutantDeleteFinished(i) ==
  row[i].status = "finished" \/ row[i].created + Lease <= now

\* The rows reserve_invoice deletes, and then its counts.
Deletable(i) ==
  /\ row[i].created <= now - Window
  /\ row[i].status = "finished" \/ row[i].created + Lease <= now

Recent == {i \in Id : row[i].status # "absent" /\ row[i].created > now - Window}

\* Mutant: a reservation as short as a call.
MutantShortLease ==
  {i \in Id : row[i].status = "open" /\ row[i].created + Deadline > now}

Active == {i \in Id : row[i].status = "open" /\ row[i].created + Lease > now}
IssuedSince(t) == {i \in Id : issued[i] # Never /\ issued[i] > t}

\* Mutant: the calls still running are not in the day's count.
MutantAdmitsIssuedOnly ==
  /\ Cardinality(Recent) < RecentLimit
  /\ Cardinality(Active) < ActiveLimit
  /\ Cardinality(IssuedSince(now - Day)) < DayLimit

Admits ==
  /\ Cardinality(Recent) < RecentLimit
  /\ Cardinality(Active) < ActiveLimit
  /\ Cardinality(IssuedSince(now - Day)) + Cardinality(Active) < DayLimit

-----------------------------------------------------------------------------
Init ==
  /\ now = 0
  /\ row = [i \in Id |-> Absent]
  /\ call = [i \in Id |-> None]
  /\ issued = [i \in Id |-> Never]
  /\ admitted = [i \in Id |-> Never]

\* No call outlives its deadline.
Tick ==
  /\ now < MaxTime
  /\ \A i \in Running : now < admitted[i] + Deadline
  /\ now' = now + 1
  /\ UNCHANGED <<row, call, issued, admitted>>

\* One transaction; a process turns calls away without it when its slots are
\* taken.  A refused call leaves the deletions.
ReserveInvoice(p, i) ==
  /\ call[i].pc = "none"
  /\ Cardinality(OfProcess(p)) < Slots
  /\ LET kept == [j \in Id |-> IF Deletable(j) THEN Absent ELSE row[j]] IN
       \/ /\ Admits
          /\ row' = [kept EXCEPT ![i] = Reserved(now)]
          /\ call' = [call EXCEPT ![i] = Issuing(p)]
          /\ admitted' = [admitted EXCEPT ![i] = now]
       \/ /\ ~Admits
          /\ row' = kept
          /\ UNCHANGED <<call, admitted>>
  /\ UNCHANGED <<now, issued>>

\* Strike creates the request and the daemon records it.
RecordReceiveRequest(i) ==
  /\ call[i].pc = "issuing"
  /\ issued' = [issued EXCEPT ![i] = now]
  /\ call' = [call EXCEPT ![i] = Finishing(@)]
  /\ UNCHANGED <<now, row, admitted>>

\* Strike or the database fails, or the deadline passes.
FailCreation(i) ==
  /\ call[i].pc = "issuing"
  /\ call' = [call EXCEPT ![i] = Finishing(@)]
  /\ UNCHANGED <<now, row, issued, admitted>>

\* finish_invoice_admission; when it fails, the row stays and the call ends.
FinishInvoiceAdmission(i) ==
  /\ call[i].pc = "finishing"
  /\ \/ row' = [row EXCEPT ![i].status = IF @ = "absent" THEN @ ELSE "finished"]
     \/ UNCHANGED row
  /\ call' = [call EXCEPT ![i] = Over]
  /\ UNCHANGED <<now, issued, admitted>>

\* The client goes away, and the handler is dropped where it waits.
Cancel(i) ==
  /\ call[i].pc \in {"issuing", "finishing"}
  /\ call' = [call EXCEPT ![i] = Over]
  /\ UNCHANGED <<now, row, issued, admitted>>

Crash(p) ==
  /\ OfProcess(p) # {}
  /\ call' = [i \in Id |-> IF i \in OfProcess(p) THEN Over ELSE call[i]]
  /\ UNCHANGED <<now, row, issued, admitted>>

Next ==
  \/ Tick
  \/ \E p \in Process : Crash(p) \/ \E i \in Id : ReserveInvoice(p, i)
  \/ \E i \in Id :
       \/ RecordReceiveRequest(i)
       \/ FailCreation(i)
       \/ FinishInvoiceAdmission(i)
       \/ Cancel(i)

Spec == Init /\ [][Next]_vars
-----------------------------------------------------------------------------
(***************************************************************************)
(* Rows, calls and times are what the code can put there.                  *)
(***************************************************************************)
TypeOK ==
  /\ now \in Nat
  /\ row \in [Id -> [status : {"absent", "open", "finished"}, created : Nat]]
  /\ call \in [Id -> [pc : {"none", "issuing", "finishing", "over"},
                       process : Process \cup {NoProcess}]]
  /\ issued \in [Id -> Nat \cup {Never}]
  /\ admitted \in [Id -> Nat \cup {Never}]

(***************************************************************************)
(* No more than ActiveLimit requests are on their way to Strike, over all  *)
(* processes, with reservations running out, cancelled calls and crashes.  *)
(***************************************************************************)
ActiveBound == Cardinality(Running) <= ActiveLimit

AdmittedBy(t) ==
  {i \in Id : admitted[i] # Never /\ admitted[i] > t - Window /\ admitted[i] <= t}

(***************************************************************************)
(* In any Window seconds no more than RecentLimit reservations are made,   *)
(* although rows are deleted.                                              *)
(***************************************************************************)
RateBound ==
  \A t \in 0..now : Cardinality(AdmittedBy(t)) <= RecentLimit

(***************************************************************************)
(* In any Day seconds no more than DayLimit requests are recorded, those   *)
(* included that were on their way when the last one was admitted.         *)
(***************************************************************************)
DayBound == Cardinality(IssuedSince(now - Day)) <= DayLimit
=============================================================================
