--------------------------- MODULE Messages_proofs ---------------------------
(***************************************************************************)
(* Proofs about what the project tells the public, for any number of       *)
(* daemons, pages and requests, any log and any clock: the message outbox, *)
(* the overlay stream, and the weather that the informational worker       *)
(* shows.                                                                  *)
(*                                                                         *)
(* Outbox.  An event has one message on the relays, the messages are in    *)
(* the order of the events, and none is lost.  The inductive invariant     *)
(* says what each task may still believe of a database that other daemons  *)
(* have moved since it read: a processor is at most one event ahead of the *)
(* cursor, and everything before a publisher's message is sent.            *)
(***************************************************************************)
EXTENDS Outbox, Overlay, Informational, SumLemmas, SequenceTheorems

-----------------------------------------------------------------------------
\* The cursor is within the log; every table and task has its rows.
Columns ==
  /\ cursor \in Nat /\ events \in Nat /\ cursor <= events /\ events <= Len(EventOf)
  /\ outbox = [s \in Seqs |-> outbox[s]]
  /\ mode = [d \in Daemon |-> mode[d]]
  /\ processor = [d \in Daemon |-> processor[d]]
  /\ publisher = [d \in Daemon |-> publisher[d]]

\* A genuine signature of what event s says.
Says(event, s) == event.genuine /\ event.id.content = Content(s)

\* A row is a genuine message of its own event, behind the cursor.
Rows ==
  /\ \A s \in Stored :
       /\ outbox[s] = Row(outbox[s].event, outbox[s].status)
       /\ outbox[s].status \in {"pending", "failed", "published"}
       /\ Says(outbox[s].event, s)
       /\ s <= cursor
  /\ \A s, t \in Stored : outbox[s].event.id = outbox[t].event.id => s = t

\* The cursor passes a public event with its row, or is moved by a quiet daemon.
Passed == muted \subseteq 1..cursor /\ NothingLost

\* A processor works on the event after the cursor, or on one passed since.
Processing(d) ==
  LET p == processor[d] IN
  /\ p.pc \in {"advance", "sign", "enqueue"} => p.seq \in 1..events /\ p.seq <= cursor + 1
  /\ p.pc = "advance" => Quiet(d) \/ p.seq \notin Public
  /\ p.pc = "enqueue" => Says(p.event, p.seq)

\* Everything before s is sent.
Clear(s) == \A t \in Stored : t < s => outbox[t].status = "published"

\* A publisher sends the oldest message, and reports what the relays took.
Publishing(d) ==
  LET p == publisher[d] IN
  /\ p.pc \in {"publish", "published", "failed"} => p.seq \in Stored
  /\ p.pc = "publish" => p.event = outbox[p.seq].event /\ Clear(p.seq)
  /\ p.pc = "published" => outbox[p.seq].event \in ToSet(relay)

\* The relays have messages of the outbox, and of none before all older ones.
Relayed ==
  /\ relay \in Seq({outbox[s].event : s \in Stored})
  /\ \A s \in Stored : outbox[s].event \in ToSet(relay) => Clear(s)
  /\ PostedInOrder

Processors == \A d \in Daemon : Processing(d)
Publishers == \A d \in Daemon : Publishing(d)

\* The inductive invariant.
OutboxInv == Columns /\ Rows /\ Passed /\ Processors /\ Publishers /\ Relayed

-----------------------------------------------------------------------------
\* A text with values is not the empty one.
LEMMA TextIsNotEmpty ==
  ASSUME NEW template, NEW values
  PROVE  SafeSubstitute(template, values) # NoText
<1>1. DOMAIN NoText = {"template"}
  BY DEF NoText
<1>2. "values" \in DOMAIN SafeSubstitute(template, values)
  BY DEF SafeSubstitute
<1>. QED
  BY <1>1, <1>2

\* An event with two sides that can be rendered says something on Nostr.
LEMMA BothSidesSpeak ==
  ASSUME NEW category, NEW template, NEW values, NEW goat,
         BothSides(category, template, values, goat).ok
  PROVE  BothSides(category, template, values, goat).nostr # NoText
<1>1. Unrenderable.ok = FALSE
  BY DEF Unrenderable, Nothing
<1>2. Fields(template) \subseteq DOMAIN values
  BY <1>1 DEF BothSides
<1>3. PICK text : text = SafeSubstitute(template, [values EXCEPT !.goat_name = <<"profile", goat>>])
  OBVIOUS
<1>4. BothSides(category, template, values, goat).nostr = text
  BY <1>2, <1>3 DEF BothSides, Nothing
<1>. QED
  BY <1>3, <1>4, TextIsNotEmpty

\* render_event: a public event that can be rendered has a text for Nostr.
LEMMA PublicSpeaks ==
  ASSUME NEW s \in Public, Rendering[s].ok
  PROVE  Rendering[s].nostr # NoText
<1>1. s \in Seqs /\ Rendering[s] = Render(EventOf[s])
  BY DEF Public, Rendering
<1>2. Unrenderable.ok = FALSE
  BY DEF Unrenderable, Nothing
<1>3. CASE EventOf[s].type = "payment_received"
  <2>1. Render(EventOf[s]) = RenderPayment(EventOf[s])
    BY <1>3 DEF Render
  <2>2. \E c, v, g, t : RenderPayment(EventOf[s]) = BothSides(c, t, v, g)
    BY <1>1, <1>2, <2>1 DEF RenderPayment
  <2>. QED
    BY <1>1, <2>1, <2>2, BothSidesSpeak
<1>4. CASE EventOf[s].type = "feeder_confirmed"
  <2>1. Render(EventOf[s]) = RenderFeeder(EventOf[s])
    BY <1>4 DEF Render
  <2>2. \E c, v, g, t : RenderFeeder(EventOf[s]) = BothSides(c, t, v, g)
    BY <1>1, <1>2, <2>1 DEF RenderFeeder
  <2>. QED
    BY <1>1, <2>1, <2>2, BothSidesSpeak
<1>. QED
  BY <1>3, <1>4 DEF Public

\* validate_signed_event: what is accepted as a signature of a text says it.
LEMMA AcceptedSays ==
  ASSUME NEW s, NEW at, NEW identity,
         NEW signed \in SignatureOf(Content(s), at, identity), NEW event \in signed
  PROVE  Says(event, s)
BY DEF SignatureOf, Accepts, VerifyEvent, Says

\* The oldest unsent message.
LEMMA OldestUnsent ==
  ASSUME Unsent # {}
  PROVE  Min(Unsent) \in Unsent /\ \A t \in Unsent : Min(Unsent) <= t
<1>1. Unsent \subseteq Nat
  BY OutboxAssumption DEF Unsent, Seqs
<1>2. \E x \in Unsent : \A y \in Unsent : x <= y
  BY <1>1, LeastNatural
<1>. QED
  BY <1>2 DEF Min

-----------------------------------------------------------------------------
\* The initial state.
LEMMA OutboxInvInit == Init => OutboxInv
<1>. SUFFICES ASSUME Init PROVE OutboxInv
  OBVIOUS
<1>1. Stored = {} /\ ToSet(relay) = {} /\ relay = <<>>
  BY DEF Init, Stored, ToSet
<1>2. Columns
  BY OutboxAssumption DEF Init, Columns
<1>3. Rows /\ Relayed
  BY <1>1 DEF Rows, Relayed, PostedInOrder
<1>4. Passed
  BY DEF Init, Passed, NothingLost
<1>5. Processors /\ Publishers
  BY DEF Init, Processors, Processing, Publishers, Publishing, Off
<1>. QED
  BY <1>2, <1>3, <1>4, <1>5 DEF OutboxInv

\* What the invariant's parts depend on.
LEMMA RowsStay == ASSUME Rows, UNCHANGED <<cursor, outbox>> PROVE Rows'
BY DEF Rows, Stored, Says, Row, None

LEMMA PassedStay == ASSUME Passed, UNCHANGED <<cursor, outbox, muted>> PROVE Passed'
BY DEF Passed, NothingLost, Stored

LEMMA RelayedStay == ASSUME Relayed, UNCHANGED <<outbox, relay>> PROVE Relayed'
BY DEF Relayed, PostedInOrder, Posted, Clear, Stored

\* What a processor believes, it may believe when the cursor has moved on.
LEMMA ProcessorStays ==
  ASSUME NEW d, Processing(d), cursor \in Nat, cursor' \in Nat, cursor <= cursor',
         events \in Nat, events' \in Nat, events <= events',
         processor'[d] = processor[d], mode'[d] = mode[d]
  PROVE  Processing(d)'
<1>1. PICK p : p = processor[d] /\ p = processor'[d]
  OBVIOUS
<1>2. p.pc \in {"advance", "sign", "enqueue"} => p.seq \in 1..events' /\ p.seq <= cursor' + 1
  BY <1>1 DEF Processing
<1>3. p.pc = "advance" => Quiet(d)' \/ p.seq \notin Public
  BY <1>1 DEF Processing, Quiet
<1>4. p.pc = "enqueue" => Says(p.event, p.seq)
  BY <1>1 DEF Processing
<1>. QED
  BY <1>1, <1>2, <1>3, <1>4 DEF Processing

\* What a publisher believes, it may believe while rows keep their events,
\* sent rows stay sent, and new rows are for later events.
LEMMA PublisherStays ==
  ASSUME NEW d, Publishing(d), publisher'[d] = publisher[d],
         Stored \subseteq Stored',
         \A s \in Stored : outbox'[s].event = outbox[s].event,
         \A s \in Stored : outbox[s].status = "published" => outbox'[s].status = "published",
         \A s \in Stored : \A t \in Stored' \ Stored : ~(t < s),
         ToSet(relay) \subseteq ToSet(relay')
  PROVE  Publishing(d)'
<1>1. PICK p : p = publisher[d] /\ p = publisher'[d]
  OBVIOUS
<1>2. p.pc \in {"publish", "published", "failed"} => p.seq \in Stored
  BY <1>1 DEF Publishing
<1>3. p.pc = "publish" => p.event = outbox'[p.seq].event /\ Clear(p.seq)'
  <2>. SUFFICES ASSUME p.pc = "publish" PROVE p.event = outbox'[p.seq].event /\ Clear(p.seq)'
    OBVIOUS
  <2>1. p.seq \in Stored /\ p.event = outbox[p.seq].event /\ Clear(p.seq)
    BY <1>1, <1>2 DEF Publishing
  <2>2. PICK s : s = p.seq
    OBVIOUS
  <2>3. Clear(s)'
    BY <2>1, <2>2 DEF Clear
  <2>. QED
    BY <2>1, <2>2, <2>3
<1>4. p.pc = "published" => outbox'[p.seq].event \in ToSet(relay')
  BY <1>1, <1>2 DEF Publishing
<1>. QED
  BY <1>1, <1>2, <1>3, <1>4 DEF Publishing

\* A step that changes neither table, nor the relays, nor the modes.
LEMMA OnlyTasksMove ==
  ASSUME OutboxInv, UNCHANGED <<durable, relay>>,
         processor' = [d \in Daemon |-> processor'[d]],
         publisher' = [d \in Daemon |-> publisher'[d]],
         mode' = [d \in Daemon |-> mode'[d]],
         \A d \in Daemon : Processing(d)' /\ Publishing(d)'
  PROVE  OutboxInv'
<1>1. Columns'
  BY DEF OutboxInv, Columns, durable
<1>2. Rows' /\ Passed' /\ Relayed'
  BY RowsStay, PassedStay, RelayedStay DEF OutboxInv, durable
<1>. QED
  BY <1>1, <1>2 DEF OutboxInv, Processors, Publishers

\* The same for every daemon that does not move.
LEMMA OthersStay ==
  ASSUME OutboxInv, UNCHANGED <<durable, relay>>, NEW d \in Daemon,
         processor'[d] = processor[d], mode'[d] = mode[d]
  PROVE  Processing(d)'
<1>1. cursor \in Nat /\ events \in Nat /\ cursor' = cursor /\ events' = events
  BY DEF OutboxInv, Columns, durable
<1>2. Processing(d)
  BY DEF OutboxInv, Processors
<1>. QED
  BY <1>1, <1>2, ProcessorStays

LEMMA OtherPublishersStay ==
  ASSUME OutboxInv, UNCHANGED <<durable, relay>>, NEW d \in Daemon,
         publisher'[d] = publisher[d]
  PROVE  Publishing(d)'
<1>1. Publishing(d) /\ outbox' = outbox /\ relay' = relay /\ Stored' = Stored
  BY DEF OutboxInv, Publishers, durable, Stored
<1>. QED
  BY <1>1, PublisherStays

-----------------------------------------------------------------------------
\* The log grows.
LEMMA AppendKeeps ==
  ASSUME OutboxInv, AppendEvent PROVE OutboxInv'
<1>1. cursor \in Nat /\ events \in Nat /\ events < Len(EventOf) /\ events' = events + 1
  BY DEF OutboxInv, Columns, AppendEvent
<1>2. UNCHANGED <<cursor, outbox, muted, relay, mode, processor, publisher>>
  BY DEF AppendEvent
<1>3. Columns'
  BY <1>1, <1>2, OutboxAssumption DEF OutboxInv, Columns
<1>4. Rows' /\ Passed' /\ Relayed'
  BY <1>2, RowsStay, PassedStay, RelayedStay DEF OutboxInv
<1>5. ASSUME NEW d \in Daemon PROVE Processing(d)'
  <2>1. Processing(d)
    BY DEF OutboxInv, Processors
  <2>. QED
    BY <1>1, <1>2, <2>1, ProcessorStays
<1>6. ASSUME NEW d \in Daemon PROVE Publishing(d)'
  <2>1. Publishing(d) /\ Stored' = Stored
    BY <1>2 DEF OutboxInv, Publishers, Stored
  <2>. QED
    BY <1>2, <2>1, PublisherStays
<1>. QED
  BY <1>3, <1>4, <1>5, <1>6 DEF OutboxInv, Processors, Publishers

\* Daemons start and end.
LEMMA StartHaltKeep ==
  ASSUME OutboxInv, NEW d \in Daemon, Start(d) \/ Halt(d) PROVE OutboxInv'
<1>1. /\ UNCHANGED <<durable, relay>>
      /\ processor'[d] \in {Off, Idle} /\ publisher'[d] \in {Off, Idle}
      /\ processor' = [e \in Daemon |-> processor'[e]]
      /\ publisher' = [e \in Daemon |-> publisher'[e]]
      /\ mode' = [e \in Daemon |-> mode'[e]]
  BY DEF OutboxInv, Columns, Start, Halt, Processor, Publisher, durable
<1>2. \A e \in Daemon : e # d => /\ processor'[e] = processor[e]
                                 /\ publisher'[e] = publisher[e]
                                 /\ mode'[e] = mode[e]
  BY DEF OutboxInv, Columns, Start, Halt, Processor, Publisher
<1>3. Processing(d)' /\ Publishing(d)'
  BY <1>1 DEF Processing, Publishing, Off, Idle
<1>4. ASSUME NEW e \in Daemon, e # d PROVE Processing(e)' /\ Publishing(e)'
  BY <1>1, <1>2, <1>4, OthersStay, OtherPublishersStay
<1>. QED
  BY <1>1, <1>3, <1>4, OnlyTasksMove

\* A step of one processor that changes nothing else.
LEMMA ProcessorMoves ==
  ASSUME OutboxInv, NEW d \in Daemon, NEW next, OnlyProcessor(d, next),
         next.pc \in {"advance", "sign", "enqueue"} =>
            next.seq \in 1..events /\ next.seq <= cursor + 1,
         next.pc = "advance" => Quiet(d) \/ next.seq \notin Public,
         next.pc = "enqueue" => Says(next.event, next.seq)
  PROVE  OutboxInv'
<1>1. /\ UNCHANGED <<durable, relay, mode, publisher>>
      /\ processor' = [e \in Daemon |-> processor'[e]]
      /\ processor'[d] = next
      /\ mode = [e \in Daemon |-> mode[e]]
      /\ publisher = [e \in Daemon |-> publisher[e]]
  BY DEF OutboxInv, Columns, OnlyProcessor, Processor, durable
<1>2. \A e \in Daemon : e # d => processor'[e] = processor[e]
  BY DEF OutboxInv, Columns, OnlyProcessor, Processor
<1>3. Processing(d)'
  BY <1>1 DEF Processing, Quiet, durable
<1>4. ASSUME NEW e \in Daemon PROVE Processing(e)' /\ Publishing(e)'
  BY <1>1, <1>2, <1>3, OthersStay, OtherPublishersStay
<1>. QED
  BY <1>1, <1>4, OnlyTasksMove

\* process_next_message takes the event after the cursor.
LEMMA TakeKeeps ==
  ASSUME OutboxInv, NEW d \in Daemon, TakeEvent(d) PROVE OutboxInv'
<1>1. cursor \in Nat /\ events \in Nat /\ cursor < events /\ events <= Len(EventOf)
      /\ Len(EventOf) \in Nat
  BY OutboxAssumption DEF OutboxInv, Columns, TakeEvent
<1>2. PICK pc : pc = IF Quiet(d) \/ Rendering[cursor + 1].nostr = NoText
                     THEN "advance" ELSE "sign"
  OBVIOUS
<1>3. PICK next : next = At(pc, cursor + 1)
  OBVIOUS
<1>4. OnlyProcessor(d, next)
  BY <1>2, <1>3 DEF TakeEvent
<1>5. next.pc = pc /\ next.seq = cursor + 1
  BY <1>3 DEF At
<1>6. next.seq \in 1..events /\ next.seq <= cursor + 1
  BY <1>1, <1>5
<1>7. next.pc = "advance" => Quiet(d) \/ next.seq \notin Public
  BY <1>2, <1>5, PublicSpeaks DEF TakeEvent
<1>8. next.pc # "enqueue"
  BY <1>2, <1>5
<1>. QED
  BY <1>4, <1>6, <1>7, <1>8, ProcessorMoves

\* sign_kind1.
LEMMA SignKeeps ==
  ASSUME OutboxInv, NEW d \in Daemon, SignKind1(d) PROVE OutboxInv'
<1>1. PICK s : s = processor[d].seq
  OBVIOUS
<1>2. PICK at \in Second : \E signed \in SignatureOf(Content(s), at, mode[d]) :
       \/ signed = {} /\ Processor(d, Idle)
       \/ \E event \in signed : Processor(d, With("enqueue", s, event))
  BY <1>1 DEF SignKind1
<1>3. PICK signed \in SignatureOf(Content(s), at, mode[d]) :
       \/ signed = {} /\ Processor(d, Idle)
       \/ \E event \in signed : Processor(d, With("enqueue", s, event))
  BY <1>2
<1>4. UNCHANGED <<durable, relay, mode, publisher>> /\ processor[d].pc = "sign"
  BY DEF SignKind1
<1>5. CASE Processor(d, Idle)
  <2>1. OnlyProcessor(d, Idle) /\ Idle.pc = "idle"
    BY <1>4, <1>5 DEF OnlyProcessor, Idle
  <2>. QED
    BY <2>1, ProcessorMoves
<1>6. ASSUME NEW event \in signed, Processor(d, With("enqueue", s, event)) PROVE OutboxInv'
  <2>1. s \in 1..events /\ s <= cursor + 1
    BY <1>1, <1>4 DEF OutboxInv, Processors, Processing
  <2>2. Says(event, s)
    BY <1>3, AcceptedSays
  <2>3. PICK next : next = With("enqueue", s, event)
    OBVIOUS
  <2>4. next.pc = "enqueue" /\ next.seq = s /\ next.event = event
    BY <2>3 DEF With
  <2>5. OnlyProcessor(d, next)
    BY <1>4, <1>6, <2>3 DEF OnlyProcessor
  <2>. QED
    BY <2>1, <2>2, <2>4, <2>5, ProcessorMoves
<1>. QED
  BY <1>3, <1>5, <1>6

LEMMA ErrorKeeps ==
  ASSUME OutboxInv, NEW d \in Daemon, ProcessorError(d) PROVE OutboxInv'
<1>1. OnlyProcessor(d, Idle) /\ Idle.pc = "idle"
  BY DEF ProcessorError, Idle
<1>. QED
  BY <1>1, ProcessorMoves

-----------------------------------------------------------------------------
\* advance_message_cursor.
LEMMA AdvanceKeeps ==
  ASSUME OutboxInv, NEW d \in Daemon, AdvanceMessageCursor(d) PROVE OutboxInv'
<1>1. PICK s : s = processor[d].seq
  OBVIOUS
<1>2. /\ UNCHANGED <<events, outbox, relay, mode, publisher>>
      /\ processor[d].pc = "advance" /\ Processor(d, Idle)
  BY DEF AdvanceMessageCursor
<1>3. s \in 1..events /\ s <= cursor + 1 /\ (Quiet(d) \/ s \notin Public)
  BY <1>1, <1>2 DEF OutboxInv, Processors, Processing
<1>4. /\ cursor \in Nat /\ events \in Nat /\ cursor <= events /\ events <= Len(EventOf)
      /\ outbox = [t \in Seqs |-> outbox[t]]
      /\ mode = [e \in Daemon |-> mode[e]]
      /\ processor = [e \in Daemon |-> processor[e]]
      /\ publisher = [e \in Daemon |-> publisher[e]]
  BY DEF OutboxInv, Columns
<1>5. \/ UNCHANGED <<cursor, muted>>
      \/ /\ s = cursor + 1 /\ cursor' = s
         /\ muted' = muted \cup (IF Quiet(d) THEN {s} ELSE {})
  BY <1>1, <1>3, <1>4 DEF AdvanceMessageCursor
<1>6. cursor' \in Nat /\ cursor <= cursor' /\ cursor' <= events
  BY <1>3, <1>4, <1>5
<1>7. processor' = [e \in Daemon |-> processor'[e]] /\ processor'[d] = Idle
  BY <1>2, <1>4 DEF Processor
<1>8. Columns'
  BY <1>2, <1>4, <1>6, <1>7 DEF Columns
<1>9. Stored' = Stored
  BY <1>2 DEF Stored
<1>10. Rows'
  <2>1. \A t \in Stored : t \in Nat /\ t <= cursor'
    BY <1>4, <1>6, OutboxAssumption DEF OutboxInv, Rows, Stored, Seqs
  <2>. QED
    BY <1>2, <1>9, <2>1 DEF OutboxInv, Rows
<1>11. Passed'
  <2>1. CASE UNCHANGED <<cursor, muted>>
    BY <1>2, <2>1, PassedStay DEF OutboxInv
  <2>2. CASE /\ s = cursor + 1 /\ cursor' = s
             /\ muted' = muted \cup (IF Quiet(d) THEN {s} ELSE {})
    <3>1. muted \subseteq 1..cursor
      BY DEF OutboxInv, Passed
    <3>2. s \notin Stored
      BY <1>4, <2>2 DEF OutboxInv, Rows
    <3>3. s \notin muted
      BY <1>4, <2>2, <3>1
    <3>4. \A t \in 1..cursor' : t = s \/ t \in 1..cursor
      BY <1>4, <2>2
    <3>5. muted' \subseteq 1..cursor'
      BY <1>4, <2>2, <3>1
    <3>6. s \in Public => (s \in Stored <=> s \notin muted')
      BY <1>3, <2>2, <3>2
    <3>7. \A t \in 1..cursor : t \in Public => (t \in Stored <=> t \notin muted)
      BY DEF OutboxInv, Passed, NothingLost
    <3>8. \A t \in 1..cursor : t # s /\ (t \in muted' <=> t \in muted)
      BY <1>4, <2>2
    <3>9. NothingLost'
      BY <1>9, <3>4, <3>6, <3>7, <3>8 DEF NothingLost
    <3>. QED
      BY <3>5, <3>9 DEF Passed
  <2>. QED
    BY <1>5, <2>1, <2>2
<1>12. Relayed'
  BY <1>2, RelayedStay DEF OutboxInv
<1>13. ASSUME NEW e \in Daemon PROVE Processing(e)'
  <2>1. CASE e = d
    BY <1>7, <2>1 DEF Processing, Idle
  <2>2. CASE e # d
    <3>1. processor'[e] = processor[e] /\ mode'[e] = mode[e] /\ Processing(e)
      BY <1>2, <1>4, <2>2 DEF OutboxInv, Processors, Processor
    <3>2. events \in Nat /\ events' \in Nat /\ events <= events' /\ cursor \in Nat
      BY <1>2, <1>4
    <3>. QED
      BY <1>6, <3>1, <3>2, ProcessorStays
  <2>. QED
    BY <2>1, <2>2
<1>14. ASSUME NEW e \in Daemon PROVE Publishing(e)'
  <2>1. Publishing(e)
    BY DEF OutboxInv, Publishers
  <2>. QED
    BY <1>2, <1>9, <2>1, PublisherStays
<1>. QED
  BY <1>8, <1>10, <1>11, <1>12, <1>13, <1>14 DEF OutboxInv, Processors, Publishers

\* enqueue_signed_message: the row is of the event after the cursor, which
\* no row was for, and its id is new.
LEMMA EnqueueKeeps ==
  ASSUME OutboxInv, NEW d \in Daemon, EnqueueSignedMessage(d) PROVE OutboxInv'
<1>1. PICK s, event : s = processor[d].seq /\ event = processor[d].event
  OBVIOUS
<1>2. /\ UNCHANGED <<events, muted, relay, mode, publisher>>
      /\ processor[d].pc = "enqueue" /\ Processor(d, Idle)
  BY DEF EnqueueSignedMessage
<1>3. s \in 1..events /\ s <= cursor + 1 /\ Says(event, s)
  BY <1>1, <1>2 DEF OutboxInv, Processors, Processing
<1>4. /\ cursor \in Nat /\ events \in Nat /\ cursor <= events /\ events <= Len(EventOf)
      /\ outbox = [t \in Seqs |-> outbox[t]]
      /\ mode = [e \in Daemon |-> mode[e]]
      /\ processor = [e \in Daemon |-> processor[e]]
      /\ publisher = [e \in Daemon |-> publisher[e]]
  BY DEF OutboxInv, Columns
<1>5. processor' = [e \in Daemon |-> processor'[e]] /\ processor'[d] = Idle
  BY <1>2, <1>4 DEF Processor
<1>6. CASE UNCHANGED <<outbox, cursor>>
  <2>1. OnlyProcessor(d, Idle) /\ Idle.pc = "idle"
    BY <1>2, <1>6 DEF OnlyProcessor, Idle, durable
  <2>. QED
    BY <2>1, ProcessorMoves
<1>7. CASE /\ s > cursor /\ IsFresh(event)
           /\ outbox' = [outbox EXCEPT ![s] = Row(event, "pending")]
           /\ cursor' = s
  <2>1. s = cursor + 1 /\ s \in Seqs
    BY <1>3, <1>4, <1>7, OutboxAssumption DEF Seqs
  <2>2. \A t \in Stored : t \in Seqs /\ t \in Nat /\ t < s
    BY <1>4, <2>1, OutboxAssumption DEF OutboxInv, Rows, Stored, Seqs
  <2>3. \A t \in Seqs : t # s => outbox'[t] = outbox[t]
    BY <1>4, <1>7
  <2>4. outbox'[s] = Row(event, "pending")
    BY <1>4, <1>7, <2>1
  <2>5. outbox' = [t \in Seqs |-> outbox'[t]]
    BY <1>4, <1>7
  <2>6. outbox'[s].event = event /\ outbox'[s].status = "pending" /\ outbox'[s] # None
    BY <2>4 DEF Row, None
  <2>7. s \notin Stored
    BY <2>2, <2>1, <1>4
  <2>8. Stored' = Stored \cup {s}
    BY <2>1, <2>2, <2>3, <2>6, <2>7 DEF Stored
  <2>9. \A t \in Stored : t # s /\ outbox'[t] = outbox[t]
    BY <2>2, <2>3, <2>7
  <2>10. Columns'
    BY <1>2, <1>3, <1>4, <1>5, <1>7, <2>1, <2>5 DEF Columns
  <2>11. Rows'
    <3>1. \A t \in Stored' :
             /\ outbox'[t] = Row(outbox'[t].event, outbox'[t].status)
             /\ outbox'[t].status \in {"pending", "failed", "published"}
             /\ Says(outbox'[t].event, t)
      BY <1>3, <2>4, <2>6, <2>8, <2>9 DEF OutboxInv, Rows
    <3>2. \A t \in Stored' : t <= cursor'
      BY <1>4, <1>7, <2>1, <2>2, <2>8
    <3>3. \A t \in Stored : outbox'[t].event.id # event.id
      BY <1>7, <2>9 DEF IsFresh
    <3>4. \A t, u \in Stored : outbox'[t].event.id = outbox'[u].event.id => t = u
      BY <2>9 DEF OutboxInv, Rows
    <3>5. \A t, u \in Stored' : outbox'[t].event.id = outbox'[u].event.id => t = u
      BY <2>6, <2>8, <3>3, <3>4
    <3>. QED
      BY <3>1, <3>2, <3>5 DEF Rows
  <2>12. Passed'
    <3>1. muted' = muted /\ muted \subseteq 1..cursor
      BY <1>2 DEF OutboxInv, Passed
    <3>2. s \notin muted /\ muted \subseteq 1..cursor'
      BY <1>4, <1>7, <2>1, <3>1
    <3>3. \A t \in 1..cursor' : t = s \/ (t \in 1..cursor /\ t # s)
      BY <1>4, <1>7, <2>1
    <3>4. \A t \in 1..cursor : t \in Public => (t \in Stored <=> t \notin muted)
      BY DEF OutboxInv, Passed, NothingLost
    <3>. QED
      BY <2>8, <3>1, <3>2, <3>3, <3>4 DEF Passed, NothingLost
  <2>13. ASSUME NEW t \in Stored, Clear(t) PROVE Clear(t)'
    <3>1. ~(s < t)
      BY <1>4, <2>1, <2>2
    <3>. QED
      BY <2>8, <2>9, <2>13, <3>1 DEF Clear
  <2>14. relay' = relay
    BY <1>2
  <2>15. event \notin ToSet(relay)
    <3>1. \A i \in DOMAIN relay : \E t \in Stored : relay[i] = outbox[t].event
      BY DEF OutboxInv, Relayed
    <3>. QED
      BY <1>7, <3>1 DEF IsFresh, ToSet
  <2>16. Relayed'
    <3>1. PICK old, new : /\ old = {outbox[t].event : t \in Stored}
                          /\ new = {outbox'[t].event : t \in Stored'}
      OBVIOUS
    <3>2. relay' \in Seq({outbox'[t].event : t \in Stored'})
      <4>1. old \subseteq new
        BY <2>8, <2>9, <3>1
      <4>2. relay \in Seq(old)
        BY <3>1 DEF OutboxInv, Relayed
      <4>3. relay \in Seq(new)
        BY <4>1, <4>2
      <4>. QED
        BY <2>14, <3>1, <4>3
    <3>3. \A t \in Stored' : outbox'[t].event \in ToSet(relay') => Clear(t)'
      BY <2>6, <2>8, <2>9, <2>13, <2>14, <2>15 DEF OutboxInv, Relayed
    <3>4. \A t \in Stored' : outbox'[t].status = "published" => Posted(t)'
      BY <2>6, <2>8, <2>9, <2>14 DEF OutboxInv, Relayed, PostedInOrder, Posted
    <3>5. \A i \in DOMAIN relay : relay[i] # outbox'[s].event
      BY <2>6, <2>15 DEF ToSet
    <3>6. \A i, j \in DOMAIN relay' : i < j =>
            \A t, u \in Stored' :
              outbox'[t].event = relay'[i] /\ outbox'[u].event = relay'[j] => t < u
      BY <2>8, <2>9, <2>14, <3>5 DEF OutboxInv, Relayed, PostedInOrder
    <3>. QED
      BY <3>2, <3>3, <3>4, <3>6 DEF Relayed, PostedInOrder
  <2>17. ASSUME NEW e \in Daemon PROVE Processing(e)'
    <3>1. CASE e = d
      BY <1>5, <3>1 DEF Processing, Idle
    <3>2. CASE e # d
      <4>1. processor'[e] = processor[e] /\ mode'[e] = mode[e] /\ Processing(e)
        BY <1>2, <1>4, <3>2 DEF OutboxInv, Processors, Processor
      <4>2. cursor \in Nat /\ cursor' \in Nat /\ cursor <= cursor'
        BY <1>4, <1>7, <2>1
      <4>3. events \in Nat /\ events' \in Nat /\ events <= events'
        BY <1>2, <1>4
      <4>. QED
        BY <4>1, <4>2, <4>3, ProcessorStays
    <3>. QED
      BY <3>1, <3>2
  <2>18. ASSUME NEW e \in Daemon PROVE Publishing(e)'
    <3>1. Publishing(e) /\ publisher'[e] = publisher[e]
      BY <1>2 DEF OutboxInv, Publishers
    <3>2. \A t \in Stored : \A u \in Stored' \ Stored : ~(u < t)
      BY <1>4, <2>1, <2>2, <2>8
    <3>. QED
      BY <2>8, <2>9, <2>14, <3>1, <3>2, PublisherStays
  <2>. QED
    BY <2>10, <2>11, <2>12, <2>16, <2>17, <2>18 DEF OutboxInv, Processors, Publishers
<1>. QED
  BY <1>1, <1>6, <1>7 DEF EnqueueSignedMessage

-----------------------------------------------------------------------------
\* next_outbox_entry: all that is before the oldest unsent message is sent.
LEMMA NextEntryKeeps ==
  ASSUME OutboxInv, NEW d \in Daemon, NextOutboxEntry(d) PROVE OutboxInv'
<1>1. PICK s : s = Min(Unsent)
  OBVIOUS
<1>2. PICK next : next = With("publish", s, outbox[s].event)
  OBVIOUS
<1>3. OnlyPublisher(d, next) /\ Unsent # {}
  BY <1>1, <1>2 DEF NextOutboxEntry
<1>4. next.pc = "publish" /\ next.seq = s /\ next.event = outbox[s].event
  BY <1>2 DEF With
<1>5. s \in Unsent /\ \A t \in Unsent : s <= t
  BY <1>1, <1>3, OldestUnsent
<1>6. \A t \in Stored : t \in Seqs /\ outbox[t].status \in {"pending", "failed", "published"}
  BY DEF OutboxInv, Rows, Stored
<1>7. s \in Stored /\ s \in Nat
  BY <1>5, OutboxAssumption DEF Unsent, Stored, None, Row, Seqs
<1>8. Clear(s)
  <2>. SUFFICES ASSUME NEW t \in Stored, t < s PROVE outbox[t].status = "published"
    BY DEF Clear
  <2>1. t \in Nat /\ ~(s <= t)
    BY <1>6, <1>7, OutboxAssumption DEF Seqs
  <2>. QED
    BY <1>5, <1>6, <2>1 DEF Unsent
<1>9. /\ UNCHANGED <<durable, relay, mode, processor>>
      /\ publisher' = [e \in Daemon |-> publisher'[e]]
      /\ publisher'[d] = next
      /\ mode = [e \in Daemon |-> mode[e]]
      /\ processor = [e \in Daemon |-> processor[e]]
      /\ \A e \in Daemon : e # d => publisher'[e] = publisher[e]
  BY <1>3 DEF OutboxInv, Columns, OnlyPublisher, Publisher
<1>10. Publishing(d)'
  <2>1. outbox' = outbox /\ Stored' = Stored
    BY <1>9 DEF durable, Stored
  <2>2. Clear(s)'
    BY <1>8, <2>1 DEF Clear
  <2>. QED
    BY <1>4, <1>7, <1>9, <2>1, <2>2 DEF Publishing
<1>11. ASSUME NEW e \in Daemon PROVE Processing(e)' /\ Publishing(e)'
  BY <1>9, <1>10, OthersStay, OtherPublishersStay
<1>. QED
  BY <1>9, <1>11, OnlyTasksMove

\* A step of one publisher that at most appends its own message to what the
\* relays have.
LEMMA PublisherMoves ==
  ASSUME OutboxInv, NEW d \in Daemon, NEW next, Publisher(d, next),
         UNCHANGED <<durable, mode, processor>>,
         NEW s \in Stored, Clear(s),
         relay' = relay \/ (outbox[s].event \notin ToSet(relay)
                              /\ relay' = Append(relay, outbox[s].event)),
         next.pc \in {"published", "failed"}, next.seq = s,
         next.pc = "published" => outbox[s].event \in ToSet(relay')
  PROVE  OutboxInv'
<1>1. /\ publisher' = [e \in Daemon |-> publisher'[e]]
      /\ publisher'[d] = next
      /\ \A e \in Daemon : e # d => publisher'[e] = publisher[e]
  BY DEF OutboxInv, Columns, Publisher
<1>2. /\ events' = events /\ cursor' = cursor /\ outbox' = outbox /\ muted' = muted
      /\ Stored' = Stored
  BY DEF durable, Stored
<1>3. Columns'
  BY <1>1, <1>2 DEF OutboxInv, Columns
<1>4. Rows' /\ Passed'
  BY <1>2, RowsStay, PassedStay DEF OutboxInv
<1>5. PICK E : E = {outbox[t].event : t \in Stored}
  OBVIOUS
<1>6. relay \in Seq(E) /\ outbox[s].event \in E
  BY <1>5 DEF OutboxInv, Relayed
<1>7. relay' \in Seq(E)
  BY <1>6
<1>8. /\ \A i \in DOMAIN relay : i \in DOMAIN relay' /\ relay'[i] = relay[i]
      /\ \A i \in DOMAIN relay' \ DOMAIN relay : relay'[i] = outbox[s].event
      /\ \A i \in DOMAIN relay, j \in DOMAIN relay' \ DOMAIN relay : i < j
      /\ \A i, j \in DOMAIN relay' \ DOMAIN relay : i = j
      /\ DOMAIN relay' \subseteq Nat
      /\ DOMAIN relay' # DOMAIN relay => outbox[s].event \notin ToSet(relay)
  BY <1>6
<1>9. ToSet(relay) \subseteq ToSet(relay') /\ ToSet(relay') \subseteq ToSet(relay) \cup {outbox[s].event}
  BY <1>8 DEF ToSet
<1>10. \A t, u \in Stored : outbox[t].event = outbox[u].event => t = u
  BY DEF OutboxInv, Rows
<1>11. ASSUME NEW t \in Stored, outbox[t].event \in ToSet(relay') PROVE Clear(t)
  BY <1>9, <1>10, <1>11 DEF OutboxInv, Relayed
<1>12. ASSUME NEW t \in Stored, outbox[t].event \in ToSet(relay), outbox[s].event \notin ToSet(relay)
       PROVE t < s
  <2>1. Clear(t) /\ t # s
    BY <1>12 DEF OutboxInv, Relayed
  <2>2. outbox[s].status # "published"
    BY <1>12 DEF OutboxInv, Relayed, PostedInOrder, Posted
  <2>3. ~(s < t)
    BY <2>1, <2>2 DEF Clear
  <2>4. s \in Nat /\ t \in Nat
    BY OutboxAssumption DEF Stored, Seqs
  <2>. QED
    BY <2>1, <2>3, <2>4
<1>13. Relayed'
  <2>1. \A t \in Stored' : outbox'[t].event \in ToSet(relay') => Clear(t)'
    BY <1>2, <1>11 DEF Clear
  <2>2. \A t \in Stored' : outbox'[t].status = "published" => Posted(t)'
    BY <1>2, <1>9 DEF OutboxInv, Relayed, PostedInOrder, Posted
  <2>3. ASSUME NEW i \in DOMAIN relay', NEW j \in DOMAIN relay', i < j,
               NEW t \in Stored, NEW u \in Stored,
               outbox[t].event = relay'[i], outbox[u].event = relay'[j]
        PROVE  t < u
    <3>1. CASE i \in DOMAIN relay /\ j \in DOMAIN relay
      BY <1>8, <2>3, <3>1 DEF OutboxInv, Relayed, PostedInOrder
    <3>2. CASE i \in DOMAIN relay /\ j \notin DOMAIN relay
      <4>1. outbox[t].event \in ToSet(relay) /\ u = s /\ outbox[s].event \notin ToSet(relay)
        BY <1>8, <1>10, <2>3, <3>2 DEF ToSet
      <4>. QED
        BY <1>12, <4>1
    <3>3. CASE i \notin DOMAIN relay
      <4>1. i \in Nat /\ j \in Nat
        BY <1>8
      <4>2. j < i \/ i = j
        BY <1>8, <3>3
      <4>. QED
        BY <2>3, <4>1, <4>2
    <3>. QED
      BY <3>1, <3>2, <3>3
  <2>4. \A i, j \in DOMAIN relay' : i < j =>
          \A t, u \in Stored' :
            outbox'[t].event = relay'[i] /\ outbox'[u].event = relay'[j] => t < u
    BY <1>2, <2>3
  <2>. QED
    BY <1>2, <1>5, <1>7, <2>1, <2>2, <2>4 DEF Relayed, PostedInOrder
<1>14. ASSUME NEW e \in Daemon PROVE Processing(e)'
  <2>1. Processing(e) /\ cursor \in Nat /\ events \in Nat
    BY DEF OutboxInv, Columns, Processors
  <2>2. processor' = processor /\ mode' = mode
    OBVIOUS
  <2>. QED
    BY <1>2, <2>1, <2>2, ProcessorStays
<1>15. ASSUME NEW e \in Daemon PROVE Publishing(e)'
  <2>1. CASE e = d
    BY <1>1, <1>2, <2>1 DEF Publishing
  <2>2. CASE e # d
    <3>1. Publishing(e) /\ publisher'[e] = publisher[e]
      BY <1>1, <2>2 DEF OutboxInv, Publishers
    <3>. QED
      BY <1>2, <1>9, <3>1, PublisherStays
  <2>. QED
    BY <2>1, <2>2
<1>. QED
  BY <1>3, <1>4, <1>13, <1>14, <1>15 DEF OutboxInv, Processors, Publishers

\* publish_signed.
LEMMA PublishKeeps ==
  ASSUME OutboxInv, NEW d \in Daemon, PublishSigned(d) PROVE OutboxInv'
<1>1. PICK s, event : s = publisher[d].seq /\ event = publisher[d].event
  OBVIOUS
<1>2. PICK taken : taken = IF event \in ToSet(relay) THEN relay ELSE Append(relay, event)
  OBVIOUS
<1>3. s \in Stored /\ event = outbox[s].event /\ Clear(s)
  BY <1>1 DEF OutboxInv, Publishers, Publishing, PublishSigned
<1>4. \/ Publisher(d, At("failed", s)) /\ relay' \in {relay, taken}
      \/ Publisher(d, At("published", s)) /\ relay' = taken
  BY <1>1, <1>2 DEF PublishSigned
<1>5. UNCHANGED <<durable, mode, processor>>
  BY DEF PublishSigned
<1>6. /\ taken = relay \/ (event \notin ToSet(relay) /\ taken = Append(relay, event))
      /\ event \in ToSet(taken)
  <2>1. PICK E : E = {outbox[t].event : t \in Stored}
    OBVIOUS
  <2>2. relay \in Seq(E) /\ event \in E
    BY <1>3, <2>1 DEF OutboxInv, Relayed
  <2>3. event \in ToSet(Append(relay, event))
    <3>1. Len(relay) + 1 \in DOMAIN Append(relay, event)
      BY <2>2
    <3>2. Append(relay, event)[Len(relay) + 1] = event
      BY <2>2
    <3>. QED
      BY <3>1, <3>2 DEF ToSet
  <2>. QED
    BY <1>2, <2>3
<1>7. CASE Publisher(d, At("failed", s)) /\ relay' \in {relay, taken}
  <2>1. PICK next : next = At("failed", s)
    OBVIOUS
  <2>2. next.pc = "failed" /\ next.seq = s /\ Publisher(d, next)
    BY <1>7, <2>1 DEF At
  <2>. QED
    BY <1>3, <1>5, <1>6, <1>7, <2>2, PublisherMoves
<1>8. CASE Publisher(d, At("published", s)) /\ relay' = taken
  <2>1. PICK next : next = At("published", s)
    OBVIOUS
  <2>2. next.pc = "published" /\ next.seq = s /\ Publisher(d, next)
    BY <1>8, <2>1 DEF At
  <2>. QED
    BY <1>3, <1>5, <1>6, <1>8, <2>2, PublisherMoves
<1>. QED
  BY <1>4, <1>7, <1>8

\* mark_outbox_published and mark_outbox_failed: a row keeps its event, and a
\* sent one stays sent.
LEMMA MarkKeeps ==
  ASSUME OutboxInv, NEW d \in Daemon, MarkOutbox(d) PROVE OutboxInv'
<1>1. PICK s, result : s = publisher[d].seq /\ result = publisher[d].pc
  OBVIOUS
<1>2. /\ result \in {"published", "failed"}
      /\ UNCHANGED <<events, cursor, muted, relay, mode>>
      /\ \/ /\ s \in Unsent
            /\ outbox' = [outbox EXCEPT ![s].status = result]
            /\ Publisher(d, Idle)
            /\ UNCHANGED processor
         \/ Publisher(d, Off) /\ Processor(d, Off) /\ UNCHANGED outbox
  BY <1>1 DEF MarkOutbox
<1>3. /\ cursor \in Nat /\ events \in Nat
      /\ outbox = [t \in Seqs |-> outbox[t]]
      /\ mode = [e \in Daemon |-> mode[e]]
      /\ processor = [e \in Daemon |-> processor[e]]
      /\ publisher = [e \in Daemon |-> publisher[e]]
  BY DEF OutboxInv, Columns
<1>4. CASE Publisher(d, Off) /\ Processor(d, Off) /\ UNCHANGED outbox
  <2>1. /\ publisher' = [e \in Daemon |-> publisher'[e]]
        /\ processor' = [e \in Daemon |-> processor'[e]]
        /\ publisher'[d] = Off /\ processor'[d] = Off
        /\ \A e \in Daemon : e # d => publisher'[e] = publisher[e] /\ processor'[e] = processor[e]
    BY <1>3, <1>4 DEF Publisher, Processor
  <2>2. Processing(d)' /\ Publishing(d)'
    BY <2>1 DEF Processing, Publishing, Off
  <2>3. UNCHANGED <<durable, relay>>
    BY <1>2, <1>4 DEF durable
  <2>4. ASSUME NEW e \in Daemon, e # d PROVE Processing(e)' /\ Publishing(e)'
    BY <1>2, <2>1, <2>3, <2>4, OthersStay, OtherPublishersStay
  <2>5. mode' = [e \in Daemon |-> mode'[e]]
    BY <1>2, <1>3
  <2>. QED
    BY <2>1, <2>2, <2>3, <2>4, <2>5, OnlyTasksMove
<1>5. CASE /\ s \in Unsent
           /\ outbox' = [outbox EXCEPT ![s].status = result]
           /\ Publisher(d, Idle)
           /\ UNCHANGED processor
  <2>1. /\ publisher' = [e \in Daemon |-> publisher'[e]]
        /\ publisher'[d] = Idle
        /\ \A e \in Daemon : e # d => publisher'[e] = publisher[e]
    BY <1>3, <1>5 DEF Publisher
  <2>2. s \in Stored /\ s \in Seqs /\ outbox[s].status # "published"
    BY <1>5 DEF Unsent, Stored, None, Row
  <2>3. \A t \in Stored :
          /\ outbox[t] = Row(outbox[t].event, outbox[t].status)
          /\ outbox[t].status \in {"pending", "failed", "published"}
          /\ Says(outbox[t].event, t)
          /\ t <= cursor
    BY DEF OutboxInv, Rows
  <2>4. outbox' = [t \in Seqs |-> outbox'[t]]
    BY <1>3, <1>5
  <2>5. \A t \in Seqs : t # s => outbox'[t] = outbox[t]
    BY <1>3, <1>5
  <2>6. outbox'[s] = Row(outbox[s].event, result)
    <3>1. outbox'[s] = [outbox[s] EXCEPT !.status = result]
      BY <1>3, <1>5, <2>2
    <3>2. PICK event, status : outbox[s] = Row(event, status)
      BY <2>2, <2>3
    <3>. QED
      BY <3>1, <3>2 DEF Row
  <2>7. outbox'[s].event = outbox[s].event /\ outbox'[s].status = result /\ outbox'[s] # None
    BY <1>2, <2>6 DEF Row, None
  <2>8. Stored' = Stored
    BY <2>2, <2>5, <2>7 DEF Stored
  <2>9. Stored \subseteq Seqs
    BY DEF Stored
  <2>10. \A t \in Stored :
           /\ outbox'[t].event = outbox[t].event
           /\ t # s => outbox'[t].status = outbox[t].status
           /\ outbox[t].status = "published" => outbox'[t].status = "published"
    BY <2>2, <2>5, <2>7, <2>9
  <2>11. Columns'
    BY <1>2, <1>3, <1>5, <2>1, <2>4 DEF OutboxInv, Columns
  <2>12. Rows'
    <3>1. \A t \in Stored :
            /\ outbox'[t] = Row(outbox'[t].event, outbox'[t].status)
            /\ outbox'[t].status \in {"pending", "failed", "published"}
      BY <1>2, <2>3, <2>5, <2>6, <2>7, <2>9
    <3>2. \A t \in Stored : Says(outbox'[t].event, t) /\ t <= cursor'
      BY <1>2, <2>3, <2>10
    <3>3. \A t, u \in Stored : outbox'[t].event.id = outbox'[u].event.id => t = u
      BY <2>10 DEF OutboxInv, Rows
    <3>. QED
      BY <2>8, <3>1, <3>2, <3>3 DEF Rows
  <2>13. Passed'
    BY <1>2, <2>8 DEF OutboxInv, Passed, NothingLost
  <2>14. \A t \in Stored : Clear(t) => Clear(t)'
    BY <2>8, <2>10 DEF Clear
  <2>15. {outbox'[t].event : t \in Stored'} = {outbox[t].event : t \in Stored}
    BY <2>8, <2>10
  <2>16. relay' = relay /\ relay' \in Seq({outbox'[t].event : t \in Stored'})
    BY <1>2, <2>15 DEF OutboxInv, Relayed
  <2>17. result = "published" => outbox[s].event \in ToSet(relay)
    BY <1>1 DEF OutboxInv, Publishers, Publishing
  <2>18. Relayed'
    <3>1. \A t \in Stored' : outbox'[t].event \in ToSet(relay') => Clear(t)'
      BY <2>8, <2>10, <2>14, <2>16 DEF OutboxInv, Relayed
    <3>2. \A t \in Stored' : outbox'[t].status = "published" => Posted(t)'
      BY <2>7, <2>8, <2>10, <2>16, <2>17 DEF OutboxInv, Relayed, PostedInOrder, Posted
    <3>3. \A i, j \in DOMAIN relay' : i < j =>
            \A t, u \in Stored' :
              outbox'[t].event = relay'[i] /\ outbox'[u].event = relay'[j] => t < u
      BY <2>8, <2>10, <2>16 DEF OutboxInv, Relayed, PostedInOrder
    <3>. QED
      BY <2>16, <3>1, <3>2, <3>3 DEF Relayed, PostedInOrder
  <2>19. ASSUME NEW e \in Daemon PROVE Processing(e)'
    <3>1. Processing(e) /\ processor' = processor
      BY <1>5 DEF OutboxInv, Processors
    <3>. QED
      BY <1>2, <1>3, <3>1, ProcessorStays
  <2>20. ASSUME NEW e \in Daemon PROVE Publishing(e)'
    <3>1. CASE e = d
      BY <2>1, <3>1 DEF Publishing, Idle
    <3>2. CASE e # d
      <4>1. Publishing(e) /\ publisher'[e] = publisher[e]
        BY <2>1, <3>2 DEF OutboxInv, Publishers
      <4>. QED
        BY <2>8, <2>10, <2>16, <4>1, PublisherStays
    <3>. QED
      BY <3>1, <3>2
  <2>. QED
    BY <2>11, <2>12, <2>13, <2>18, <2>19, <2>20 DEF OutboxInv, Processors, Publishers
<1>. QED
  BY <1>2, <1>4, <1>5

-----------------------------------------------------------------------------
\* Every step keeps the invariant.
LEMMA OutboxInvStep == OutboxInv /\ [Next]_vars => OutboxInv'
<1>. SUFFICES ASSUME OutboxInv, [Next]_vars PROVE OutboxInv'
  OBVIOUS
<1>1. CASE AppendEvent
  BY <1>1, AppendKeeps
<1>2. ASSUME NEW d \in Daemon, Start(d) \/ Halt(d) PROVE OutboxInv'
  BY <1>2, StartHaltKeep
<1>3. ASSUME NEW d \in Daemon, Process(d) PROVE OutboxInv'
  BY <1>3, TakeKeeps, AdvanceKeeps, SignKeeps, EnqueueKeeps, ErrorKeeps DEF Process
<1>4. ASSUME NEW d \in Daemon, Publish(d) PROVE OutboxInv'
  BY <1>4, NextEntryKeeps, PublishKeeps, MarkKeeps DEF Publish
<1>5. CASE UNCHANGED vars
  <2>1. /\ UNCHANGED <<durable, relay>>
        /\ processor' = processor /\ publisher' = publisher /\ mode' = mode
    BY <1>5 DEF vars
  <2>2. ASSUME NEW d \in Daemon PROVE Processing(d)' /\ Publishing(d)'
    BY <2>1, OthersStay, OtherPublishersStay
  <2>. QED
    BY <2>1, <2>2, OnlyTasksMove DEF OutboxInv, Columns
<1>. QED
  BY <1>1, <1>2, <1>3, <1>4, <1>5 DEF Next

\* What the tasks believe holds in every state, however many daemons overlap
\* on the database and wherever they crash.
THEOREM OutboxInvariant == Spec => []OutboxInv
BY OutboxInvInit, OutboxInvStep, PTL DEF Spec

\* An event that is signed twice, by two daemons or after a crash, is posted
\* once, and only genuine messages that say what an event says are on the
\* relays.
THEOREM OneMessage == Spec => []OneMessagePerEvent
<1>1. ASSUME OutboxInv PROVE OneMessagePerEvent
  <2>1. ASSUME NEW i \in DOMAIN relay
        PROVE  relay[i].genuine /\ \E s \in Stored :
                 outbox[s].event = relay[i] /\ relay[i].id.content = Content(s)
    <3>1. PICK s \in Stored : relay[i] = outbox[s].event
      BY <1>1 DEF OutboxInv, Relayed
    <3>2. Says(outbox[s].event, s)
      BY <1>1 DEF OutboxInv, Rows
    <3>. QED
      BY <3>1, <3>2 DEF Says
  <2>. QED
    BY <1>1, <2>1 DEF OneMessagePerEvent, OutboxInv, Rows
<1>. QED
  BY <1>1, OutboxInvariant, PTL

\* The relays take the messages in the order of the events, and a row that
\* is marked published is there.
THEOREM InOrder == Spec => []PostedInOrder
<1>1. OutboxInv => PostedInOrder
  BY DEF OutboxInv, Relayed
<1>. QED
  BY <1>1, OutboxInvariant, PTL

\* The cursor passes no public event without its message, unless a daemon
\* without Nostr passed it.
THEOREM NoneLost == Spec => []NothingLost
<1>1. OutboxInv => NothingLost
  BY DEF OutboxInv, Passed
<1>. QED
  BY <1>1, OutboxInvariant, PTL

-----------------------------------------------------------------------------
(***************************************************************************)
(* Overlay.  The invariant says what is in the queue of each socket: every *)
(* message follows the one before it, and the first what its page has.     *)
(***************************************************************************)
\* What may be sent of the log: an event, or the state after any event.
Snapshot(n, reason) ==
  [type |-> "snapshot", reason |-> reason, seq |-> n, state |-> SubSeq(log, 1, n)]
Reasons == {"none", "resume_unavailable", "event_window_unavailable"}
Sendable ==
  {EventAt(n) : n \in 1..Len(log)} \cup {Snapshot(n, reason) : n \in 0..Len(log), reason \in Reasons}

\* What may come to a page that has everything up to seq: the next event, or
\* a snapshot that skips nothing, or one that says so.
Follows(m, seq) ==
  \/ m.type = "event" /\ m.seq = seq + 1
  \/ m.type = "snapshot" /\ m.seq >= seq /\ (m.reason = "none" => m.seq = seq)

\* A socket's queue: each message follows the one before, and the first one
\* what the page has.  A page without anything of this stream gets a snapshot.
Queued(page, queue) ==
  /\ queue \in Seq(Sendable)
  /\ \A i \in 1..(Len(queue) - 1) : Follows(queue[i + 1], queue[i].seq)
  /\ queue # <<>> => IF page.stream = stream THEN Follows(queue[1], page.seq)
                     ELSE queue[1].type = "snapshot"

\* A socket belongs to this stream, and knows where its page is.
Socket(c) ==
  \/ conn[c] = Closed
  \/ /\ up /\ conn[c].stream = stream /\ conn[c].pc = "opening"
     /\ conn[c].after = client[c].seq
     /\ \E n \in 0..Len(log) : conn[c].checkpoint = Snapshot(n, "none")
  \/ /\ up /\ conn[c].stream = stream /\ conn[c].pc = "open"
     /\ Queued(client[c], conn[c].queue)
     /\ conn[c].queue = <<>> =>
          client[c].stream = stream /\ conn[c].last = client[c].seq

\* A page is of this stream or of an earlier one.
Page(c) ==
  /\ client[c].stream \in 0..stream
  /\ client[c].seq \in Nat
  /\ client[c].stream = 0 => client[c] = Fresh
  /\ client[c].stream = stream =>
       client[c].seq <= Len(log) /\ client[c].view = SubSeq(log, 1, client[c].seq)

OverlayInv ==
  /\ log \in Seq(Event) /\ stream \in Nat \ {0}
  /\ conn = [c \in Client |-> conn[c]]
  /\ client = [c \in Client |-> client[c]]
  /\ \A c \in Client : Socket(c) /\ Page(c)

\* The first n events, one by one.
LEMMA PrefixIs ==
  ASSUME NEW S, NEW s \in Seq(S), NEW n \in 0..Len(s)
  PROVE  /\ SubSeq(s, 1, n) \in Seq(S)
         /\ Len(SubSeq(s, 1, n)) = n
         /\ \A i \in 1..n : SubSeq(s, 1, n)[i] = s[i]
<1>1. 1 \in 1..(Len(s) + 1) /\ n \in (1 - 1)..Len(s) /\ n - 1 + 1 = n /\ \A i \in 1..n : 1 + i - 1 = i
  BY LenProperties
<1>. QED
  BY <1>1, SubSeqProperties

\* Of a longer log, and one event more.
LEMMA PrefixOfLonger ==
  ASSUME NEW S, NEW s \in Seq(S), NEW e \in S, NEW n \in 0..Len(s)
  PROVE  SubSeq(Append(s, e), 1, n) = SubSeq(s, 1, n)
<1>1. /\ Append(s, e) \in Seq(S) /\ n \in 0..Len(Append(s, e))
      /\ \A i \in 1..n : Append(s, e)[i] = s[i]
  BY AppendProperties, LenProperties
<1>. QED
  BY <1>1, PrefixIs, SeqEqual

LEMMA PrefixWithOneMore ==
  ASSUME NEW S, NEW s \in Seq(S), NEW n \in Nat, n + 1 <= Len(s)
  PROVE  Append(SubSeq(s, 1, n), s[n + 1]) = SubSeq(s, 1, n + 1)
<1>1. n \in 0..Len(s) /\ n + 1 \in 0..Len(s) /\ s[n + 1] \in S
  BY LenProperties, ElementOfSeq
<1>2. PICK p, q : p = SubSeq(s, 1, n) /\ q = SubSeq(s, 1, n + 1)
  OBVIOUS
<1>3. /\ p \in Seq(S) /\ Len(p) = n /\ \A i \in 1..n : p[i] = s[i]
      /\ q \in Seq(S) /\ Len(q) = n + 1 /\ \A i \in 1..(n + 1) : q[i] = s[i]
  BY <1>1, <1>2, PrefixIs
<1>4. PICK r : r = Append(p, s[n + 1])
  OBVIOUS
<1>5. /\ r \in Seq(S) /\ Len(r) = n + 1
      /\ \A i \in 1..n : r[i] = p[i]
      /\ r[n + 1] = s[n + 1]
  BY <1>1, <1>3, <1>4, AppendProperties
<1>6. ASSUME NEW i \in 1..Len(r) PROVE r[i] = q[i]
  <2>1. i \in 1..n \/ i = n + 1
    BY <1>5
  <2>2. CASE i \in 1..n
    <3>1. r[i] = s[i]
      BY <1>3, <1>5, <2>2
    <3>2. i \in 1..(n + 1)
      BY <2>2
    <3>3. q[i] = s[i]
      BY <1>3, <3>2
    <3>. QED
      BY <3>1, <3>3
  <2>3. CASE i = n + 1
    BY <1>3, <1>5, <2>3
  <2>. QED
    BY <2>1, <2>2, <2>3
<1>7. r = q
  BY <1>3, <1>5, <1>6, SeqEqual
<1>. QED
  BY <1>2, <1>4, <1>7

\* What a message of the queue says.
LEMMA SendableIs ==
  ASSUME log \in Seq(Event), NEW m \in Sendable
  PROVE  /\ m.seq \in 0..Len(log)
         /\ \/ m.type = "event" /\ m.seq \in 1..Len(log) /\ m.says = log[m.seq]
            \/ m.type = "snapshot" /\ m.state = SubSeq(log, 1, m.seq)
<1>1. Len(log) \in Nat
  BY LenProperties
<1>2. CASE m \in {EventAt(n) : n \in 1..Len(log)}
  <2>1. PICK n \in 1..Len(log) : m = EventAt(n)
    BY <1>2
  <2>2. m.type = "event" /\ m.seq = n /\ m.says = log[n]
    BY <2>1 DEF EventAt
  <2>3. n \in 0..Len(log)
    BY <1>1
  <2>. QED
    BY <2>2, <2>3
<1>3. CASE m \in {Snapshot(n, reason) : n \in 0..Len(log), reason \in Reasons}
  <2>1. PICK n \in 0..Len(log) : \E reason \in Reasons : m = Snapshot(n, reason)
    BY <1>3
  <2>2. m.type = "snapshot" /\ m.seq = n /\ m.state = SubSeq(log, 1, n)
    BY <2>1 DEF Snapshot
  <2>. QED
    BY <2>2
<1>. QED
  BY <1>2, <1>3 DEF Sendable

\* overlay_snapshot_message: the snapshot of now has the whole log.
LEMMA SnapshotOfNow ==
  ASSUME log \in Seq(Event), NEW reason \in Reasons
  PROVE  /\ SnapshotNow(reason) = Snapshot(Len(log), reason)
         /\ Snapshot(Len(log), reason) \in Sendable
<1>1. SubSeq(log, 1, Len(log)) = log
  BY SubSeqFull
<1>2. Len(log) \in 0..Len(log)
  BY LenProperties
<1>3. SnapshotNow(reason) = Snapshot(Len(log), reason)
  BY <1>1 DEF SnapshotNow, Snapshot
<1>4. Snapshot(Len(log), reason) \in Sendable
  BY <1>2 DEF Sendable
<1>. QED
  BY <1>3, <1>4

\* An event is only appended.
Grows == log' = log \/ \E e \in Event : log' = Append(log, e)

LEMMA GrowingLog ==
  ASSUME log \in Seq(Event), Grows
  PROVE  /\ log' \in Seq(Event) /\ Len(log) \in Nat /\ Len(log') \in Nat /\ Len(log) <= Len(log')
         /\ \A n \in 1..Len(log) : log'[n] = log[n]
         /\ \A n \in 0..Len(log) : SubSeq(log', 1, n) = SubSeq(log, 1, n)
<1>1. Len(log) \in Nat
  BY LenProperties
<1>2. CASE log' = log
  BY <1>1, <1>2
<1>3. ASSUME NEW e \in Event, log' = Append(log, e)
      PROVE  /\ log' \in Seq(Event) /\ Len(log') = Len(log) + 1
             /\ \A n \in 1..Len(log) : log'[n] = log[n]
             /\ \A n \in 0..Len(log) : SubSeq(log', 1, n) = SubSeq(log, 1, n)
  BY <1>3, AppendProperties, PrefixOfLonger
<1>4. Len(log) <= Len(log) + 1 /\ Len(log) + 1 \in Nat
  BY <1>1
<1>. QED
  BY <1>1, <1>2, <1>3, <1>4 DEF Grows

\* What may be sent stays so.
LEMMA SendableStays ==
  ASSUME log \in Seq(Event), Grows
  PROVE  /\ Sendable \subseteq Sendable'
         /\ \A n \in 0..Len(log), reason \in Reasons :
              n \in 0..Len(log') /\ Snapshot(n, reason)' = Snapshot(n, reason)
<1>1. /\ Len(log) \in Nat /\ Len(log') \in Nat /\ Len(log) <= Len(log')
      /\ \A n \in 1..Len(log) : log'[n] = log[n]
      /\ \A n \in 0..Len(log) : SubSeq(log', 1, n) = SubSeq(log, 1, n)
  BY GrowingLog
<1>2. \A n \in 1..Len(log) : n \in 1..Len(log') /\ EventAt(n)' = EventAt(n)
  BY <1>1 DEF EventAt
<1>3. \A n \in 0..Len(log), reason \in Reasons :
        n \in 0..Len(log') /\ Snapshot(n, reason)' = Snapshot(n, reason)
  BY <1>1 DEF Snapshot
<1>4. ASSUME NEW m \in Sendable PROVE m \in Sendable'
  <2>1. CASE \E n \in 1..Len(log) : m = EventAt(n)
    BY <1>2, <2>1 DEF Sendable
  <2>2. CASE \E n \in 0..Len(log), reason \in Reasons : m = Snapshot(n, reason)
    BY <1>3, <2>2 DEF Sendable
  <2>. QED
    BY <2>1, <2>2 DEF Sendable
<1>. QED
  BY <1>3, <1>4

\* A queue that stays where its page stays, while the log grows.
LEMMA QueuedStays ==
  ASSUME log \in Seq(Event), Grows, stream' = stream, NEW page, NEW queue, Queued(page, queue)
  PROVE  Queued(page, queue)'
<1>1. queue \in Seq(Sendable')
  BY SendableStays, SeqMonotonic DEF Queued
<1>. QED
  BY <1>1 DEF Queued

LEMMA SocketStays ==
  ASSUME log \in Seq(Event), Grows, stream' = stream, up' = up, NEW c,
         conn'[c] = conn[c], client'[c] = client[c], Socket(c)
  PROVE  Socket(c)'
<1>1. PICK o, page : o = conn[c] /\ o = conn'[c] /\ page = client[c] /\ page = client'[c]
  OBVIOUS
<1>2. CASE o = Closed
  BY <1>1, <1>2 DEF Socket
<1>3. CASE /\ up /\ o.stream = stream /\ o.pc = "opening"
           /\ o.after = page.seq
           /\ \E n \in 0..Len(log) : o.checkpoint = Snapshot(n, "none")
  <2>1. PICK n \in 0..Len(log) : o.checkpoint = Snapshot(n, "none")
    BY <1>3
  <2>2. n \in 0..Len(log') /\ o.checkpoint = Snapshot(n, "none")'
    BY <2>1, SendableStays DEF Reasons
  <2>. QED
    BY <1>1, <1>3, <2>2 DEF Socket
<1>4. CASE /\ up /\ o.stream = stream /\ o.pc = "open"
           /\ Queued(page, o.queue)
           /\ o.queue = <<>> => page.stream = stream /\ o.last = page.seq
  <2>1. PICK queue : queue = o.queue
    OBVIOUS
  <2>2. Queued(page, queue)'
    BY <1>4, <2>1, QueuedStays
  <2>3. (Queued(client[c], conn[c].queue))'
    BY <1>1, <2>1, <2>2
  <2>. QED
    BY <1>1, <1>4, <2>3 DEF Socket
<1>. QED
  BY <1>1, <1>2, <1>3, <1>4 DEF Socket

LEMMA PageStays ==
  ASSUME log \in Seq(Event), Grows, stream \in Nat, stream' = stream, NEW c,
         client'[c] = client[c], Page(c)
  PROVE  Page(c)'
<1>1. PICK page : page = client[c] /\ page = client'[c]
  OBVIOUS
<1>2. page.seq \in Nat
  BY <1>1 DEF Page
<1>3. page.stream = stream =>
        page.seq <= Len(log') /\ page.view = SubSeq(log', 1, page.seq)
  BY <1>1, <1>2, GrowingLog DEF Page
<1>. QED
  BY <1>1, <1>3 DEF Page

-----------------------------------------------------------------------------
\* A step about one page: the others stay, and the log may grow.
LEMMA OnePageMoves ==
  ASSUME OverlayInv, Grows, stream' = stream, up' = up, NEW c \in Client,
         conn' = [d \in Client |-> conn'[d]], client' = [d \in Client |-> client'[d]],
         \A d \in Client : d # c => conn'[d] = conn[d] /\ client'[d] = client[d],
         Socket(c)', Page(c)'
  PROVE  OverlayInv'
<1>1. log' \in Seq(Event)
  BY GrowingLog DEF OverlayInv
<1>2. ASSUME NEW d \in Client, d # c PROVE Socket(d)' /\ Page(d)'
  <2>1. log \in Seq(Event) /\ stream \in Nat /\ Socket(d) /\ Page(d)
    BY DEF OverlayInv
  <2>2. conn'[d] = conn[d] /\ client'[d] = client[d]
    BY <1>2
  <2>. QED
    BY <2>1, <2>2, SocketStays, PageStays
<1>. QED
  BY <1>1, <1>2 DEF OverlayInv

\* The same when no page moves.
LEMMA NoPageMoves ==
  ASSUME OverlayInv, Grows, UNCHANGED <<stream, up, conn, client>>
  PROVE  OverlayInv'
<1>1. log' \in Seq(Event) /\ stream' = stream /\ up' = up /\ conn' = conn /\ client' = client
  BY GrowingLog DEF OverlayInv
<1>2. ASSUME NEW d \in Client PROVE Socket(d)' /\ Page(d)'
  <2>1. log \in Seq(Event) /\ stream \in Nat /\ Socket(d) /\ Page(d)
    BY DEF OverlayInv
  <2>2. conn'[d] = conn[d] /\ client'[d] = client[d]
    BY <1>1
  <2>. QED
    BY <1>1, <2>1, <2>2, SocketStays, PageStays
<1>. QED
  BY <1>1, <1>2 DEF OverlayInv

\* The sockets are closed when the daemon stops, and the log is replaced
\* only then; its new stream has no pages yet.
LEMMA OverlayRestarts ==
  ASSUME OverlayInv, StopDaemon \/ StartDaemon \/ \E n \in 0..MaxSeq : RestoreBackup(n)
  PROVE  OverlayInv'
<1>1. client' = client /\ stream \in Nat \ {0} /\ client = [c \in Client |-> client[c]]
  BY DEF OverlayInv, StopDaemon, StartDaemon, RestoreBackup
<1>2. (\A c \in Client : conn'[c] = Closed) /\ conn' = [c \in Client |-> conn'[c]]
  BY DEF OverlayInv, Socket, StopDaemon, StartDaemon, RestoreBackup
<1>3. \A c \in Client : Socket(c)'
  BY <1>2 DEF Socket
<1>4. CASE StopDaemon \/ StartDaemon
  <2>1. log' = log /\ stream' = stream
    BY <1>4 DEF StopDaemon, StartDaemon
  <2>2. \A c \in Client : Page(c)'
    BY <1>1, <2>1 DEF OverlayInv, Page
  <2>. QED
    BY <1>1, <1>2, <1>3, <2>1, <2>2 DEF OverlayInv
<1>5. ASSUME NEW n \in 0..MaxSeq, RestoreBackup(n) PROVE OverlayInv'
  <2>1. n \in 0..Len(log) /\ log' = SubSeq(log, 1, n) /\ stream' = stream + 1
    BY <1>5, LenProperties DEF OverlayInv, RestoreBackup
  <2>2. log' \in Seq(Event)
    BY <2>1, PrefixIs DEF OverlayInv
  <2>3. stream' \in Nat \ {0}
    BY <1>1, <2>1
  <2>4. ASSUME NEW c \in Client PROVE Page(c)'
    <3>1. client[c].stream \in 0..stream' /\ client[c].stream # stream'
      BY <1>1, <2>1 DEF OverlayInv, Page
    <3>2. client[c].seq \in Nat /\ (client[c].stream = 0 => client[c] = Fresh)
      BY DEF OverlayInv, Page
    <3>. QED
      BY <1>1, <3>1, <3>2 DEF Page
  <2>. QED
    BY <1>1, <1>2, <1>3, <2>2, <2>3, <2>4 DEF OverlayInv
<1>. QED
  BY <1>4, <1>5

\* What a socket and its page are, by what the socket is about to do.
LEMMA OpeningIs ==
  ASSUME OverlayInv, NEW c \in Client, conn[c].pc = "opening"
  PROVE  /\ up /\ conn[c].stream = stream /\ conn[c].after = client[c].seq
         /\ \E n \in 0..Len(log) : conn[c].checkpoint = Snapshot(n, "none")
BY DEF OverlayInv, Socket, Closed

LEMMA OpenIs ==
  ASSUME OverlayInv, NEW c \in Client, conn[c].pc = "open"
  PROVE  /\ up /\ conn[c].stream = stream
         /\ Queued(client[c], conn[c].queue)
         /\ conn[c].queue = <<>> =>
              client[c].stream = stream /\ conn[c].last = client[c].seq
BY DEF OverlayInv, Socket, Closed

\* A new queue of an open socket.
LEMMA SocketOpens ==
  ASSUME OverlayInv, NEW c \in Client, up, log' = log, stream' = stream, up' = up,
         NEW last, NEW queue, NEW page, Conn(c, Open(stream, last, queue)), client'[c] = page,
         Queued(page, queue),
         queue = <<>> => page.stream = stream /\ last = page.seq
  PROVE  Socket(c)'
<1>1. conn'[c] = Open(stream, last, queue)
  BY DEF OverlayInv, Conn
<1>2. /\ conn'[c].stream = stream /\ conn'[c].pc = "open"
      /\ conn'[c].last = last /\ conn'[c].queue = queue
  BY <1>1 DEF Open
<1>3. Grows /\ log \in Seq(Event)
  BY DEF Grows, OverlayInv
<1>4. Queued(page, queue)'
  BY <1>3, QueuedStays
<1>5. (Queued(client[c], conn[c].queue))'
  BY <1>2, <1>4
<1>. QED
  BY <1>2, <1>5 DEF Socket

\* One message in the queue.
LEMMA OneQueued ==
  ASSUME NEW page, NEW m \in Sendable,
         IF page.stream = stream THEN Follows(m, page.seq) ELSE m.type = "snapshot"
  PROVE  Queued(page, <<m>>)
<1>1. <<m>> \in Seq(Sendable) /\ Len(<<m>>) = 1 /\ <<m>>[1] = m
  OBVIOUS
<1>. QED
  BY <1>1 DEF Queued

\* A snapshot of now may follow whatever a page has: it is marked.
LEMMA SnapshotIsQueued ==
  ASSUME OverlayInv, NEW c \in Client, NEW reason \in Reasons,
         reason = "none" => client[c].stream # stream
  PROVE  Queued(client[c], <<SnapshotNow(reason)>>)
<1>1. PICK m : m = SnapshotNow(reason)
  OBVIOUS
<1>2. m \in Sendable /\ m.type = "snapshot" /\ m.seq = Len(log) /\ m.reason = reason
  BY <1>1, SnapshotOfNow DEF SnapshotNow, OverlayInv
<1>3. client[c].stream = stream => Len(log) >= client[c].seq
  BY LenProperties DEF OverlayInv, Page
<1>4. IF client[c].stream = stream THEN Follows(m, client[c].seq) ELSE m.type = "snapshot"
  BY <1>2, <1>3 DEF Follows
<1>. QED
  BY <1>1, <1>2, <1>4, OneQueued

\* render_window: the events after what a page has, one after the other.
LEMMA WindowIs ==
  ASSUME log \in Seq(Event), NEW after \in Nat, NEW through \in Nat,
         after <= through, through <= Len(log)
  PROVE  /\ Window(after, through) \in Seq(Sendable)
         /\ Len(Window(after, through)) = through - after
         /\ \A i \in 1..(through - after) :
              /\ Window(after, through)[i].type = "event"
              /\ Window(after, through)[i].seq = after + i
<1>1. Len(log) \in Nat /\ through - after \in Nat
  BY LenProperties
<1>2. \A i \in 1..(through - after) : after + i \in 1..Len(log)
  BY <1>1
<1>3. \A i \in 1..(through - after) : EventAt(after + i) \in Sendable
  BY <1>2 DEF Sendable
<1>4. \A n : EventAt(n).type = "event" /\ EventAt(n).seq = n
  BY DEF EventAt
<1>5. PICK w : w = Window(after, through)
  OBVIOUS
<1>6. w = [i \in 1..(through - after) |-> EventAt(after + i)]
  BY <1>5 DEF Window
<1>7. w \in Seq(Sendable) /\ Len(w) = through - after
  BY <1>1, <1>3, <1>6, IsASeq
<1>8. \A i \in 1..(through - after) : w[i].type = "event" /\ w[i].seq = after + i
  BY <1>4, <1>6
<1>. QED
  BY <1>5, <1>7, <1>8

LEMMA WindowIsQueued ==
  ASSUME log \in Seq(Event), NEW page, page.stream = stream, page.seq \in Nat,
         NEW through \in Nat, page.seq <= through, through <= Len(log)
  PROVE  /\ Queued(page, Window(page.seq, through))
         /\ Queued(page, Append(Window(page.seq, through), Snapshot(through, "none")))
<1>1. PICK w, m, n, after : w = Window(page.seq, through) /\ m = Snapshot(through, "none")
                            /\ n = through - page.seq /\ after = page.seq
  OBVIOUS
<1>2. /\ w \in Seq(Sendable) /\ Len(w) = n /\ n \in Nat /\ after \in Nat /\ n = through - after
      /\ \A i \in 1..n : w[i].type = "event" /\ w[i].seq = after + i
  <2>1. /\ after \in Nat /\ through \in Nat /\ after <= through /\ through <= Len(log)
        /\ w = Window(after, through) /\ n = through - after /\ n \in Nat
    BY <1>1
  <2>. QED
    BY <2>1, WindowIs
<1>3. m \in Sendable /\ m.type = "snapshot" /\ m.reason = "none" /\ m.seq = through
  <2>1. through \in 0..Len(log)
    BY LenProperties
  <2>. QED
    BY <1>1, <2>1 DEF Snapshot, Sendable, Reasons
<1>4. ASSUME NEW i \in 1..(n - 1) PROVE Follows(w[i + 1], w[i].seq)
  <2>1. w[i + 1].type = "event" /\ w[i + 1].seq = after + (i + 1) /\ w[i].seq = after + i
    BY <1>2
  <2>2. after + (i + 1) = after + i + 1
    BY <1>2
  <2>. QED
    BY <2>1, <2>2 DEF Follows
<1>5. ASSUME n > 0 PROVE Follows(w[1], after)
  <2>1. w[1].type = "event" /\ w[1].seq = after + 1
    BY <1>2, <1>5
  <2>. QED
    BY <2>1 DEF Follows
<1>6. Queued(page, w)
  <2>1. w # <<>> => n > 0
    BY <1>2, EmptySeq
  <2>. QED
    BY <1>1, <1>2, <1>4, <1>5, <2>1 DEF Queued
<1>7. PICK q : q = Append(w, m)
  OBVIOUS
<1>8. /\ q \in Seq(Sendable) /\ Len(q) = n + 1 /\ q[n + 1] = m
      /\ \A i \in 1..n : q[i] = w[i]
  BY <1>2, <1>3, <1>7, AppendProperties
<1>9. ASSUME NEW i \in 1..(Len(q) - 1) PROVE Follows(q[i + 1], q[i].seq)
  <2>1. CASE i = n
    <3>1. q[i + 1] = m /\ q[i] = w[n] /\ w[n].seq = after + n /\ after + n = through
      BY <1>2, <1>8, <2>1
    <3>. QED
      BY <1>2, <1>3, <3>1 DEF Follows
  <2>2. CASE i # n
    <3>1. i \in 1..(n - 1) /\ i + 1 \in 1..n /\ i \in 1..n
      BY <1>2, <1>8, <2>2
    <3>2. q[i + 1] = w[i + 1] /\ q[i] = w[i]
      BY <1>8, <3>1
    <3>3. Follows(w[i + 1], w[i].seq)
      BY <1>4, <3>1
    <3>. QED
      BY <3>2, <3>3
  <2>. QED
    BY <2>1, <2>2
<1>10. Follows(q[1], after)
  <2>1. CASE n = 0
    <3>1. n + 1 = 1 /\ through = after
      BY <1>2, <2>1
    <3>. QED
      BY <1>2, <1>3, <1>8, <3>1 DEF Follows
  <2>2. CASE n > 0
    BY <1>2, <1>5, <1>8, <2>2
  <2>. QED
    BY <1>2, <2>1, <2>2
<1>11. Queued(page, q)
  BY <1>1, <1>8, <1>9, <1>10 DEF Queued
<1>. QED
  BY <1>1, <1>6, <1>7, <1>11

\* A step of one socket, of which its page learns nothing.
LEMMA SocketMoves ==
  ASSUME OverlayInv, NEW c \in Client, UNCHANGED <<log, stream, up, client>>,
         NEW next, Conn(c, next), Socket(c)'
  PROVE  OverlayInv'
<1>1. /\ conn' = [d \in Client |-> conn'[d]]
      /\ \A d \in Client : d # c => conn'[d] = conn[d] /\ client'[d] = client[d]
      /\ client' = [d \in Client |-> client'[d]]
  BY DEF OverlayInv, Conn
<1>2. Grows /\ log \in Seq(Event) /\ stream \in Nat /\ Page(c)
  BY DEF Grows, OverlayInv
<1>3. Page(c)'
  BY <1>2, PageStays
<1>. QED
  BY <1>1, <1>2, <1>3, OnePageMoves

LEMMA DisconnectKeeps ==
  ASSUME OverlayInv, NEW c \in Client, Disconnect(c) PROVE OverlayInv'
<1>1. UNCHANGED <<log, stream, up, client>> /\ Conn(c, Closed)
  BY DEF Disconnect
<1>2. Socket(c)'
  BY <1>1 DEF OverlayInv, Conn, Socket
<1>. QED
  BY <1>1, <1>2, SocketMoves

\* serve: a page that was told something before, or one that is new.
LEMMA ConnectKeeps ==
  ASSUME OverlayInv, NEW c \in Client, Connect(c) PROVE OverlayInv'
<1>1. /\ log' = log /\ stream' = stream /\ up' = up /\ up
      /\ log \in Seq(Event) /\ stream \in Nat \ {0}
      /\ conn = [d \in Client |-> conn[d]] /\ client = [d \in Client |-> client[d]]
  BY DEF Connect, OverlayInv
<1>2. CASE Conn(c, Opening(stream, client[c].seq, SnapshotNow("none"))) /\ UNCHANGED client
  <2>1. conn'[c] = Opening(stream, client[c].seq, SnapshotNow("none"))
    BY <1>1, <1>2 DEF Conn
  <2>2. SnapshotNow("none") = Snapshot(Len(log), "none") /\ Len(log) \in 0..Len(log)
    BY <1>1, SnapshotOfNow, LenProperties DEF Reasons
  <2>3. /\ conn'[c].stream = stream /\ conn'[c].pc = "opening"
        /\ conn'[c].after = client[c].seq
        /\ \E n \in 0..Len(log) : conn'[c].checkpoint = Snapshot(n, "none")
    BY <2>1, <2>2 DEF Opening
  <2>4. \E n \in 0..Len(log') : conn'[c].checkpoint = Snapshot(n, "none")'
    BY <1>1, <2>3 DEF Snapshot
  <2>5. Socket(c)'
    BY <1>1, <1>2, <2>3, <2>4 DEF Socket
  <2>. QED
    BY <1>1, <1>2, <2>5, SocketMoves
<1>3. CASE /\ Conn(c, Open(stream, Len(log), <<SnapshotNow("none")>>))
           /\ client' = [client EXCEPT ![c] = Fresh]
  <2>1. client'[c] = Fresh /\ Fresh.stream = 0 /\ Fresh.seq = 0
    BY <1>1, <1>3 DEF Fresh
  <2>2. SnapshotNow("none") \in Sendable /\ SnapshotNow("none").type = "snapshot"
    BY <1>1, SnapshotOfNow DEF Reasons, SnapshotNow
  <2>3. Queued(Fresh, <<SnapshotNow("none")>>)
    BY <1>1, <2>1, <2>2, OneQueued
  <2>4. Socket(c)'
    BY <1>1, <1>3, <2>1, <2>3, SocketOpens
  <2>5. Page(c)'
    BY <1>1, <2>1 DEF Page
  <2>6. /\ conn' = [d \in Client |-> conn'[d]] /\ client' = [d \in Client |-> client'[d]]
        /\ \A d \in Client : d # c => conn'[d] = conn[d] /\ client'[d] = client[d]
    BY <1>1, <1>3 DEF Conn
  <2>. QED
    BY <1>1, <2>4, <2>5, <2>6, OnePageMoves DEF Grows
<1>. QED
  BY <1>2, <1>3 DEF Connect

\* The missed events, or a snapshot that says that events are skipped.
LEMMA ResumeKeeps ==
  ASSUME OverlayInv, NEW c \in Client, Resume(c) \/ ResumeUnavailable(c) PROVE OverlayInv'
<1>1. UNCHANGED <<log, stream, up, client>> /\ conn[c].pc = "opening"
  BY DEF Resume, ResumeUnavailable
<1>2. up /\ conn[c].stream = stream /\ conn[c].after = client[c].seq
  BY <1>1, OpeningIs
<1>3. CASE Resume(c)
  <2>1. PICK n \in 0..Len(log) : conn[c].checkpoint = Snapshot(n, "none")
    BY <1>1, OpeningIs
  <2>2. conn[c].checkpoint.seq = n
    BY <2>1 DEF Snapshot
  <2>3. client[c].seq <= n /\ n \in Nat /\ client[c].seq \in Nat /\ client[c].stream = stream
        /\ n <= Len(log) /\ log \in Seq(Event)
    BY <1>2, <1>3, <2>2, LenProperties DEF Resume, WindowFits, OverlayInv, Page
  <2>4. PICK queue : queue = Append(Window(client[c].seq, n), Snapshot(n, "none"))
    OBVIOUS
  <2>5. Conn(c, Open(stream, client[c].seq, queue))
    BY <1>2, <1>3, <2>1, <2>2, <2>4 DEF Resume
  <2>6. Queued(client[c], queue)
    BY <2>3, <2>4, WindowIsQueued
  <2>7. PICK page : page = client[c] /\ page = client'[c]
    BY <1>1
  <2>8. Socket(c)'
    BY <1>1, <1>2, <2>3, <2>5, <2>6, <2>7, SocketOpens
  <2>. QED
    BY <1>1, <2>5, <2>8, SocketMoves
<1>4. CASE ResumeUnavailable(c)
  <2>1. PICK queue : queue = <<SnapshotNow("resume_unavailable")>>
    OBVIOUS
  <2>2. Queued(client[c], queue)
    BY <2>1, SnapshotIsQueued DEF Reasons
  <2>3. Conn(c, Open(stream, Len(log), queue)) /\ queue # <<>>
    BY <1>2, <1>4, <2>1 DEF ResumeUnavailable
  <2>4. PICK page : page = client[c] /\ page = client'[c]
    BY <1>1
  <2>5. Socket(c)'
    BY <1>1, <1>2, <2>2, <2>3, <2>4, SocketOpens
  <2>. QED
    BY <1>1, <2>3, <2>5, SocketMoves
<1>. QED
  BY <1>3, <1>4

\* The first message of a queue: the page has the log up to it then, and it
\* skips events only with a mark.
LEMMA FirstMessage ==
  ASSUME OverlayInv, NEW c \in Client, conn[c].pc = "open", conn[c].queue # <<>>,
         NEW m, m = Head(conn[c].queue)
  PROVE  /\ m \in Sendable /\ m.seq \in 0..Len(log)
         /\ m.type = "snapshot" => m.state = SubSeq(log, 1, m.seq)
         /\ m.type # "snapshot" => /\ client[c].stream = stream
                                   /\ m.seq = client[c].seq + 1
                                   /\ Append(client[c].view, m.says) = SubSeq(log, 1, m.seq)
         /\ client[c].stream = stream => Follows(m, client[c].seq)
         /\ \A page : page.stream = stream /\ page.seq = m.seq => Queued(page, Tail(conn[c].queue))
<1>1. PICK queue : queue = conn[c].queue
  OBVIOUS
<1>2. log \in Seq(Event) /\ queue \in Seq(Sendable) /\ Queued(client[c], queue)
  BY <1>1, OpenIs DEF OverlayInv, Queued
<1>3. /\ m \in Sendable /\ m = queue[1] /\ Len(queue) \in Nat /\ Len(queue) > 0
      /\ Tail(queue) \in Seq(Sendable) /\ Len(Tail(queue)) = Len(queue) - 1
      /\ \A i \in 1..Len(Tail(queue)) : Tail(queue)[i] = queue[i + 1]
  BY <1>1, <1>2, HeadTailProperties, LenProperties, EmptySeq
<1>4. /\ m.seq \in 0..Len(log)
      /\ \/ m.type = "event" /\ m.seq \in 1..Len(log) /\ m.says = log[m.seq]
         \/ m.type = "snapshot" /\ m.state = SubSeq(log, 1, m.seq)
  BY <1>2, <1>3, SendableIs
<1>5. IF client[c].stream = stream THEN Follows(m, client[c].seq) ELSE m.type = "snapshot"
  BY <1>1, <1>2, <1>3 DEF Queued
<1>6. ASSUME m.type # "snapshot"
      PROVE  /\ client[c].stream = stream
             /\ m.seq = client[c].seq + 1
             /\ Append(client[c].view, m.says) = SubSeq(log, 1, m.seq)
  <2>1. client[c].stream = stream /\ m.seq = client[c].seq + 1 /\ m.says = log[m.seq]
    BY <1>4, <1>5, <1>6 DEF Follows
  <2>2. client[c].seq \in Nat /\ client[c].view = SubSeq(log, 1, client[c].seq)
    BY <2>1 DEF OverlayInv, Page
  <2>3. PICK n \in Nat : n = client[c].seq
    BY <2>2
  <2>4. n + 1 <= Len(log)
    BY <1>4, <2>1, <2>3, <1>2, LenProperties
  <2>5. Append(SubSeq(log, 1, n), log[n + 1]) = SubSeq(log, 1, n + 1)
    BY <1>2, <2>4, PrefixWithOneMore
  <2>. QED
    BY <2>1, <2>2, <2>3, <2>5
<1>7. ASSUME NEW page, page.stream = stream, page.seq = m.seq
      PROVE  Queued(page, Tail(queue))
  <2>1. PICK rest : rest = Tail(queue)
    OBVIOUS
  <2>2. \A i \in 1..(Len(queue) - 1) : Follows(queue[i + 1], queue[i].seq)
    BY <1>2 DEF Queued
  <2>3. ASSUME NEW i \in 1..(Len(rest) - 1) PROVE Follows(rest[i + 1], rest[i].seq)
    <3>1. /\ i \in 1..Len(rest) /\ i + 1 \in 1..Len(rest) /\ i + 1 \in 1..(Len(queue) - 1)
      BY <1>3, <2>1
    <3>2. rest[i + 1] = queue[(i + 1) + 1] /\ rest[i] = queue[i + 1]
      BY <1>3, <2>1, <3>1
    <3>. QED
      BY <2>2, <3>1, <3>2
  <2>4. ASSUME rest # <<>> PROVE Follows(rest[1], page.seq)
    <3>1. Len(rest) > 0
      BY <1>3, <2>1, <2>4, EmptySeq, LenProperties
    <3>2. 1 \in 1..Len(rest) /\ 1 \in 1..(Len(queue) - 1)
      BY <1>3, <2>1, <3>1
    <3>3. rest[1] = queue[1 + 1] /\ Follows(queue[1 + 1], queue[1].seq)
      BY <1>3, <2>1, <2>2, <3>2
    <3>. QED
      BY <1>3, <1>7, <3>3
  <2>. QED
    BY <1>3, <1>7, <2>1, <2>3, <2>4 DEF Queued
<1>. QED
  BY <1>1, <1>3, <1>4, <1>5, <1>6, <1>7

LEMMA SendKeeps ==
  ASSUME OverlayInv, NEW c \in Client, Send(c) PROVE OverlayInv'
<1>1. PICK m, rest : m = Head(conn[c].queue) /\ rest = Tail(conn[c].queue)
  OBVIOUS
<1>2. /\ log' = log /\ stream' = stream /\ up' = up
      /\ conn[c].pc = "open" /\ conn[c].queue # <<>>
      /\ \/ Conn(c, Open(conn[c].stream, m.seq, rest)) /\ Told(c, m)
         \/ Conn(c, Closed) /\ UNCHANGED client
  BY <1>1 DEF Send
<1>3. up /\ conn[c].stream = stream
  BY <1>2, OpenIs
<1>4. /\ log \in Seq(Event) /\ stream \in Nat \ {0} /\ Len(log) \in Nat
      /\ conn = [d \in Client |-> conn[d]] /\ client = [d \in Client |-> client[d]]
  BY LenProperties DEF OverlayInv
<1>5. CASE Conn(c, Closed) /\ UNCHANGED client
  <2>1. Socket(c)'
    BY <1>4, <1>5 DEF Conn, Socket
  <2>. QED
    BY <1>2, <1>5, <2>1, SocketMoves
<1>6. CASE Conn(c, Open(conn[c].stream, m.seq, rest)) /\ Told(c, m)
  <2>1. /\ m.seq \in 0..Len(log)
        /\ m.type = "snapshot" => m.state = SubSeq(log, 1, m.seq)
        /\ m.type # "snapshot" => Append(client[c].view, m.says) = SubSeq(log, 1, m.seq)
        /\ \A page : page.stream = stream /\ page.seq = m.seq => Queued(page, rest)
    BY <1>1, <1>2, FirstMessage
  <2>2. PICK page : page = client'[c]
    OBVIOUS
  <2>3. page = [stream |-> stream, seq |-> m.seq,
                view |-> IF m.type = "snapshot" THEN m.state ELSE Append(client[c].view, m.says)]
    BY <1>3, <1>4, <1>6, <2>2 DEF Told
  <2>4. page.stream = stream /\ page.seq = m.seq /\ page.view = SubSeq(log, 1, m.seq)
    BY <2>1, <2>3
  <2>5. Queued(page, rest)
    BY <2>1, <2>4
  <2>6. Conn(c, Open(stream, m.seq, rest))
    BY <1>3, <1>6
  <2>7. Socket(c)'
    BY <1>2, <1>3, <2>2, <2>4, <2>5, <2>6, SocketOpens
  <2>8. Page(c)'
    <3>1. page.stream \in 0..stream' /\ page.seq \in Nat /\ page.seq <= Len(log') /\ page.stream # 0
      BY <1>2, <1>4, <2>1, <2>4
    <3>. QED
      BY <1>2, <2>2, <2>4, <3>1 DEF Page
  <2>9. /\ conn' = [d \in Client |-> conn'[d]] /\ client' = [d \in Client |-> client'[d]]
        /\ \A d \in Client : d # c => conn'[d] = conn[d] /\ client'[d] = client[d]
    BY <1>4, <1>6 DEF Conn, Told
  <2>. QED
    BY <1>2, <2>7, <2>8, <2>9, OnePageMoves DEF Grows
<1>. QED
  BY <1>2, <1>5, <1>6

\* The loop's poll, with an empty queue.
LEMMA PollKeeps ==
  ASSUME OverlayInv, NEW c \in Client, Poll(c) PROVE OverlayInv'
<1>1. PICK last : last = conn[c].last
  OBVIOUS
<1>2. UNCHANGED <<log, stream, up, client>> /\ conn[c].pc = "open" /\ conn[c].queue = <<>>
  BY DEF Poll
<1>3. up /\ conn[c].stream = stream /\ client[c].stream = stream /\ last = client[c].seq
  BY <1>1, <1>2, OpenIs
<1>4. last \in Nat /\ last <= Len(log) /\ log \in Seq(Event) /\ Len(log) \in Nat
  BY <1>3, LenProperties DEF OverlayInv, Page
<1>5. PICK newest \in (last + 1)..Len(log) :
        \/ /\ WindowFits(last, Min({newest, last + BatchMax}), ReplayMax)
           /\ Conn(c, Open(stream, last, Window(last, Min({newest, last + BatchMax}))))
        \/ Conn(c, Open(stream, last, <<SnapshotNow("event_window_unavailable")>>))
  BY <1>1, <1>3 DEF Poll
<1>6. PICK through : through = Min({newest, last + BatchMax})
  OBVIOUS
<1>7. through \in Nat /\ last <= through /\ through <= Len(log)
  <2>1. newest \in Nat /\ BatchMax \in Nat /\ last + BatchMax \in Nat
    BY <1>4, OverlayAssumption
  <2>2. \E x \in {newest, last + BatchMax} : \A y \in {newest, last + BatchMax} : x <= y
    BY <2>1
  <2>3. through \in {newest, last + BatchMax} /\ \A y \in {newest, last + BatchMax} : through <= y
    BY <1>6, <2>2 DEF Min
  <2>. QED
    BY <1>4, <2>1, <2>3
<1>8. PICK page : page = client[c] /\ page = client'[c]
  BY <1>2
<1>9. ASSUME NEW queue, Queued(page, queue), Conn(c, Open(stream, last, queue)) PROVE OverlayInv'
  <2>1. queue = <<>> => page.stream = stream /\ last = page.seq
    BY <1>3, <1>8
  <2>2. Socket(c)'
    BY <1>2, <1>3, <1>8, <1>9, <2>1, SocketOpens
  <2>. QED
    BY <1>2, <1>9, <2>2, SocketMoves
<1>10. Queued(page, Window(last, through))
  BY <1>3, <1>4, <1>7, <1>8, WindowIsQueued
<1>11. Queued(page, <<SnapshotNow("event_window_unavailable")>>)
  BY <1>8, SnapshotIsQueued DEF Reasons
<1>. QED
  BY <1>5, <1>6, <1>9, <1>10, <1>11

LEMMA OverlayInvInit == OverlayInit => OverlayInv
<1>. SUFFICES ASSUME OverlayInit PROVE OverlayInv
  OBVIOUS
<1>1. /\ log = <<>> /\ stream = 1 /\ conn = [c \in Client |-> Closed]
      /\ client = [c \in Client |-> Fresh]
  BY DEF OverlayInit
<1>2. \A c \in Client : Socket(c) /\ Page(c)
  BY <1>1 DEF Socket, Page, Fresh
<1>3. log \in Seq(Event)
  BY <1>1
<1>. QED
  BY <1>1, <1>2, <1>3 DEF OverlayInv

LEMMA OverlayInvStep == OverlayInv /\ [OverlayNext]_overlayVars => OverlayInv'
<1>. SUFFICES ASSUME OverlayInv, [OverlayNext]_overlayVars PROVE OverlayInv'
  OBVIOUS
<1>1. ASSUME NEW e \in Event, AppendToLog(e) PROVE OverlayInv'
  BY <1>1, NoPageMoves DEF AppendToLog, Grows
<1>2. CASE StopDaemon \/ StartDaemon \/ \E n \in 0..MaxSeq : RestoreBackup(n)
  BY <1>2, OverlayRestarts
<1>3. ASSUME NEW c \in Client, Disconnect(c) \/ Connect(c) \/ Serve(c) PROVE OverlayInv'
  BY <1>3, DisconnectKeeps, ConnectKeeps, ResumeKeeps, SendKeeps, PollKeeps DEF Serve
<1>4. CASE UNCHANGED overlayVars
  BY <1>4, NoPageMoves DEF overlayVars, Grows
<1>. QED
  BY <1>1, <1>2, <1>3, <1>4 DEF OverlayNext

THEOREM OverlayInvariant == OverlaySpec => []OverlayInv
BY OverlayInvInit, OverlayInvStep, PTL DEF OverlaySpec

\* A page has the durable history up to its sequence number, wherever its
\* sockets broke, whatever was appended meanwhile, and after any number of
\* restores that use sequence numbers again.
THEOREM PagesSeeHistory == OverlaySpec => []ViewIsHistory
<1>1. OverlayInv => ViewIsHistory
  BY DEF OverlayInv, Page, ViewIsHistory
<1>. QED
  BY <1>1, OverlayInvariant, PTL

\* One page's step: forward, and past events only with a marked snapshot.
SkipsOpenly(c) ==
  LET old == client[c]  new == client'[c]  m == Head(conn[c].queue) IN
    old # new /\ old.stream = new.stream =>
      /\ new.seq >= old.seq
      /\ new.seq > old.seq + 1 => m.type = "snapshot" /\ m.reason # "none"

LEMMA SendSkipsOpenly ==
  ASSUME OverlayInv, NEW c \in Client, Send(c) PROVE SkipsOpenly(c)
<1>1. PICK m : m = Head(conn[c].queue)
  OBVIOUS
<1>2. conn[c].pc = "open" /\ conn[c].queue # <<>> /\ (Told(c, m) \/ UNCHANGED client)
  BY <1>1 DEF Send
<1>3. CASE UNCHANGED client
  BY <1>3 DEF SkipsOpenly
<1>4. CASE Told(c, m)
  <2>1. client'[c].stream = stream /\ client'[c].seq = m.seq
    BY <1>2, <1>4, OpenIs DEF Told, OverlayInv
  <2>2. client[c].stream = stream => Follows(m, client[c].seq)
    BY <1>1, <1>2, FirstMessage
  <2>3. m.seq \in Nat /\ client[c].seq \in Nat
    <3>1. m.seq \in 0..Len(log) /\ Len(log) \in Nat
      BY <1>1, <1>2, FirstMessage, LenProperties DEF OverlayInv
    <3>. QED
      BY <3>1 DEF OverlayInv, Page
  <2>4. ASSUME client[c].stream = stream
        PROVE  /\ m.seq >= client[c].seq
               /\ m.seq > client[c].seq + 1 => m.type = "snapshot" /\ m.reason # "none"
    BY <2>2, <2>3, <2>4 DEF Follows
  <2>. QED
    BY <1>1, <2>1, <2>4 DEF SkipsOpenly
<1>. QED
  BY <1>2, <1>3, <1>4

LEMMA OverlaySkipsOpenly ==
  ASSUME OverlayInv, [OverlayNext]_overlayVars, NEW c \in Client PROVE SkipsOpenly(c)
<1>1. CASE client'[c] = client[c]
  BY <1>1 DEF SkipsOpenly
<1>2. CASE client'[c] # client[c]
  <2>1. \E d \in Client : Connect(d) \/ Send(d)
    BY <1>2 DEF OverlayNext, overlayVars, AppendToLog, StopDaemon, StartDaemon, RestoreBackup,
                Disconnect, Serve, Resume, ResumeUnavailable, Poll
  <2>2. PICK d \in Client : Connect(d) \/ Send(d)
    BY <2>1
  <2>3. d = c /\ client = [e \in Client |-> client[e]]
    BY <1>2, <2>2 DEF OverlayInv, Connect, Send, Told
  <2>4. CASE Connect(c)
    <3>1. client'[c] = Fresh /\ Fresh.stream = 0
      BY <1>2, <2>3, <2>4 DEF Connect, Fresh
    <3>2. client[c].stream = 0 => client[c] = Fresh
      BY DEF OverlayInv, Page
    <3>. QED
      BY <3>1, <3>2 DEF SkipsOpenly
  <2>5. CASE Send(c)
    BY <2>5, SendSkipsOpenly
  <2>. QED
    BY <2>2, <2>3, <2>4, <2>5
<1>. QED
  BY <1>1, <1>2

\* Within a stream a page's sequence number never goes back, and it skips
\* events only with a snapshot that is marked as a reset.
THEOREM PagesSkipOpenly == OverlaySpec => NoSilentSkip
<1>1. OverlayInv /\ [OverlayNext]_overlayVars
        => [\A c \in Client :
              LET old == client[c]  new == client'[c]  m == Head(conn[c].queue) IN
                old # new /\ old.stream = new.stream =>
                  /\ new.seq >= old.seq
                  /\ new.seq > old.seq + 1 => m.type = "snapshot" /\ m.reason # "none"]_overlayVars
  BY OverlaySkipsOpenly DEF SkipsOpenly
<1>. QED
  BY <1>1, OverlayInvariant, PTL DEF OverlaySpec, NoSilentSkip

-----------------------------------------------------------------------------
(***************************************************************************)
(* Weather and periodic information.  The mark of the gateway is between   *)
(* what the overlay was shown and the clock; an answer that the worker     *)
(* waits for is of a time the mark had reached, and no older than what was *)
(* shown; a cycle decided upon is later than the last one shown.           *)
(***************************************************************************)
Cycle(t) == t \div Interval

\* The clock, the mark and the exporter's row.
Radio ==
  /\ now \in Nat /\ mark \in Int /\ -1 <= mark /\ MarkNeverAhead
  /\ recorded = NoReading \/ recorded.time \in Nat
  /\ station = [high |-> station.high, payload |-> station.payload]
  /\ station.payload # NoReading => station.payload = recorded /\ recorded.time = station.high
  /\ station.high \in Int /\ exported \in Int /\ exported <= station.high

\* A request with a reading: accepted ones are not ahead, answered ones passed.
Carries(request) ==
  /\ request.pc \in {"validate", "accept", "answer"}
  /\ request = [pc |-> request.pc, reading |-> request.reading]
  /\ request.reading.time \in Nat
  /\ request.pc = "accept" => request.reading.time <= now + Skew
  /\ request.pc = "answer" => request.reading.time <= mark

GatewayRequests ==
  /\ handler = [h \in Handler |-> handler[h]]
  /\ \A h \in Handler : handler[h] \in {Free, [pc |-> "read"]} \/ Carries(handler[h])

LatestShown ==
  /\ latest = [cycle |-> latest.cycle, weather |-> latest.weather]
  /\ latest.cycle \in Int /\ latest.weather \in Int
  /\ latest.cycle <= Cycle(now) /\ latest.weather <= mark

\* A cycle that has begun and has not been shown.
Pending(cycle) == cycle \in Nat /\ latest.cycle < cycle /\ cycle <= Cycle(now)

Sleeping ==
  /\ worker.pc = "asleep"
  /\ worker = [pc |-> "asleep", until |-> worker.until]
  /\ worker.until \in Nat /\ latest.cycle < Cycle(worker.until)

Asking == worker = [pc |-> "safety"] /\ latest.cycle < Cycle(now)

Waiting ==
  /\ worker.pc = "weather"
  /\ worker = [pc |-> "weather", cycle |-> worker.cycle, on |-> worker.on]
  /\ Pending(worker.cycle) /\ worker.on \in Handler
  /\ handler[worker.on].pc = "answer" => latest.weather <= handler[worker.on].reading.time

Appending ==
  /\ worker.pc = "append"
  /\ worker = [pc |-> "append", event |-> worker.event]
  /\ \E type \in {"interface_info", "weather_status"}, time \in Nat :
       worker.event = Information(worker.event.cycle, type, time)
  /\ Pending(worker.event.cycle)
  /\ worker.event.type = "weather_status" =>
       latest.weather <= worker.event.time /\ worker.event.time <= mark

InformationalInv ==
  /\ Radio
  /\ GatewayRequests
  /\ LatestShown
  /\ Sleeping \/ Asking \/ Waiting \/ Appending


\* Cycles are numbered from the clock, and an interval later is another one.
LEMMA CyclesGrow ==
  ASSUME NEW t \in Nat, NEW u \in Nat, t <= u
  PROVE  Cycle(t) \in Nat /\ Cycle(u) \in Nat /\ Cycle(t) <= Cycle(u)
<1>0. Interval \in Nat /\ Interval > 0
  BY InformationalAssumption
<1>1. PICK p \in Nat : p = Cycle(t) /\ Interval * p <= t /\ t < Interval * p + Interval
  BY <1>0, Quotient DEF Cycle
<1>2. PICK q \in Nat : q = Cycle(u) /\ Interval * q <= u /\ u < Interval * q + Interval
  BY <1>0, Quotient DEF Cycle
<1>3. CASE q < p
  <2>1. Interval * q + Interval <= Interval * p /\ Interval * q \in Nat /\ Interval * p \in Nat
    BY <1>0, <1>3, Multiples
  <2>. QED
    BY <1>0, <1>1, <1>2, <2>1
<1>. QED
  BY <1>1, <1>2, <1>3

LEMMA NextCycle ==
  ASSUME NEW t \in Nat
  PROVE  /\ t + Interval \in Nat
         /\ Cycle(t) \in Nat /\ Cycle(t + Interval) \in Nat /\ Cycle(t) < Cycle(t + Interval)
<1>0. Interval \in Nat /\ Interval > 0
  BY InformationalAssumption
<1>1. PICK p \in Nat : p = Cycle(t) /\ Interval * p <= t /\ t < Interval * p + Interval
  BY <1>0, Quotient DEF Cycle
<1>2. PICK u \in Nat : u = t + Interval
  BY <1>0
<1>3. PICK q \in Nat : q = Cycle(u) /\ Interval * q <= u /\ u < Interval * q + Interval
  BY <1>0, Quotient DEF Cycle
<1>4. CASE q <= p
  <2>1. Interval * q <= Interval * p /\ Interval * q \in Nat /\ Interval * p \in Nat
    BY <1>0, <1>4, Multiples
  <2>. QED
    BY <1>0, <1>1, <1>2, <1>3, <2>1
<1>. QED
  BY <1>1, <1>2, <1>3, <1>4

\* The newest of a list of one or two is on it.
LEMMA LatestIsOneOf ==
  ASSUME NEW a, NEW b, a.time \in Int, b.time \in Int
  PROVE  Latest(<<a>>) = a /\ Latest(<<a, b>>) \in {a, b}
<1>1. Latest(<<a>>) = a
  <2>1. PICK items : items = <<a>>
    OBVIOUS
  <2>2. {i \in DOMAIN items : \A j \in DOMAIN items : items[j].time <= items[i].time} = {1}
    BY <2>1
  <2>3. (CHOOSE i \in {1} : \A j \in {1} : i <= j) = 1
    OBVIOUS
  <2>. QED
    BY <2>1, <2>2, <2>3 DEF Latest
<1>2. Latest(<<a, b>>) \in {a, b}
  <2>1. PICK items : items = <<a, b>>
    OBVIOUS
  <2>2. PICK newest : newest = {i \in DOMAIN items : \A j \in DOMAIN items : items[j].time <= items[i].time}
    OBVIOUS
  <2>3. DOMAIN items = {1, 2} /\ items[1] = a /\ items[2] = b
    BY <2>1
  <2>4. newest \subseteq {1, 2} /\ newest # {}
    BY <2>2, <2>3
  <2>5. \E i \in newest : \A j \in newest : i <= j
    <3>1. newest = {1} \/ newest = {2} \/ newest = {1, 2}
      BY <2>4
    <3>2. CASE newest = {1} \/ newest = {2}
      BY <3>2
    <3>3. CASE newest = {1, 2}
      BY <3>3
    <3>. QED
      BY <3>1, <3>2, <3>3
  <2>6. (CHOOSE i \in newest : \A j \in newest : i <= j) \in newest
    BY <2>5
  <2>. QED
    BY <2>1, <2>2, <2>3, <2>4, <2>6 DEF Latest
<1>. QED
  BY <1>1, <1>2

-----------------------------------------------------------------------------
\* A request moves alone.
LEMMA OneRequestMoves ==
  ASSUME GatewayRequests, NEW h \in Handler, NEW next, Handle(h, next),
         UNCHANGED now, mark \in Int, mark' \in Int, mark <= mark',
         next \in {Free, [pc |-> "read"]} \/ Carries(next)'
  PROVE  GatewayRequests' /\ handler'[h] = next /\ \A k \in Handler \ {h} : handler'[k] = handler[k]
<1>1. handler' = [k \in Handler |-> IF k = h THEN next ELSE handler[k]]
  BY DEF Handle, GatewayRequests
<1>2. ASSUME NEW k \in Handler
      PROVE  (handler[k] \in {Free, [pc |-> "read"]} \/ Carries(handler[k]))'
  <2>1. CASE k = h
    BY <1>1, <2>1 DEF Carries
  <2>2. CASE k # h
    <3>1. PICK r : r = handler[k] /\ r = handler'[k]
      BY <1>1, <2>2
    <3>2. r \in {Free, [pc |-> "read"]} \/ Carries(r)
      BY <3>1 DEF GatewayRequests
    <3>3. r \in {Free, [pc |-> "read"]} \/ Carries(r)'
      BY <3>2, <3>1 DEF Carries
    <3>. QED
      BY <3>1, <3>3 DEF Carries
  <2>. QED
    BY <2>1, <2>2
<1>. QED
  BY <1>1, <1>2 DEF GatewayRequests

LEMMA LaterIsFurther == \A m, n, s \in Nat : m <= n => m + s <= n + s
OBVIOUS

\* And none moves when only the clock does.
LEMMA NoRequestMoves ==
  ASSUME Radio, GatewayRequests, UNCHANGED <<mark, handler>>, now' \in Nat, now <= now'
  PROVE  GatewayRequests'
<1>0. Skew \in Nat /\ now \in Nat
  BY WeatherAssumption DEF Radio
<1>1. ASSUME NEW h \in Handler, Carries(handler[h]) PROVE Carries(handler[h])'
  <2>1. PICK r : r = handler[h] /\ r = handler'[h]
    OBVIOUS
  <2>2. Carries(r)
    BY <1>1, <2>1
  <2>3. r.pc = "accept" => r.reading.time <= now' + Skew
    <3>1. now + Skew <= now' + Skew
      BY <1>0, LaterIsFurther
    <3>2. r.reading.time \in Nat /\ (r.pc = "accept" => r.reading.time <= now + Skew)
      BY <2>2 DEF Carries
    <3>. QED
      BY <1>0, <3>1, <3>2
  <2>4. Carries(r)'
    BY <2>1, <2>2, <2>3 DEF Carries
  <2>. QED
    BY <2>1, <2>4 DEF Carries
<1>2. \A h \in Handler : (handler[h] \in {Free, [pc |-> "read"]} \/ Carries(handler[h]))'
  BY <1>1 DEF GatewayRequests, Free
<1>3. handler' = [h \in Handler |-> handler'[h]]
  BY DEF GatewayRequests
<1>. QED
  BY <1>2, <1>3 DEF GatewayRequests

\* What the worker may count on of a step of the exporter or the gateway.
GatewayMoves ==
  /\ Radio' /\ GatewayRequests'
  /\ now <= now' /\ mark <= mark'
  /\ \A h \in Handler :
       handler'[h].pc = "answer" => handler'[h] = handler[h] \/ mark <= handler'[h].reading.time

LEMMA TickKeeps ==
  ASSUME Radio, GatewayRequests, Tick PROVE GatewayMoves
<1>1. now \in Nat /\ now' = now + 1 /\ mark \in Int /\ Skew \in Nat /\ UNCHANGED <<exporter, mark, handler>>
  BY WeatherAssumption DEF Radio, Tick
<1>2. now' \in Nat /\ now <= now' /\ mark <= mark' /\ now + Skew <= now' + Skew
  BY <1>1
<1>3. GatewayRequests'
  BY <1>1, <1>2, NoRequestMoves
<1>4. mark' <= now' + Skew
  BY <1>1, <1>2 DEF Radio, MarkNeverAhead
<1>5. Radio'
  BY <1>1, <1>2, <1>4 DEF Radio, MarkNeverAhead, NoReading, exporter
<1>. QED
  BY <1>1, <1>2, <1>3, <1>5 DEF GatewayMoves

\* A frame moves the row forward, withdraws its reading, or is lost.
LEMMA RowMoves ==
  ASSUME Radio, NEW r, r.time \in Nat, UNCHANGED <<now, exported, mark>>,
         \/ /\ recorded' = r
            /\ \/ station' = [high |-> r.time, payload |-> r] /\ r.time >= station.high
               \/ station' = [station EXCEPT !.payload = NoReading]
         \/ UNCHANGED <<recorded, station>>
  PROVE  Radio'
<1>1. PICK high \in Int : high = station.high /\ exported \in Int /\ exported <= high
  BY DEF Radio
<1>2. PICK payload : station = [high |-> high, payload |-> payload]
  BY <1>1 DEF Radio
<1>3. now' \in Nat /\ mark' \in Int /\ -1 <= mark' /\ MarkNeverAhead' /\ exported' = exported
  BY DEF Radio, MarkNeverAhead
<1>4. CASE UNCHANGED <<recorded, station>>
  BY <1>3, <1>4 DEF Radio, NoReading
<1>5. CASE recorded' = r /\ station' = [high |-> r.time, payload |-> r] /\ r.time >= station.high
  <2>1. station'.high = r.time /\ station'.payload = r
    BY <1>5
  <2>2. exported' <= station'.high /\ exported' \in Int /\ station'.high \in Int
    BY <1>1, <1>3, <1>5, <2>1
  <2>. QED
    BY <1>3, <1>5, <2>1, <2>2 DEF Radio
<1>6. CASE recorded' = r /\ station' = [station EXCEPT !.payload = NoReading]
  <2>1. station' = [high |-> high, payload |-> NoReading]
    BY <1>2, <1>6
  <2>2. station'.high = high /\ station'.payload = NoReading
    BY <2>1
  <2>. QED
    BY <1>1, <1>3, <1>6, <2>1, <2>2 DEF Radio
<1>. QED
  BY <1>4, <1>5, <1>6

LEMMA RecordPacketKeeps ==
  ASSUME Radio, GatewayRequests, NEW r \in Frames, RecordPacket(r) PROVE GatewayMoves
<1>1. now \in Nat /\ mark \in Int /\ UNCHANGED <<now, exported, mark, handler>>
  BY DEF Radio, RecordPacket
<1>2. r.time \in Nat
  BY DEF Frames, Received, Reading
<1>3. now <= now' /\ mark <= mark' /\ now' \in Nat
  BY <1>1
<1>4. GatewayRequests'
  BY <1>1, <1>3, NoRequestMoves
<1>5. \/ /\ recorded' = r
         /\ \/ station' = [high |-> r.time, payload |-> r] /\ r.time >= station.high
            \/ station' = [station EXCEPT !.payload = NoReading]
      \/ UNCHANGED <<recorded, station>>
  BY DEF RecordPacket
<1>6. Radio'
  BY <1>1, <1>2, <1>5, RowMoves
<1>. QED
  BY <1>1, <1>3, <1>4, <1>6 DEF GatewayMoves

LEMMA RestartGatewayKeeps ==
  ASSUME Radio, GatewayRequests, RestartGateway PROVE GatewayMoves
<1>1. UNCHANGED <<now, exporter, mark>> /\ handler' = [h \in Handler |-> Free]
  BY DEF RestartGateway
<1>2. Radio' /\ now <= now' /\ mark <= mark'
  BY <1>1 DEF Radio, MarkNeverAhead, NoReading, exporter
<1>3. \A h \in Handler : handler'[h] = Free
  BY <1>1
<1>4. GatewayRequests'
  BY <1>1, <1>3 DEF GatewayRequests, Free
<1>. QED
  BY <1>2, <1>3, <1>4 DEF GatewayMoves, Free

\* The exporter's row stands.
LEMMA RadioStands ==
  ASSUME Radio, UNCHANGED <<now, exporter, mark>> PROVE Radio'
BY DEF Radio, MarkNeverAhead, NoReading, exporter

\* A request that moves and leaves the rest alone, short of an answer.
LEMMA OneKeeps ==
  ASSUME Radio, GatewayRequests, NEW h \in Handler, NEW next, Handle(h, next),
         Radio', UNCHANGED <<now, mark>>,
         \/ next \in {Free, [pc |-> "read"]}
         \/ Carries(next)' /\ next.pc # "answer"
  PROVE  GatewayMoves
<1>1. now <= now' /\ mark <= mark' /\ mark \in Int /\ mark' \in Int
  BY DEF Radio
<1>2. GatewayRequests' /\ handler'[h] = next /\ \A k \in Handler \ {h} : handler'[k] = handler[k]
  BY <1>1, OneRequestMoves
<1>3. next.pc # "answer"
  BY DEF Free
<1>. QED
  BY <1>1, <1>2, <1>3 DEF GatewayMoves

\* A read ends with a reading to validate.
LEMMA ReadKeeps ==
  ASSUME Radio, GatewayRequests, NEW h \in Handler, NEW r, r.time \in Nat,
         Handle(h, [pc |-> "validate", reading |-> r]), Radio', UNCHANGED <<now, mark>>
  PROVE  GatewayMoves
<1>1. PICK next : next = [pc |-> "validate", reading |-> r]
  OBVIOUS
<1>2. Carries(next)' /\ next.pc # "answer"
  BY <1>1 DEF Carries
<1>. QED
  BY <1>1, <1>2, OneKeeps

\* The reading of a row is the last one recorded, and none was exported later.
LEMMA ReadSnapshotIs ==
  ASSUME Radio, NEW h \in Handler, ReadSnapshot(h)
  PROVE  /\ \E r : /\ r = recorded /\ r.time \in Nat /\ exported <= r.time
                   /\ Handle(h, [pc |-> "validate", reading |-> r])
         /\ Radio' /\ UNCHANGED <<now, mark>>
<1>1. PICK r : r = recorded /\ station.payload = r /\ r # NoReading /\ r.time = station.high
  BY DEF Radio, ReadSnapshot
<1>2. r.time \in Nat /\ exported <= r.time
  BY <1>1 DEF Radio
<1>3. Handle(h, [pc |-> "validate", reading |-> r]) /\ exported' = r.time
      /\ UNCHANGED <<now, station, recorded, mark>>
  BY <1>1 DEF ReadSnapshot
<1>4. exported' \in Int /\ exported' <= station'.high
  BY <1>1, <1>2, <1>3
<1>5. Radio'
  BY <1>3, <1>4 DEF Radio, MarkNeverAhead, NoReading
<1>. QED
  BY <1>1, <1>2, <1>3, <1>5

\* That of a list is one that was received.
LEMMA ReadArrayIs ==
  ASSUME Radio, NEW h \in Handler, ReadArray(h)
  PROVE  \E r : r.time \in Nat /\ Handle(h, [pc |-> "validate", reading |-> r])
<1>1. PICK kept \in Received :
        \E items \in {<<kept>>} \cup UNION {{<<old, kept>>, <<kept, old>>} : old \in {recorded} \ {NoReading}} :
          Handle(h, [pc |-> "validate", reading |-> Latest(items)])
  BY DEF ReadArray
<1>2. PICK items \in {<<kept>>} \cup UNION {{<<old, kept>>, <<kept, old>>} : old \in {recorded} \ {NoReading}} :
        Handle(h, [pc |-> "validate", reading |-> Latest(items)])
  BY <1>1
<1>3. kept.time \in Nat
  BY DEF Received, Reading
<1>4. CASE items = <<kept>>
  <2>1. kept.time \in Int
    BY <1>3
  <2>2. Latest(<<kept>>) = kept
    BY <2>1, LatestIsOneOf
  <2>. QED
    BY <1>2, <1>3, <1>4, <2>2
<1>5. ASSUME NEW old, old = recorded, old # NoReading, items \in {<<old, kept>>, <<kept, old>>}
      PROVE  \E r : r.time \in Nat /\ Handle(h, [pc |-> "validate", reading |-> r])
  <2>1. old.time \in Nat
    BY <1>5 DEF Radio
  <2>2. kept.time \in Int /\ old.time \in Int
    BY <1>3, <2>1
  <2>3. Latest(<<kept, old>>) \in {kept, old} /\ Latest(<<old, kept>>) \in {kept, old}
    BY <2>2, LatestIsOneOf
  <2>4. Latest(items) \in {kept, old}
    BY <1>5, <2>3
  <2>. QED
    BY <1>2, <1>3, <2>1, <2>4
<1>. QED
  BY <1>2, <1>4, <1>5

LEMMA ValidateKeeps ==
  ASSUME Radio, GatewayRequests, NEW h \in Handler, Validate(h) PROVE GatewayMoves
<1>1. PICK r : r = handler[h].reading
  OBVIOUS
<1>2. Carries(handler[h])
  BY DEF Validate, GatewayRequests, Free
<1>3. r.time \in Nat /\ now \in Nat /\ Skew \in Nat
  BY <1>1, <1>2, WeatherAssumption DEF Carries, Radio
<1>4. PICK next : next = [pc |-> "accept", reading |-> r]
  OBVIOUS
<1>5. Handle(h, next) /\ r.time - now <= Skew /\ UNCHANGED <<now, exporter, mark>>
  BY <1>1, <1>4 DEF Validate, Current
<1>6. r.time <= now' + Skew
  BY <1>3, <1>5
<1>7. Carries(next)' /\ next.pc # "answer"
  BY <1>3, <1>4, <1>6 DEF Carries
<1>. QED
  BY <1>5, <1>7, RadioStands, OneKeeps

LEMMA AcceptKeeps ==
  ASSUME Radio, GatewayRequests, NEW h \in Handler, AcceptWeatherTime(h) PROVE GatewayMoves
<1>1. PICK r : r = handler[h].reading
  OBVIOUS
<1>2. Carries(handler[h]) /\ handler[h].pc = "accept"
  BY DEF AcceptWeatherTime, GatewayRequests, Free
<1>3. r.time \in Nat /\ r.time <= now + Skew /\ mark \in Int
  BY <1>1, <1>2 DEF Carries, Radio
<1>4. PICK next : next = [pc |-> "answer", reading |-> r]
  OBVIOUS
<1>5. /\ Handle(h, next) /\ mark <= r.time /\ mark' = r.time
      /\ UNCHANGED <<now, exporter>>
  BY <1>1, <1>3, <1>4 DEF AcceptWeatherTime
<1>6. mark' \in Int /\ mark <= mark' /\ -1 <= mark' /\ mark' <= now' + Skew /\ r.time <= mark'
  BY <1>3, <1>5
<1>7. Radio'
  BY <1>5, <1>6 DEF Radio, MarkNeverAhead, NoReading, exporter
<1>8. Carries(next)'
  BY <1>3, <1>4, <1>6 DEF Carries
<1>9. GatewayRequests' /\ handler'[h] = next /\ \A k \in Handler \ {h} : handler'[k] = handler[k]
  BY <1>3, <1>5, <1>6, <1>8, OneRequestMoves
<1>10. now <= now'
  BY <1>5 DEF Radio
<1>. QED
  BY <1>4, <1>5, <1>6, <1>7, <1>9, <1>10 DEF GatewayMoves

LEMMA WeatherKeeps ==
  ASSUME Radio, GatewayRequests, WeatherNext PROVE GatewayMoves
<1>1. CASE Tick
  BY <1>1, TickKeeps
<1>2. CASE \E r \in Frames : RecordPacket(r)
  BY <1>2, RecordPacketKeeps
<1>3. CASE RestartGateway
  BY <1>3, RestartGatewayKeeps
<1>4. ASSUME NEW h \in Handler,
             ReadSnapshot(h) \/ ReadArray(h) \/ Validate(h) \/ AcceptWeatherTime(h) \/ FetchFails(h)
      PROVE  GatewayMoves
  <2>1. CASE ReadSnapshot(h)
    BY <2>1, ReadSnapshotIs, ReadKeeps
  <2>2. CASE ReadArray(h)
    <3>1. UNCHANGED <<now, exporter, mark>>
      BY <2>2 DEF ReadArray
    <3>. QED
      BY <2>2, <3>1, RadioStands, ReadArrayIs, ReadKeeps
  <2>3. CASE Validate(h)
    BY <2>3, ValidateKeeps
  <2>4. CASE AcceptWeatherTime(h)
    BY <2>4, AcceptKeeps
  <2>5. CASE FetchFails(h)
    <3>1. PICK next : next = Free
      OBVIOUS
    <3>2. Handle(h, next) /\ UNCHANGED <<now, exporter, mark>>
      BY <2>5, <3>1 DEF FetchFails
    <3>. QED
      BY <3>1, <3>2, RadioStands, OneKeeps
  <2>. QED
    BY <1>4, <2>1, <2>2, <2>3, <2>4, <2>5
<1>. QED
  BY <1>1, <1>2, <1>3, <1>4 DEF WeatherNext

-----------------------------------------------------------------------------
\* The worker while the exporter or the gateway moves.
LEMMA WorkerStays ==
  ASSUME InformationalInv, GatewayMoves, UNCHANGED <<worker, latest>>
  PROVE  InformationalInv'
<1>1. now \in Nat /\ now' \in Nat /\ now <= now' /\ mark \in Int /\ mark' \in Int /\ mark <= mark'
  BY DEF InformationalInv, GatewayMoves, Radio
<1>2. PICK m \in Nat, n \in Nat : m = Cycle(now) /\ n = Cycle(now') /\ m <= n
  BY <1>1, CyclesGrow
<1>3. Cycle(now)' = n
  BY <1>2 DEF Cycle
<1>4. latest.cycle \in Int /\ latest.weather \in Int /\ latest.cycle <= m /\ latest.weather <= mark
  BY <1>2 DEF InformationalInv, LatestShown
<1>5. LatestShown'
  <2>1. latest' = [cycle |-> latest'.cycle, weather |-> latest'.weather]
    BY DEF InformationalInv, LatestShown
  <2>2. latest.cycle <= n /\ latest.weather <= mark'
    BY <1>1, <1>2, <1>4
  <2>. QED
    BY <1>3, <1>4, <2>1, <2>2 DEF LatestShown
<1>6. ASSUME NEW c, Pending(c) PROVE Pending(c)'
  <2>1. c \in Nat /\ latest.cycle < c /\ c <= m
    BY <1>2, <1>6 DEF Pending
  <2>2. c <= n
    BY <1>2, <2>1
  <2>. QED
    BY <1>3, <2>1, <2>2 DEF Pending
<1>7. CASE Sleeping
  <2>1. worker'.until = worker.until /\ latest' = latest
    OBVIOUS
  <2>2. Cycle(worker.until)' = Cycle(worker.until)
    BY <2>1 DEF Cycle
  <2>3. Sleeping'
    BY <1>7, <2>1, <2>2 DEF Sleeping
  <2>. QED
    BY <1>5, <2>3 DEF InformationalInv, GatewayMoves
<1>8. CASE Asking
  <2>1. worker = [pc |-> "safety"] /\ latest.cycle < m
    BY <1>2, <1>8 DEF Asking
  <2>2. latest.cycle < n
    BY <1>2, <1>4, <2>1
  <2>3. Asking'
    BY <1>3, <2>1, <2>2 DEF Asking
  <2>. QED
    BY <1>5, <2>3 DEF InformationalInv, GatewayMoves
<1>9. CASE Waiting
  <2>1. PICK c \in Nat, h \in Handler :
          /\ c = worker.cycle /\ h = worker.on
          /\ worker = [pc |-> "weather", cycle |-> c, on |-> h]
          /\ Pending(c)
    <3>1. worker.cycle \in Nat
      BY <1>9 DEF Waiting, Pending
    <3>. QED
      BY <1>9, <3>1 DEF Waiting
  <2>2. Pending(c)'
    BY <1>6, <2>1
  <2>3. ASSUME handler'[h].pc = "answer" PROVE latest.weather <= handler'[h].reading.time
    <3>1. CASE handler'[h] = handler[h]
      BY <1>9, <2>1, <2>3, <3>1 DEF Waiting
    <3>2. CASE mark <= handler'[h].reading.time
      <4>1. Carries(handler[h])'
        BY <2>1, <2>3 DEF GatewayMoves, GatewayRequests, Free
      <4>2. handler'[h].reading.time \in Nat
        BY <4>1 DEF Carries
      <4>. QED
        BY <1>1, <1>4, <3>2, <4>2
    <3>. QED
      BY <2>3, <3>1, <3>2 DEF GatewayMoves
  <2>4. Waiting'
    BY <2>1, <2>2, <2>3 DEF Waiting
  <2>. QED
    BY <1>5, <2>4 DEF InformationalInv, GatewayMoves
<1>10. CASE Appending
  <2>1. PICK type \in {"interface_info", "weather_status"}, time \in Nat :
          worker.event = Information(worker.event.cycle, type, time)
    BY <1>10 DEF Appending
  <2>2. PICK c : /\ c = worker.event.cycle /\ worker.event = Information(c, type, time)
                 /\ worker = [pc |-> "append", event |-> worker.event]
                 /\ Pending(c)
    BY <1>10, <2>1 DEF Appending
  <2>3. Pending(c)'
    BY <1>6, <2>2
  <2>4. ASSUME type = "weather_status" PROVE latest.weather <= time /\ time <= mark'
    <3>1. latest.weather <= time /\ time <= mark
      BY <1>10, <2>2, <2>4 DEF Appending, Information
    <3>. QED
      BY <1>1, <3>1
  <2>5. /\ worker' = [pc |-> "append", event |-> worker'.event]
        /\ worker'.event = Information(c, type, time) /\ worker'.event.cycle = c
        /\ worker'.event.type = type /\ worker'.event.time = time
    BY <2>2 DEF Information
  <2>6. Appending'
    BY <2>3, <2>4, <2>5 DEF Appending, Information
  <2>. QED
    BY <1>5, <2>6 DEF InformationalInv, GatewayMoves
<1>. QED
  BY <1>7, <1>8, <1>9, <1>10 DEF InformationalInv

\* The worker goes back to sleep, whatever the gateway is about.
LEMMA WorkerSleeps ==
  ASSUME InformationalInv, UNCHANGED <<now, exporter, mark, latest>>,
         GatewayRequests', worker' = Asleep
  PROVE  InformationalInv'
<1>1. PICK n \in Nat : n = now
  BY DEF InformationalInv, Radio
<1>2. PICK u \in Nat : u = n + Interval /\ Cycle(n) \in Nat /\ Cycle(u) \in Nat /\ Cycle(n) < Cycle(u)
  BY NextCycle
<1>3. worker' = [pc |-> "asleep", until |-> u]
  BY <1>1, <1>2 DEF Asleep
<1>4. latest.cycle \in Int /\ latest.cycle <= Cycle(n)
  BY <1>1 DEF InformationalInv, LatestShown
<1>5. latest.cycle < Cycle(u)
  BY <1>2, <1>4
<1>6. worker'.until = u /\ Cycle(worker.until)' = Cycle(u)
  BY <1>3 DEF Cycle
<1>7. Sleeping'
  BY <1>3, <1>5, <1>6 DEF Sleeping
<1>8. Radio'
  BY DEF InformationalInv, Radio, MarkNeverAhead, NoReading, exporter
<1>9. LatestShown'
  BY DEF InformationalInv, LatestShown, Cycle
<1>. QED
  BY <1>7, <1>8, <1>9 DEF InformationalInv

\* The same requests stand.
LEMMA RequestsStand ==
  ASSUME GatewayRequests, UNCHANGED <<now, mark, handler>> PROVE GatewayRequests'
BY DEF GatewayRequests, Carries, Free

\* The worker goes on within its cycle.
LEMMA WorkerGoesOn ==
  ASSUME InformationalInv, UNCHANGED <<now, exporter, mark, latest>>,
         GatewayRequests', Asking' \/ Waiting' \/ Appending'
  PROVE  InformationalInv'
<1>1. Radio'
  BY DEF InformationalInv, Radio, MarkNeverAhead, NoReading, exporter
<1>2. LatestShown'
  BY DEF InformationalInv, LatestShown, Cycle
<1>. QED
  BY <1>1, <1>2 DEF InformationalInv

LEMMA WakeKeeps == ASSUME InformationalInv, Wake PROVE InformationalInv'
<1>1. Sleeping /\ now >= worker.until /\ worker' = [pc |-> "safety"] /\ UNCHANGED <<weatherVars, latest>>
  BY DEF InformationalInv, Wake, Asking, Waiting, Appending
<1>2. PICK u \in Nat, n \in Nat : u = worker.until /\ n = now /\ u <= n
  BY <1>1 DEF InformationalInv, Radio, Sleeping
<1>3. PICK p \in Nat, q \in Nat : p = Cycle(u) /\ q = Cycle(n) /\ p <= q
  BY <1>2, CyclesGrow
<1>4. latest.cycle \in Int /\ latest.cycle < p
  BY <1>1, <1>2, <1>3 DEF InformationalInv, LatestShown, Sleeping
<1>5. latest.cycle < q
  BY <1>3, <1>4
<1>6. Cycle(now)' = q /\ latest' = latest
  BY <1>1, <1>2, <1>3 DEF Cycle, weatherVars
<1>7. Asking'
  BY <1>1, <1>5, <1>6 DEF Asking
<1>8. GatewayRequests'
  BY <1>1, RequestsStand DEF InformationalInv, weatherVars
<1>. QED
  BY <1>1, <1>7, <1>8, WorkerGoesOn DEF weatherVars

\* The cycle that the worker decides upon has begun, and none of it was shown.
LEMMA CurrentIsPending ==
  ASSUME InformationalInv, worker.pc = "safety"
  PROVE  CurrentCycle = Cycle(now) /\ Pending(CurrentCycle)
<1>1. Asking
  BY DEF InformationalInv, Sleeping, Waiting, Appending
<1>2. CurrentCycle = Cycle(now)
  BY DEF CurrentCycle, Cycle
<1>3. now \in Nat
  BY DEF InformationalInv, Radio
<1>4. PICK m \in Nat : m = Cycle(now)
  BY <1>3, NextCycle
<1>. QED
  BY <1>1, <1>2, <1>4 DEF Asking, Pending

LEMMA ChoiceIs ==
  \A cycle : ChooseForCycle(cycle) \in {"none", "interface_info", "weather"}
BY DEF ChooseForCycle

LEMMA DecideCycleKeeps == ASSUME InformationalInv, DecideCycle PROVE InformationalInv'
<1>1. PICK c : c = CurrentCycle /\ c = Cycle(now) /\ Pending(c)
  BY CurrentIsPending DEF DecideCycle
<1>2. CASE worker' = Asleep /\ UNCHANGED <<weatherVars, latest>>
  BY <1>2, RequestsStand, WorkerSleeps DEF InformationalInv, weatherVars
<1>3. CASE /\ worker' = [pc |-> "append", event |-> Information(c, "interface_info", 0)]
           /\ UNCHANGED <<weatherVars, latest>>
  <2>1. Pending(c)'
    BY <1>1, <1>3 DEF Pending, Cycle, weatherVars
  <2>2. /\ worker'.event = Information(c, "interface_info", 0) /\ worker'.event.cycle = c
        /\ worker'.event.type = "interface_info" /\ 0 \in Nat
    BY <1>3 DEF Information
  <2>3. Appending'
    BY <1>3, <2>1, <2>2 DEF Appending, Information
  <2>4. GatewayRequests'
    BY <1>3, RequestsStand DEF InformationalInv, weatherVars
  <2>. QED
    BY <1>3, <2>3, <2>4, WorkerGoesOn DEF weatherVars
<1>4. CASE \E h \in Handler :
             /\ RequestWeather(h)
             /\ worker' = [pc |-> "weather", cycle |-> c, on |-> h]
             /\ UNCHANGED <<now, exporter, mark, latest>>
  <2>1. PICK h \in Handler :
             /\ RequestWeather(h)
             /\ worker' = [pc |-> "weather", cycle |-> c, on |-> h]
             /\ UNCHANGED <<now, exporter, mark, latest>>
    BY <1>4
  <2>2. PICK next : next = [pc |-> "read"] /\ Handle(h, next)
    BY <2>1 DEF RequestWeather
  <2>3. GatewayRequests' /\ handler'[h] = next
    <3>1. mark \in Int /\ mark' \in Int /\ mark <= mark'
      BY <2>1 DEF InformationalInv, Radio
    <3>. QED
      BY <2>1, <2>2, <3>1, OneRequestMoves DEF InformationalInv
  <2>4. Pending(c)'
    BY <1>1, <2>1 DEF Pending, Cycle
  <2>5. handler'[h].pc # "answer"
    BY <2>2, <2>3
  <2>6. Waiting'
    BY <2>1, <2>4, <2>5 DEF Waiting
  <2>. QED
    BY <2>1, <2>3, <2>6, WorkerGoesOn
<1>5. PICK choice : choice = ChooseForCycle(c)
  OBVIOUS
<1>6. choice \in {"none", "interface_info", "weather"}
  BY <1>5, ChoiceIs
<1>7. CASE choice = "none"
  BY <1>1, <1>2, <1>5, <1>7 DEF DecideCycle
<1>8. CASE choice = "interface_info"
  BY <1>1, <1>2, <1>3, <1>5, <1>8 DEF DecideCycle
<1>9. CASE choice = "weather"
  BY <1>1, <1>2, <1>4, <1>5, <1>9 DEF DecideCycle
<1>. QED
  BY <1>6, <1>7, <1>8, <1>9

LEMMA ReceiveWeatherKeeps == ASSUME InformationalInv, ReceiveWeather PROVE InformationalInv'
<1>1. Waiting
  BY DEF InformationalInv, ReceiveWeather, Sleeping, Asking, Appending
<1>2. PICK h \in Handler : h = worker.on
  BY <1>1 DEF Waiting
<1>3. PICK r : r = handler[h].reading
  OBVIOUS
<1>4. PICK c : c = worker.cycle /\ Pending(c)
  BY <1>1 DEF Waiting
<1>5. Carries(handler[h]) /\ handler[h].pc = "answer"
  BY <1>2 DEF ReceiveWeather, InformationalInv, GatewayRequests, Free
<1>6. r.time \in Nat /\ r.time <= mark /\ latest.weather <= r.time
  BY <1>1, <1>2, <1>3, <1>5 DEF Carries, Waiting
<1>7. PICK next : next = Free /\ Handle(h, next)
  BY <1>2 DEF ReceiveWeather
<1>8. UNCHANGED <<now, exporter, mark, latest>>
  BY DEF ReceiveWeather
<1>9. GatewayRequests'
  <2>1. mark \in Int /\ mark' \in Int /\ mark <= mark'
    BY <1>8 DEF InformationalInv, Radio
  <2>. QED
    BY <1>7, <1>8, <2>1, OneRequestMoves DEF InformationalInv
<1>10. CASE worker' = Asleep
  BY <1>8, <1>9, <1>10, WorkerSleeps
<1>11. CASE worker' = [pc |-> "append", event |-> Information(c, "weather_status", r.time)]
  <2>1. Pending(c)'
    BY <1>4, <1>8 DEF Pending, Cycle
  <2>2. PICK time \in Nat : time = r.time
    BY <1>6
  <2>3. /\ worker'.event = Information(c, "weather_status", time) /\ worker'.event.cycle = c
        /\ worker'.event.type = "weather_status" /\ worker'.event.time = time
    BY <1>11, <2>2 DEF Information
  <2>4. latest'.weather <= time /\ time <= mark'
    BY <1>6, <1>8, <2>2
  <2>5. Appending'
    BY <1>11, <2>1, <2>3, <2>4 DEF Appending, Information
  <2>. QED
    BY <1>8, <1>9, <2>5, WorkerGoesOn
<1>. QED
  BY <1>2, <1>3, <1>4, <1>10, <1>11 DEF ReceiveWeather

\* What is appended: of a later cycle, and of a time no earlier.
LEMMA AppendedIs ==
  ASSUME InformationalInv, AppendInformation
  PROVE  \E c \in Nat, w \in Int :
           /\ worker.event.cycle = c /\ latest' = [cycle |-> c, weather |-> w]
           /\ latest.cycle < c /\ c <= Cycle(now)
           /\ latest.weather <= w /\ w <= mark
<1>1. Appending
  BY DEF InformationalInv, AppendInformation, Sleeping, Asking, Waiting
<1>2. PICK type \in {"interface_info", "weather_status"}, time \in Nat :
        worker.event = Information(worker.event.cycle, type, time)
  BY <1>1 DEF Appending
<1>3. PICK c : c = worker.event.cycle /\ Pending(c) /\ worker.event = Information(c, type, time)
  BY <1>1, <1>2 DEF Appending
<1>4. worker.event.type = type /\ worker.event.time = time
  BY <1>3 DEF Information
<1>5. PICK v \in Int : v = latest.weather /\ v <= mark
  BY DEF InformationalInv, LatestShown
<1>6. PICK w \in Int : w = IF type = "weather_status" THEN time ELSE v
  OBVIOUS
<1>7. v <= w /\ w <= mark
  BY <1>1, <1>4, <1>5, <1>6 DEF Appending
<1>8. latest' = [cycle |-> c, weather |-> w]
  BY <1>3, <1>4, <1>5, <1>6 DEF AppendInformation
<1>. QED
  BY <1>3, <1>5, <1>7, <1>8 DEF Pending

LEMMA AppendInformationKeeps == ASSUME InformationalInv, AppendInformation PROVE InformationalInv'
<1>1. PICK c \in Nat, w \in Int :
           /\ latest' = [cycle |-> c, weather |-> w]
           /\ c <= Cycle(now) /\ w <= mark
  BY AppendedIs
<1>2. worker' = Asleep /\ UNCHANGED <<now, exporter, mark, handler>>
  BY DEF AppendInformation, weatherVars
<1>3. PICK n \in Nat : n = now
  BY DEF InformationalInv, Radio
<1>4. PICK u \in Nat : u = n + Interval /\ Cycle(n) \in Nat /\ Cycle(u) \in Nat /\ Cycle(n) < Cycle(u)
  BY NextCycle
<1>5. worker' = [pc |-> "asleep", until |-> u]
  BY <1>2, <1>3, <1>4 DEF Asleep
<1>6. c < Cycle(u)
  BY <1>1, <1>3, <1>4
<1>7. Sleeping'
  <2>1. worker'.until = u /\ Cycle(worker.until)' = Cycle(u) /\ latest'.cycle = c
    BY <1>1, <1>5 DEF Cycle
  <2>. QED
    BY <1>5, <1>6, <2>1 DEF Sleeping
<1>8. Radio'
  BY <1>2 DEF InformationalInv, Radio, MarkNeverAhead, NoReading, exporter
<1>9. LatestShown'
  <2>1. Cycle(now)' = Cycle(now) /\ latest'.cycle = c /\ latest'.weather = w
    BY <1>1, <1>2 DEF Cycle
  <2>. QED
    BY <1>1, <1>2, <2>1 DEF LatestShown
<1>10. GatewayRequests'
  BY <1>2, RequestsStand DEF InformationalInv
<1>. QED
  BY <1>7, <1>8, <1>9, <1>10 DEF InformationalInv

\* An answer that is dropped is not the one the worker waits for.
LEMMA DropAnswerKeeps ==
  ASSUME InformationalInv, NEW h \in Handler, DropAnswer(h) PROVE InformationalInv'
<1>1. PICK next : next = Free /\ Handle(h, next)
  BY DEF DropAnswer
<1>2. UNCHANGED <<now, exporter, mark, worker, latest>>
  BY DEF DropAnswer
<1>3. GatewayMoves
  BY <1>1, <1>2, RadioStands, OneKeeps DEF InformationalInv
<1>. QED
  BY <1>2, <1>3, WorkerStays

LEMMA InformationalInvInit == InformationalInit => InformationalInv
<1>. SUFFICES ASSUME InformationalInit PROVE InformationalInv
  OBVIOUS
<1>1. /\ now = 0 /\ station = [high |-> -1, payload |-> NoReading]
      /\ recorded = NoReading /\ exported = -1
      /\ mark = -1 /\ handler = [h \in Handler |-> Free]
      /\ worker = Asleep /\ latest = [cycle |-> -1, weather |-> -1]
  BY DEF InformationalInit, WeatherInit
<1>2. PICK u \in Nat : u = 0 + Interval /\ Cycle(0) \in Nat /\ Cycle(u) \in Nat
  BY NextCycle
<1>3. worker = [pc |-> "asleep", until |-> u]
  BY <1>1, <1>2 DEF Asleep
<1>4. Sleeping
  <2>1. worker.pc = "asleep" /\ worker.until = u /\ latest.cycle = -1
    BY <1>1, <1>3
  <2>2. -1 < Cycle(u)
    BY <1>2
  <2>. QED
    BY <1>3, <2>1, <2>2 DEF Sleeping
<1>5. Radio
  <2>1. Skew \in Nat
    BY WeatherAssumption
  <2>. QED
    BY <1>1, <2>1 DEF Radio, MarkNeverAhead
<1>6. GatewayRequests
  BY <1>1 DEF GatewayRequests
<1>7. LatestShown
  <2>1. latest.cycle = -1 /\ latest.weather = -1 /\ Cycle(now) = Cycle(0) /\ -1 <= Cycle(0)
    BY <1>1, <1>2
  <2>. QED
    BY <1>1, <2>1 DEF LatestShown
<1>. QED
  BY <1>4, <1>5, <1>6, <1>7 DEF InformationalInv

LEMMA InformationalInvStep ==
  InformationalInv /\ [InformationalNext]_informationalVars => InformationalInv'
<1>. SUFFICES ASSUME InformationalInv, [InformationalNext]_informationalVars
              PROVE  InformationalInv'
  OBVIOUS
<1>1. CASE WeatherNext /\ UNCHANGED <<worker, latest>>
  BY <1>1, WeatherKeeps, WorkerStays DEF InformationalInv
<1>2. CASE Wake
  BY <1>2, WakeKeeps
<1>3. CASE DecideCycle
  BY <1>3, DecideCycleKeeps
<1>4. CASE ReceiveWeather
  BY <1>4, ReceiveWeatherKeeps
<1>5. CASE AppendInformation
  BY <1>5, AppendInformationKeeps
<1>6. CASE CycleFails \/ RestartDaemon
  BY <1>6, RequestsStand, WorkerSleeps
     DEF CycleFails, RestartDaemon, weatherVars, InformationalInv
<1>7. CASE \E h \in Handler : DropAnswer(h)
  BY <1>7, DropAnswerKeeps
<1>8. CASE UNCHANGED informationalVars
  <2>1. GatewayMoves
    <3>1. UNCHANGED <<now, exporter, mark, handler>>
      BY <1>8 DEF informationalVars, weatherVars
    <3>2. Radio' /\ GatewayRequests' /\ now <= now' /\ mark <= mark'
      BY <3>1, RequestsStand DEF InformationalInv, Radio, MarkNeverAhead, NoReading, exporter
    <3>. QED
      BY <3>1, <3>2 DEF GatewayMoves
  <2>. QED
    BY <1>8, <2>1, WorkerStays DEF informationalVars
<1>. QED
  BY <1>1, <1>2, <1>3, <1>4, <1>5, <1>6, <1>7, <1>8 DEF InformationalNext

THEOREM InformationalInvariant == InformationalSpec => []InformationalInv
BY InformationalInvInit, InformationalInvStep, PTL DEF InformationalSpec

\* The gateway's mark stays within the tolerance of the clock, however the
\* station's clock jumps and the requests overlap.
THEOREM MarksAreNeverAhead == InformationalSpec => []MarkNeverAhead
<1>1. InformationalInv => MarkNeverAhead
  BY DEF InformationalInv, Radio
<1>. QED
  BY <1>1, InformationalInvariant, PTL

\* The exporter answers with the newest frame it recorded, and never goes back,
\* whatever it withdrew and however many frames were lost in between.
THEOREM ExportedWeatherGoesForward == InformationalSpec => ExportGoesForward
<1>1. ASSUME InformationalInv, NEW h \in Handler, ReadSnapshot(h)
      PROVE  handler'[h].reading = recorded /\ handler'[h].reading.time >= exported
  <2>1. PICK r : /\ r = recorded /\ r.time \in Nat /\ exported <= r.time
                 /\ Handle(h, [pc |-> "validate", reading |-> r])
    BY <1>1, ReadSnapshotIs DEF InformationalInv
  <2>2. handler = [k \in Handler |-> handler[k]]
    BY <1>1 DEF InformationalInv, GatewayRequests
  <2>3. handler'[h] = [pc |-> "validate", reading |-> r]
    BY <2>1, <2>2 DEF Handle
  <2>4. exported \in Int
    BY <1>1 DEF InformationalInv, Radio
  <2>. QED
    BY <2>1, <2>3, <2>4
<1>2. InformationalInv /\ [InformationalNext]_informationalVars
        => [\A h \in Handler :
              ReadSnapshot(h) =>
                /\ handler'[h].reading = recorded
                /\ handler'[h].reading.time >= exported]_weatherVars
  BY <1>1
<1>. QED
  BY <1>2, InformationalInvariant, PTL DEF InformationalSpec, ExportGoesForward

\* A cycle has one event at most, wherever the daemon was restarted.
THEOREM CyclesAreShownOnce == InformationalSpec => OncePerCycle
<1>1. ASSUME InformationalInv, AppendInformation PROVE worker.event.cycle > latest.cycle
  BY <1>1, AppendedIs DEF InformationalInv, LatestShown
<1>2. InformationalInv /\ [InformationalNext]_informationalVars
        => [AppendInformation => worker.event.cycle > latest.cycle]_informationalVars
  BY <1>1
<1>. QED
  BY <1>2, InformationalInvariant, PTL DEF InformationalSpec, OncePerCycle

\* The weather shown is never older than what was shown before.
THEOREM ShownWeatherGoesForward == InformationalSpec => WeatherGoesForward
<1>1. ASSUME InformationalInv, [InformationalNext]_informationalVars
      PROVE  latest'.weather >= latest.weather
  <2>1. latest.weather \in Int
    BY <1>1 DEF InformationalInv, LatestShown
  <2>2. CASE UNCHANGED latest
    BY <2>1, <2>2
  <2>3. CASE AppendInformation
    BY <1>1, <2>1, <2>3, AppendedIs
  <2>4. CASE DecideCycle
    <3>1. PICK choice : choice = ChooseForCycle(CurrentCycle)
      OBVIOUS
    <3>2. choice \in {"none", "interface_info", "weather"}
      BY <3>1, ChoiceIs
    <3>3. CASE choice = "none"
      BY <2>2, <2>4, <3>1, <3>3 DEF DecideCycle
    <3>4. CASE choice = "interface_info"
      BY <2>2, <2>4, <3>1, <3>4 DEF DecideCycle
    <3>5. CASE choice = "weather"
      BY <2>2, <2>4, <3>1, <3>5 DEF DecideCycle
    <3>. QED
      BY <3>2, <3>3, <3>4, <3>5
  <2>5. CASE \/ UNCHANGED <<worker, latest>> \/ Wake \/ ReceiveWeather \/ CycleFails
             \/ RestartDaemon \/ \E h \in Handler : DropAnswer(h)
    BY <2>2, <2>5 DEF Wake, ReceiveWeather, CycleFails, RestartDaemon, DropAnswer
  <2>. QED
    BY <1>1, <2>3, <2>4, <2>5 DEF InformationalNext, informationalVars
<1>2. InformationalInv /\ [InformationalNext]_informationalVars
        => [latest'.weather >= latest.weather]_informationalVars
  BY <1>1
<1>. QED
  BY <1>2, InformationalInvariant, PTL DEF InformationalSpec, WeatherGoesForward

=============================================================================
