-------------------------------- MODULE Outbox --------------------------------
(***************************************************************************)
(* Public messages, from the durable event log to the Nostr relays         *)
(* (src/messaging.rs, src/ledger/outbox.rs).  A processor has each event   *)
(* after a durable cursor rendered and signed, and stores the message with *)
(* the cursor's move; a publisher sends the stored messages, oldest first, *)
(* until each is known to be sent.  Signing and sending fail, an answer of *)
(* a relay is lost, daemons crash between any two steps and may overlap on *)
(* one database, the project's key is changed between two starts, and a    *)
(* daemon in a mode without Nostr only moves the cursor.                   *)
(***************************************************************************)
EXTENDS Presentation, Nostr, SequencesExt, FiniteSetsExt

CONSTANTS
  Daemon,     \* daemons that may run on the database
  EventOf,    \* the log, event by event
  Second,     \* readings of the clock that stamps signatures; it may be set
  Modes       \* how each daemon may be configured: "quiet", or a key

Seqs == 1..Len(EventOf)

ASSUME OutboxAssumption ==
  /\ Len(EventOf) \in Nat
  /\ \A d \in Daemon : Modes[d] \subseteq Key \cup {"quiet"}
  /\ \A s \in Seqs : EventOf[s].seq = s /\ s \in DOMAIN Digest

VARIABLES
  events,      \* sequence number of the last event
  cursor,      \* message_cursor.last_event_seq
  outbox,      \* message_outbox by source_event_seq, which is unique
  relay,       \* messages in the order the relays first took them
  muted,       \* history: events passed over by a quiet daemon
  mode,        \* "quiet", or the key each daemon was configured with
  processor,   \* what each message processor is about to do
  publisher    \* what each outbox publisher is about to do

durable == <<events, cursor, outbox, muted>>
vars == <<durable, relay, mode, processor, publisher>>

Row(event, status) == [event |-> event, status |-> status]
None == Row(Other, "none")
Stored == {s \in Seqs : outbox[s] # None}
Unsent == {s \in Seqs : outbox[s].status \in {"pending", "failed"}}

\* What an event says on Nostr; events that say the same have one number.
Rendering == [s \in Seqs |-> Render(EventOf[s])]
Content(s) == Min({t \in Seqs : Rendering[t].nostr = Rendering[s].nostr})

\* Mutant: rows are only unique by their event.
MutantIsFresh(event) == TRUE

\* event_id is the primary key.
IsFresh(event) == \A s \in Stored : outbox[s].event.id # event.id

Quiet(d) == mode[d] = "quiet"

Off == [pc |-> "off"]
Idle == [pc |-> "idle"]
At(pc, s) == [pc |-> pc, seq |-> s]
With(pc, s, event) == [pc |-> pc, seq |-> s, event |-> event]

Processor(d, next) == processor' = [processor EXCEPT ![d] = next]
Publisher(d, next) == publisher' = [publisher EXCEPT ![d] = next]
OnlyProcessor(d, next) == Processor(d, next) /\ UNCHANGED <<durable, relay, mode, publisher>>
OnlyPublisher(d, next) == Publisher(d, next) /\ UNCHANGED <<durable, relay, mode, processor>>

-----------------------------------------------------------------------------
Init ==
  /\ events = 0
  /\ cursor = 0
  /\ outbox = [s \in Seqs |-> None]
  /\ relay = <<>>
  /\ muted = {}
  /\ mode = [d \in Daemon |-> "quiet"]
  /\ processor = [d \in Daemon |-> Off]
  /\ publisher = [d \in Daemon |-> Off]

AppendEvent ==
  /\ events < Len(EventOf)
  /\ events' = events + 1
  /\ UNCHANGED <<cursor, outbox, muted, relay, mode, processor, publisher>>

\* The configuration decides at each start; the publisher runs only with Nostr.
Start(d) ==
  /\ processor[d] = Off
  /\ \E m \in Modes[d] :
       /\ mode' = [mode EXCEPT ![d] = m]
       /\ Publisher(d, IF m = "quiet" THEN Off ELSE Idle)
  /\ Processor(d, Idle)
  /\ UNCHANGED <<durable, relay>>

\* A crash at any point, or the end of one task, ends the others.
Halt(d) ==
  /\ processor[d] # Off
  /\ Processor(d, Off)
  /\ Publisher(d, Off)
  /\ UNCHANGED <<durable, relay, mode>>

-----------------------------------------------------------------------------
\* process_next_message: the cursor, and the event after it.  A quiet daemon
\* passes over it; one that cannot be rendered stays, and is tried for ever;
\* one with nothing for Nostr is passed over.
TakeEvent(d) ==
  /\ processor[d] = Idle
  /\ cursor < events
  /\ Quiet(d) \/ Rendering[cursor + 1].ok
  /\ OnlyProcessor(d, At(IF Quiet(d) \/ Rendering[cursor + 1].nostr = NoText THEN "advance" ELSE "sign",
                         cursor + 1))

\* advance_message_cursor refuses to move backward.
AdvanceMessageCursor(d) ==
  /\ processor[d].pc = "advance"
  /\ IF processor[d].seq > cursor
     THEN /\ cursor' = processor[d].seq
          /\ muted' = muted \cup (IF Quiet(d) THEN {processor[d].seq} ELSE {})
     ELSE UNCHANGED <<cursor, muted>>
  /\ Processor(d, Idle)
  /\ UNCHANGED <<events, outbox, relay, mode, publisher>>

\* sign_kind1: an answer that is late, broken, of another key or to another
\* text is an error, and the event is taken from the cursor again.
SignKind1(d) ==
  /\ processor[d].pc = "sign"
  /\ LET s == processor[d].seq IN
     \E at \in Second : \E signed \in SignatureOf(Content(s), at, mode[d]) :
       \/ signed = {} /\ Processor(d, Idle)
       \/ \E event \in signed : Processor(d, With("enqueue", s, event))
  /\ UNCHANGED <<durable, relay, mode, publisher>>

\* Mutant: the cursor moves in a transaction before the row's, and a crash
\* can come between them.
MutantEnqueueAfterCursor(d) ==
  /\ processor[d].pc = "enqueue"
  /\ LET s == processor[d].seq IN
       IF s > cursor
       THEN /\ cursor' = s
            /\ \/ outbox' = [outbox EXCEPT ![s] = Row(processor[d].event, "pending")]
               \/ UNCHANGED outbox
       ELSE UNCHANGED <<outbox, cursor>>
  /\ Processor(d, Idle)
  /\ UNCHANGED <<events, muted, relay, mode, publisher>>

\* Only ahead of the cursor, the message and the cursor in one transaction.
\* An id that is there already, of an event that said the same in the same
\* second, is refused, and the event is signed again.
EnqueueSignedMessage(d) ==
  /\ processor[d].pc = "enqueue"
  /\ LET s == processor[d].seq IN
       IF s > cursor /\ IsFresh(processor[d].event)
       THEN /\ outbox' = [outbox EXCEPT ![s] = Row(processor[d].event, "pending")]
            /\ cursor' = s
       ELSE UNCHANGED <<outbox, cursor>>
  /\ Processor(d, Idle)
  /\ UNCHANGED <<events, muted, relay, mode, publisher>>

\* The signer or the database failed: from the cursor again.
ProcessorError(d) ==
  /\ processor[d] \notin {Off, Idle}
  /\ OnlyProcessor(d, Idle)

-----------------------------------------------------------------------------
\* Mutant: a failed message waits until the fresh ones are sent.
MutantFreshFirst(d) ==
  /\ publisher[d] = Idle
  /\ Unsent # {}
  /\ LET fresh == {s \in Unsent : outbox[s].status = "pending"}
         s == Min(IF fresh = {} THEN Unsent ELSE fresh)
     IN OnlyPublisher(d, With("publish", s, outbox[s].event))

\* Mutant: a failed message is not tried again.
MutantNoRetry(d) ==
  /\ publisher[d] = Idle
  /\ \E s \in Unsent :
       /\ outbox[s].status = "pending"
       /\ OnlyPublisher(d, With("publish", s, outbox[s].event))

\* next_outbox_entry: the oldest event's message that is not published.
NextOutboxEntry(d) ==
  /\ publisher[d] = Idle
  /\ Unsent # {}
  /\ LET s == Min(Unsent) IN OnlyPublisher(d, With("publish", s, outbox[s].event))

\* publish_signed: a row of another key than the configured one is refused.
\* The relays may take the message and the answer be lost.  They keep one
\* copy of each message.
PublishSigned(d) ==
  /\ publisher[d].pc = "publish"
  /\ LET s == publisher[d].seq
         event == publisher[d].event
         taken == IF event \in ToSet(relay) THEN relay ELSE Append(relay, event)
     IN \/ /\ ~VerifyEvent(event, mode[d])
           /\ Publisher(d, At("failed", s))
           /\ UNCHANGED relay
        \/ /\ VerifyEvent(event, mode[d])
           /\ \E echo \in RunNak({event}) :
                \/ echo = {event} /\ relay' = taken /\ Publisher(d, At("published", s))
                \/ echo = {} /\ relay' \in {relay, taken} /\ Publisher(d, At("failed", s))
  /\ UNCHANGED <<durable, mode, processor>>

\* mark_outbox_published and mark_outbox_failed: a row that another daemon
\* has marked published in the meantime ends this daemon.
MarkOutbox(d) ==
  /\ publisher[d].pc \in {"published", "failed"}
  /\ LET s == publisher[d].seq IN
       IF s \in Unsent
       THEN /\ outbox' = [outbox EXCEPT ![s].status = publisher[d].pc]
            /\ Publisher(d, Idle)
            /\ UNCHANGED processor
       ELSE /\ Publisher(d, Off)
            /\ Processor(d, Off)
            /\ UNCHANGED outbox
  /\ UNCHANGED <<events, cursor, muted, relay, mode>>

Process(d) ==
  \/ TakeEvent(d)
  \/ AdvanceMessageCursor(d)
  \/ SignKind1(d)
  \/ EnqueueSignedMessage(d)
  \/ ProcessorError(d)

Publish(d) ==
  \/ NextOutboxEntry(d)
  \/ PublishSigned(d)
  \/ MarkOutbox(d)

Next ==
  \/ AppendEvent
  \/ \E d \in Daemon : Start(d) \/ Halt(d) \/ Process(d) \/ Publish(d)

Spec == Init /\ [][Next]_vars

(***************************************************************************)
(* Fairness.  Both tasks loop for ever and systemd starts the daemon       *)
(* again.  A signer and a relay that are asked for ever answer some time,  *)
(* and an event that is signed again, 5 s after the last time, in a later  *)
(* second.                                                                 *)
(***************************************************************************)
Fairness ==
  \A d \in Daemon :
    /\ WF_vars(Start(d) \/ Process(d))
    /\ WF_vars(Publish(d))
    /\ SF_vars(SignKind1(d) /\ processor'[d].pc = "enqueue"
                            /\ IsFresh(processor'[d].event))
    /\ SF_vars(EnqueueSignedMessage(d) \/ AdvanceMessageCursor(d))
    /\ SF_vars(PublishSigned(d) /\ publisher'[d].pc = "published")

FairSpec == Spec /\ Fairness
-----------------------------------------------------------------------------
\* The events that say something on Nostr.
Public == {s \in Seqs : EventOf[s].type \in {"payment_received", "feeder_confirmed"}}
Posted(s) == s \in Stored /\ outbox[s].event \in ToSet(relay)

(***************************************************************************)
(* A message on the relays is genuine, says what its event says, and is    *)
(* the only one of that event: an event signed twice, after a crash or by  *)
(* two daemons, is posted once, and events that say the same in the same   *)
(* second do not share a message.                                          *)
(***************************************************************************)
OneMessagePerEvent ==
  /\ \A i \in DOMAIN relay : relay[i].genuine /\ \E s \in Stored :
       outbox[s].event = relay[i] /\ relay[i].id.content = Content(s)
  /\ \A s, t \in Stored : outbox[s].event.id = outbox[t].event.id => s = t

(***************************************************************************)
(* The relays first see the messages in the order of their events: a       *)
(* failed message holds back the later ones, and a published one has been  *)
(* taken, whatever answers were lost.                                      *)
(***************************************************************************)
PostedInOrder ==
  /\ \A s \in Stored : outbox[s].status = "published" => Posted(s)
  /\ \A i, j \in DOMAIN relay : i < j =>
       \A s, t \in Stored : outbox[s].event = relay[i] /\ outbox[t].event = relay[j] => s < t

(***************************************************************************)
(* The cursor passes no public event without storing its message, unless   *)
(* a daemon without Nostr passed it; and what such a daemon passed is not  *)
(* posted later.                                                           *)
(***************************************************************************)
NothingLost ==
  \A s \in 1..cursor : s \in Public => (s \in Stored <=> s \notin muted)

\* A row signed with a key no daemon is configured with holds back event s.
HeldByOldKey(s) ==
  \E t \in Unsent : t <= s /\ \A d \in Daemon : outbox[t].event.id.author # mode[d]

(***************************************************************************)
(* If a daemon with Nostr keeps running, every public event is posted that *)
(* no quiet daemon passed over.                                            *)
(* Only one thing blocks the outbox for ever: a row that was signed before *)
(* the project's key was changed.  No event that the ledger writes is held *)
(* because it cannot be rendered.                                          *)
(***************************************************************************)
EveryEventIsPosted ==
  /\ <>[][\A d \in Daemon : ~Halt(d)]_vars
  /\ <>[](\E d \in Daemon : ~Quiet(d))
  => \A s \in Public :
       (events >= s) ~> [](s \in muted \/ Posted(s) \/ HeldByOldKey(s))
=============================================================================
