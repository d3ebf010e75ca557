------------------------------- MODULE Overlay --------------------------------
(***************************************************************************)
(* The overlay stream (src/overlay.rs, src/ledger/overlay.rs): a client    *)
(* gets a snapshot of the current state and then every durable event in    *)
(* order; one that comes back names the stream and the last event it has   *)
(* and gets what it missed, or a snapshot marked as a reset.  Events are   *)
(* appended at any moment, sockets break between any two messages, the     *)
(* daemon restarts, and an operator restores an older database offline,    *)
(* after which sequence numbers are used again.                            *)
(***************************************************************************)
EXTENDS Naturals, Sequences, SequencesExt, FiniteSets, FiniteSetsExt

CONSTANTS
  Client,      \* overlay pages
  Event,       \* what events say
  Unfit,       \* those that cannot be rendered or exceed a message
  ReplayMax,   \* 1000 events of a replay
  BatchMax,    \* 100 events of a poll
  MaxSeq,      \* bound: events of the log
  MaxStream    \* bound: stream identities

ASSUME OverlayAssumption ==
  /\ Unfit \subseteq Event
  /\ {ReplayMax, BatchMax, MaxSeq, MaxStream} \subseteq Nat \ {0}
  /\ BatchMax <= ReplayMax

VARIABLES
  log,       \* event_log
  stream,    \* overlay_identity.stream_id
  up,        \* the daemon runs
  conn,      \* the server's side of each client's socket
  client     \* what each client was told

overlayVars == <<log, stream, up, conn, client>>

\* An event's message, and a snapshot: the state after the events up to seq.
EventAt(n) == [type |-> "event", seq |-> n, says |-> log[n]]
SnapshotNow(reason) ==
  [type |-> "snapshot", reason |-> reason, seq |-> Len(log), state |-> log]

Closed == [pc |-> "closed"]
Opening(s, after, first) == [pc |-> "opening", stream |-> s, after |-> after, checkpoint |-> first]
Open(s, last, queue) == [pc |-> "open", stream |-> s, last |-> last, queue |-> queue]

\* A client keeps the stream, the last sequence number and what it was told.
Fresh == [stream |-> 0, seq |-> 0, view |-> <<>>]
Conn(c, next) == conn' = [conn EXCEPT ![c] = next]

-----------------------------------------------------------------------------
OverlayInit ==
  /\ log = <<>>
  /\ stream = 1
  /\ up = TRUE
  /\ conn = [c \in Client |-> Closed]
  /\ client = [c \in Client |-> Fresh]

\* Any part of the daemon, or lightning-goatsctl, appends an event.
AppendToLog(e) ==
  /\ Len(log) < MaxSeq
  /\ log' = Append(log, e)
  /\ UNCHANGED <<stream, up, conn, client>>

StopDaemon ==
  /\ up
  /\ up' = FALSE
  /\ conn' = [c \in Client |-> Closed]
  /\ UNCHANGED <<log, stream, client>>

StartDaemon ==
  /\ ~up
  /\ up' = TRUE
  /\ UNCHANGED <<log, stream, conn, client>>

\* Mutant: the restored database keeps the identity of the abandoned one.
MutantRestoreKeepsIdentity(n) ==
  /\ ~up
  /\ n < Len(log) /\ stream < MaxStream
  /\ log' = SubSeq(log, 1, n)
  /\ UNCHANGED <<stream, up, conn, client>>

\* An offline restore of a backup, with its reset-overlay-stream.
RestoreBackup(n) ==
  /\ ~up
  /\ n < Len(log) /\ stream < MaxStream
  /\ log' = SubSeq(log, 1, n)
  /\ stream' = stream + 1
  /\ UNCHANGED <<up, conn, client>>

Disconnect(c) ==
  /\ conn[c] # Closed
  /\ Conn(c, Closed)
  /\ UNCHANGED <<log, stream, up, client>>

-----------------------------------------------------------------------------
\* The queue after a resume or a poll is the events of a window, if they are
\* all there and can be shown within the bounds of bytes.
Window(after, through) == [i \in 1..(through - after) |-> EventAt(after + i)]
WindowFits(after, through, max) ==
  /\ after <= through /\ through <= after + max
  /\ \A n \in (after + 1)..through : log[n] \notin Unfit

\* The stream's identity and a checkpoint are read; a page that was told
\* something before names it, unless it was loaded anew.
Connect(c) ==
  /\ up /\ conn[c] = Closed
  /\ \/ /\ client[c].stream # 0
        /\ Conn(c, Opening(stream, client[c].seq, SnapshotNow("none")))
        /\ UNCHANGED client
     \/ /\ Conn(c, Open(stream, Len(log), <<SnapshotNow("none")>>))
        /\ client' = [client EXCEPT ![c] = Fresh]
  /\ UNCHANGED <<log, stream, up>>

\* The client's stream, and a window up to the checkpoint: the missed events
\* are sent before it.
Resume(c) ==
  /\ conn[c].pc = "opening"
  /\ client[c].stream = conn[c].stream
  /\ LET o == conn[c] IN
       /\ WindowFits(o.after, o.checkpoint.seq, ReplayMax)
       /\ Conn(c, Open(o.stream, o.after, Append(Window(o.after, o.checkpoint.seq), o.checkpoint)))
  /\ UNCHANGED <<log, stream, up, client>>

\* Mutant: the snapshot that replaces a replay is not marked as a reset.
MutantUnmarkedReset(c) ==
  /\ conn[c].pc = "opening"
  /\ Conn(c, Open(conn[c].stream, Len(log), <<SnapshotNow("none")>>))
  /\ UNCHANGED <<log, stream, up, client>>

\* Otherwise, and when the replay is too many bytes, a new snapshot.
ResumeUnavailable(c) ==
  /\ conn[c].pc = "opening"
  /\ Conn(c, Open(conn[c].stream, Len(log), <<SnapshotNow("resume_unavailable")>>))
  /\ UNCHANGED <<log, stream, up, client>>

\* What a page does with a message: a snapshot replaces its state, an event
\* follows it.
Told(c, m) ==
  client' = [client EXCEPT ![c] =
    [stream |-> conn[c].stream, seq |-> m.seq,
     view |-> IF m.type = "snapshot" THEN m.state ELSE Append(@.view, m.says)]]

\* The socket fails with the message, or takes it.
Send(c) ==
  /\ conn[c].pc = "open" /\ conn[c].queue # <<>>
  /\ LET m == Head(conn[c].queue) IN
       \/ /\ Conn(c, Open(conn[c].stream, m.seq, Tail(conn[c].queue)))
          /\ Told(c, m)
       \/ Conn(c, Closed) /\ UNCHANGED client
  /\ UNCHANGED <<log, stream, up>>

\* Mutant: a poll waits for a whole batch.
MutantPollWholeBatch(c) ==
  /\ conn[c].pc = "open" /\ conn[c].queue = <<>>
  /\ conn[c].last + BatchMax <= Len(log)
  /\ LET o == conn[c]
         through == o.last + BatchMax
     IN Conn(c, Open(o.stream, o.last,
                IF WindowFits(o.last, through, ReplayMax) THEN Window(o.last, through)
                ELSE <<SnapshotNow("event_window_unavailable")>>))
  /\ UNCHANGED <<log, stream, up, client>>

\* With an empty queue: latest is read first, the window after it.
Poll(c) ==
  /\ conn[c].pc = "open" /\ conn[c].queue = <<>>
  /\ LET o == conn[c] IN
       \E latest \in (o.last + 1)..Len(log) :
         LET through == Min({latest, o.last + BatchMax}) IN
           \/ /\ WindowFits(o.last, through, ReplayMax)
              /\ Conn(c, Open(o.stream, o.last, Window(o.last, through)))
           \/ Conn(c, Open(o.stream, o.last, <<SnapshotNow("event_window_unavailable")>>))
  /\ UNCHANGED <<log, stream, up, client>>

Serve(c) ==
  \/ Resume(c)
  \/ ResumeUnavailable(c)
  \/ Send(c)
  \/ Poll(c)

OverlayNext ==
  \/ \E e \in Event : AppendToLog(e)
  \/ StopDaemon
  \/ StartDaemon
  \/ \E n \in 0..MaxSeq : RestoreBackup(n)
  \/ \E c \in Client :
       \/ Disconnect(c)
       \/ Connect(c)
       \/ Serve(c)

OverlaySpec == OverlayInit /\ [][OverlayNext]_overlayVars

\* The server's loop goes on, systemd starts the daemon, pages reconnect,
\* and a socket that is tried for ever takes a message some time.
OverlayFairness ==
  /\ WF_overlayVars(StartDaemon)
  /\ \A c \in Client :
       /\ WF_overlayVars(Connect(c))
       /\ WF_overlayVars(Serve(c))
       /\ SF_overlayVars(Send(c) /\ conn'[c] # Closed)

FairOverlaySpec == OverlaySpec /\ OverlayFairness
-----------------------------------------------------------------------------
(***************************************************************************)
(* What a client of this stream was told is the durable history up to its  *)
(* sequence number: no event is missing, repeated, out of order or from a  *)
(* history that a restore abandoned.                                       *)
(***************************************************************************)
ViewIsHistory ==
  \A c \in Client : client[c].stream = stream =>
    /\ client[c].seq <= Len(log)
    /\ client[c].view = SubSeq(log, 1, client[c].seq)

(***************************************************************************)
(* Within a stream a client's sequence number never goes back, and it      *)
(* skips events only with a snapshot that is marked as a reset.            *)
(***************************************************************************)
NoSilentSkip ==
  [][\A c \in Client :
       LET old == client[c]  new == client'[c]  m == Head(conn[c].queue) IN
         old # new /\ old.stream = new.stream =>
           /\ new.seq >= old.seq
           /\ new.seq > old.seq + 1 => m.type = "snapshot" /\ m.reason # "none"]_overlayVars

(***************************************************************************)
(* A page that stays connected, or reconnects, learns of every event, also *)
(* one that arrives during its replay.                                     *)
(***************************************************************************)
CatchesUp ==
  <>[][~StopDaemon /\ \A c \in Client : ~Disconnect(c)]_overlayVars =>
    \A c \in Client :
      <>[](client[c].stream = stream /\ client[c].seq = Len(log))
=============================================================================
