-------------------------------- MODULE Weather --------------------------------
(***************************************************************************)
(* Weather, from the radio to the answer of the gateway: the exporter      *)
(* keeps the newest frame of the station that it could record              *)
(* (deploy/weather), the gateway reads it, or the household receiver's     *)
(* list, validates the reading and moves a persisted high-water mark       *)
(* (src/gateway/weather.rs, store.rs).                                     *)
(* Requests overlap: one that the daemon gave up goes on in the gateway.   *)
(***************************************************************************)
EXTENDS Integers, Sequences, SequencesExt, FiniteSets

CONSTANTS
  Handler,    \* requests the gateway serves at once
  Contents,    \* the fields of a reading other than its time, by what they hold
  Skew,       \* 30 s: how far ahead of the clock a reading may be
  Stale,      \* MAX_STALE_SECONDS of the exporter
  MaxStale,   \* weather.max_stale_seconds of the gateway
  MaxTime     \* bound: the clock

ASSUME WeatherAssumption ==
  /\ Skew \in Nat
  /\ Stale \in Nat
  /\ MaxStale \in Nat \ {0}
  /\ MaxTime \in Nat
  /\ Contents \subseteq [required : {"in range", "out of range"},
                        optional : {"absent", "in range", "out of range"},
                        trend : {"absent", "text", "control character", "too long"}]

VARIABLES
  now,
  station,    \* the exporter's row: its high water and the reading, or NoReading
  recorded,   \* history: the newest frame whose transaction committed
  exported,   \* history: the time of the last reading the exporter answered
  mark,       \* weather_high_water of the gateway, -1 before the first reading
  handler     \* what each request in the gateway is about to do

exporter == <<station, recorded, exported>>
weatherVars == <<now, exporter, mark, handler>>

Reading(t, c) == [time |-> t, content |-> c]
NoReading == [time |-> -1]
Free == [pc |-> "idle"]
Handle(h, next) == handler' = [handler EXCEPT ![h] = next]

\* No reading lies further ahead than Skew nor further back than the limit.
Current(t, limit) == t - now <= Skew /\ now - t <= limit

\* required_number, optional_number, optional_bounded_string: a number is in
\* its range and a text no longer than 32 bytes, or the reading is refused.
Parsed(c) == c.required = "in range" /\ c.optional # "out of range" /\ c.trend # "too long"

\* The daemon repeats the checks on the answer, and is stricter about texts.
Displayable(c) == Parsed(c) /\ c.trend # "control character"

\* Degrees, in tenths, to one of 16 directions: the nearest, up past a tie.
DegreesToCardinal(tenths) ==
  LET normalized == IF tenths = 3600 THEN 0 ELSE tenths
  IN ((2 * normalized + 225) \div 450) % 16

\* The newest entry of a list, the first of those as new.
Latest(items) ==
  LET newest == {i \in DOMAIN items : \A j \in DOMAIN items : items[j].time <= items[i].time}
  IN items[CHOOSE i \in newest : \A j \in newest : i <= j]

\* What a station with a wrong clock or a fault may send; a frame of its radio
\* says nothing of the pressure.
Received == {Reading(t, c) : t \in (now - Stale - 1 .. now + Skew + 1) \cap Nat, c \in Contents}
Frames == {r \in Received : r.content.trend = "absent"}

-----------------------------------------------------------------------------
WeatherInit ==
  /\ now = 0
  /\ station = [high |-> -1, payload |-> NoReading]
  /\ recorded = NoReading
  /\ exported = -1
  /\ mark = -1
  /\ handler = [h \in Handler |-> Free]

Tick ==
  /\ now < MaxTime
  /\ now' = now + 1
  /\ UNCHANGED <<exporter, mark, handler>>

\* Mutant: a frame that cannot be used leaves the row as it is.
MutantKeepPayload(r) ==
  /\ recorded' = r
  /\ station' = IF Current(r.time, Stale) /\ r.content.required = "in range" /\ r.time >= station.high
                THEN [high |-> r.time, payload |-> r]
                ELSE station
  /\ UNCHANGED <<now, exported, mark, handler>>

\* Mutant: a withdrawal begins the row anew.
MutantForgetHighWater(r) ==
  /\ recorded' = r
  /\ station' = IF Current(r.time, Stale) /\ r.content.required = "in range" /\ r.time >= station.high
                THEN [high |-> r.time, payload |-> r]
                ELSE [high |-> -1, payload |-> NoReading]
  /\ UNCHANGED <<now, exported, mark, handler>>

\* record_packet: a frame that is malformed, stale, ahead or older than the
\* last withdraws the reading and leaves the high water.  Or its transaction
\* fails, with the row locked for longer than 100 ms or a full disk: the
\* radio's hook goes on, the frame is lost, and the row stays as it was.
RecordPacket(r) ==
  /\ \/ /\ recorded' = r
        /\ station' = IF Current(r.time, Stale) /\ r.content.required = "in range" /\ r.time >= station.high
                      THEN [high |-> r.time, payload |-> r]
                      ELSE [station EXCEPT !.payload = NoReading]
     \/ UNCHANGED <<recorded, station>>
  /\ UNCHANGED <<now, exported, mark, handler>>

-----------------------------------------------------------------------------
\* GET /v1/weather arrives.
RequestWeather(h) == handler[h] = Free /\ Handle(h, [pc |-> "read"])

\* read_snapshot: the exporter answers with its row while it is current.
ReadSnapshot(h) ==
  /\ handler[h].pc = "read"
  /\ station.payload # NoReading
  /\ Current(station.high, Stale)
  /\ Handle(h, [pc |-> "validate", reading |-> station.payload])
  /\ exported' = station.payload.time
  /\ UNCHANGED <<now, station, recorded, mark>>

\* A receiver that answers with a list, of frames it has kept, recorded by
\* the exporter or not: the adapter takes the newest.
ReadArray(h) ==
  /\ handler[h].pc = "read"
  /\ \E kept \in Received :
       \E items \in {<<kept>>} \cup UNION {{<<old, kept>>, <<kept, old>>} : old \in {recorded} \ {NoReading}} :
         Handle(h, [pc |-> "validate", reading |-> Latest(items)])
  /\ UNCHANGED <<now, exporter, mark>>

\* Mutant: the mark follows a reading before it is validated.
MutantMarkFirst(h) ==
  /\ handler[h].pc = "validate"
  /\ LET r == handler[h].reading IN
       /\ r.time >= mark
       /\ mark' = r.time
       /\ Handle(h, IF Current(r.time, MaxStale) /\ Parsed(r.content)
                    THEN [pc |-> "accept", reading |-> r] ELSE Free)
  /\ UNCHANGED <<now, exporter>>

\* fetch: the time and every field, before the mark is touched.
Validate(h) ==
  /\ handler[h].pc = "validate"
  /\ LET r == handler[h].reading IN
       /\ Current(r.time, MaxStale)
       /\ Parsed(r.content)
       /\ Handle(h, [pc |-> "accept", reading |-> r])
  /\ UNCHANGED <<now, exporter, mark>>

\* accept_weather_time: under the write lock, never backward.
AcceptWeatherTime(h) ==
  /\ handler[h].pc = "accept"
  /\ LET r == handler[h].reading IN
       /\ r.time >= mark
       /\ mark' = r.time
       /\ Handle(h, [pc |-> "answer", reading |-> r])
  /\ UNCHANGED <<now, exporter>>

\* A read that fails, a reading refused, a timeout, a database error.
FetchFails(h) ==
  /\ handler[h].pc \in {"read", "validate", "accept"}
  /\ Handle(h, Free)
  /\ UNCHANGED <<now, exporter, mark>>

\* Mutant: the mark is not kept across a restart of the gateway.
MutantMarkInMemory ==
  /\ handler' = [h \in Handler |-> Free]
  /\ mark' = -1
  /\ UNCHANGED <<now, exporter>>

\* The gateway is restarted; its mark is in its database.
RestartGateway ==
  /\ \E h \in Handler : handler[h] # Free
  /\ handler' = [h \in Handler |-> Free]
  /\ UNCHANGED <<now, exporter, mark>>

WeatherNext ==
  \/ Tick
  \/ \E r \in Frames : RecordPacket(r)
  \/ RestartGateway
  \/ \E h \in Handler :
       ReadSnapshot(h) \/ ReadArray(h) \/ Validate(h) \/ AcceptWeatherTime(h) \/ FetchFails(h)
-----------------------------------------------------------------------------
(***************************************************************************)
(* The mark is never further ahead than a reading may be, so no body that  *)
(* is refused can lock out the readings that come after it.                *)
(***************************************************************************)
MarkNeverAhead == mark <= now + Skew

(***************************************************************************)
(* What the exporter answers is the newest frame that was recorded: one    *)
(* that is malformed or out of order is not covered up by an older one.    *)
(* And it never goes back to a reading older than one it answered with     *)
(* before, whatever was withdrawn in between.  A frame whose transaction   *)
(* failed is as if it had not come: it neither replaces nor withdraws.     *)
(***************************************************************************)
ExportGoesForward ==
  [][\A h \in Handler :
       ReadSnapshot(h) =>
         /\ handler'[h].reading = recorded
         /\ handler'[h].reading.time >= exported]_weatherVars
=============================================================================
