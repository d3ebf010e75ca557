----------------------------- MODULE Informational -----------------------------
(***************************************************************************)
(* Periodic information on the overlay (src/informational.rs): a worker    *)
(* sleeps an interval, asks the gateway whether the owner's override is    *)
(* on, draws what to show from the number of the cycle, and appends the    *)
(* event.  It is restarted with the daemon at any step.                    *)
(***************************************************************************)
EXTENDS Weather

CONSTANTS
  Interval,       \* interval_seconds
  Display,        \* 300 s: no older reading is shown
  Scale,          \* probabilities and draws are given in parts of Scale
  InterfaceDraw,  \* stable_draw(cycle, "interface-info"), by cycle
  WeatherDraw,    \* stable_draw(cycle, "weather"), by cycle
  InterfaceProbability,
  WeatherProbability

ASSUME InformationalAssumption ==
  /\ Interval \in Nat \ {0}
  /\ Display \in Nat
  /\ Scale \in Nat \ {0}
  /\ InterfaceProbability \in 0..Scale
  /\ WeatherProbability \in 0..(Scale - InterfaceProbability)

VARIABLES
  worker,   \* what the worker is about to do
  latest    \* the newest informational event of the log, and weather event

informationalVars == <<weatherVars, worker, latest>>

Asleep == [pc |-> "asleep", until |-> now + Interval]
Information(cycle, type, time) == [cycle |-> cycle, type |-> type, time |-> time]

\* current_cycle
CurrentCycle == now \div Interval

\* choose_for_cycle: the interface information has the first chance; the
\* chance of weather is raised so that its own, taken alone, is as configured.
ChooseForCycle(cycle) ==
  CASE InterfaceDraw[cycle] < InterfaceProbability -> "interface_info"
    [] InterfaceDraw[cycle] >= InterfaceProbability
       /\ WeatherDraw[cycle] * (Scale - InterfaceProbability) < WeatherProbability * Scale -> "weather"
    [] OTHER -> "none"

-----------------------------------------------------------------------------
InformationalInit ==
  /\ WeatherInit
  /\ worker = Asleep
  /\ latest = [cycle |-> -1, weather |-> -1]

\* The loop sleeps before every cycle, the first one too.
Wake ==
  /\ worker.pc = "asleep"
  /\ now >= worker.until
  /\ worker' = [pc |-> "safety"]
  /\ UNCHANGED <<weatherVars, latest>>

\* feeder_safety answered, and the cycle is computed from the clock after it.
\* With the override on nothing is shown.
DecideCycle ==
  /\ worker.pc = "safety"
  /\ \/ /\ worker' = Asleep
        /\ UNCHANGED <<weatherVars, latest>>
     \/ CASE ChooseForCycle(CurrentCycle) = "none" ->
               worker' = Asleep /\ UNCHANGED <<weatherVars, latest>>
          [] ChooseForCycle(CurrentCycle) = "interface_info" ->
               /\ worker' = [pc |-> "append", event |-> Information(CurrentCycle, "interface_info", 0)]
               /\ UNCHANGED <<weatherVars, latest>>
          [] ChooseForCycle(CurrentCycle) = "weather" ->
               \E h \in Handler :
                 /\ RequestWeather(h)
                 /\ worker' = [pc |-> "weather", cycle |-> CurrentCycle, on |-> h]
                 /\ UNCHANGED <<now, exporter, mark, latest>>

\* GatewayClient.weather: the answer is checked again on arrival.
ReceiveWeather ==
  /\ worker.pc = "weather"
  /\ handler[worker.on].pc = "answer"
  /\ LET r == handler[worker.on].reading IN
       worker' = IF Current(r.time, Display) /\ Displayable(r.content)
                 THEN [pc |-> "append", event |-> Information(worker.cycle, "weather_status", r.time)]
                 ELSE Asleep
  /\ Handle(worker.on, Free)
  /\ UNCHANGED <<now, exporter, mark, latest>>

\* append_event, in a transaction of its own.
AppendInformation ==
  /\ worker.pc = "append"
  /\ latest' = [cycle |-> worker.event.cycle,
                weather |-> IF worker.event.type = "weather_status" THEN worker.event.time
                            ELSE latest.weather]
  /\ worker' = Asleep
  /\ UNCHANGED weatherVars

\* The gateway does not answer in 15 s, or answers with an error, or the
\* database fails: the cycle is over.  The request goes on in the gateway.
CycleFails ==
  /\ worker.pc \in {"safety", "weather", "append"}
  /\ worker' = Asleep
  /\ UNCHANGED <<weatherVars, latest>>

\* Mutant: the first cycle runs as soon as the daemon starts.
MutantNoFirstSleep ==
  /\ worker' = [pc |-> "safety"]
  /\ UNCHANGED <<weatherVars, latest>>

RestartDaemon ==
  /\ worker' = Asleep
  /\ UNCHANGED <<weatherVars, latest>>

\* An answer that nobody waits for is dropped with its connection.
DropAnswer(h) ==
  /\ handler[h].pc = "answer"
  /\ ~(worker.pc = "weather" /\ worker.on = h)
  /\ Handle(h, Free)
  /\ UNCHANGED <<now, exporter, mark, worker, latest>>

InformationalNext ==
  \/ WeatherNext /\ UNCHANGED <<worker, latest>>
  \/ Wake
  \/ DecideCycle
  \/ ReceiveWeather
  \/ AppendInformation
  \/ CycleFails
  \/ RestartDaemon
  \/ \E h \in Handler : DropAnswer(h)

InformationalSpec == InformationalInit /\ [][InformationalNext]_informationalVars
-----------------------------------------------------------------------------
(***************************************************************************)
(* At most one informational event per cycle, whatever the daemon is       *)
(* restarted and however slow the gateway answers.                         *)
(***************************************************************************)
OncePerCycle ==
  [][AppendInformation => worker.event.cycle > latest.cycle]_informationalVars

(***************************************************************************)
(* The overlay is never shown weather older than what it was shown before, *)
(* across restarts of the gateway and of the daemon, a station whose clock *)
(* goes back, and a receiver that answers with old frames.                 *)
(***************************************************************************)
WeatherGoesForward ==
  [][latest'.weather >= latest.weather]_informationalVars
=============================================================================
