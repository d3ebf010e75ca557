\* One worker, two requests in the gateway, three cycles of two seconds.
SPECIFICATION InformationalSpec
CONSTANTS
  h1 = h1
  h2 = h2
  Handler = {h1, h2}
  Contents <- MCContent
  Skew = 1
  Stale = 1
  MaxStale = 2
  Display = 2
  MaxTime = 6
  Interval = 2
  Scale = 10
  InterfaceDraw <- MCInterfaceDraw
  WeatherDraw <- MCWeatherDraw
  InterfaceProbability = 4
  WeatherProbability = 4
SYMMETRY Symmetry
INVARIANTS
  MarkNeverAhead
PROPERTIES
  OncePerCycle
  WeatherGoesForward
  ExportGoesForward
CHECK_DEADLOCK FALSE
