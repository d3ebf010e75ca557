---------------------------- MODULE MCInformational ----------------------------
EXTENDS Informational

CONSTANTS h1, h2

Symmetry == Permutations(Handler)

\* A complete reading, one whose pressure trend holds a control character,
\* and one without a required field.
MCContent ==
  {[required |-> "in range", optional |-> "in range", trend |-> "absent"],
   [required |-> "in range", optional |-> "absent", trend |-> "control character"],
   [required |-> "out of range", optional |-> "absent", trend |-> "absent"]}

\* In tenths: 4/10 for each, so weather is drawn with 2/3 after the interface.
\* The interface in the first cycle, weather in the two after it; a cycle
\* with nothing to show ends as one with the override on.
MCInterfaceDraw == [c \in 0..MaxTime |-> IF c = 1 THEN 1 ELSE 7]
MCWeatherDraw == [c \in 0..MaxTime |-> 6]

\* The direction is the nearest of the sixteen, 22.5 degrees apart.
ASSUME NearestDirection ==
  \A tenths \in 0..3600 :
    LET away == (4 * tenths - 900 * DegreesToCardinal(tenths) + 14400) % 14400
    IN away <= 450 \/ away >= 14400 - 450
=============================================================================
