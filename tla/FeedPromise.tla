----------------------------- MODULE FeedPromise -----------------------------
(***************************************************************************)
(* What the Lightning Goats daemon promises the people who pay: money that *)
(* arrives is kept, and the goats are physically fed once per attempt,     *)
(* never beyond the money received.  The specification of Feeder.tla.      *)
(***************************************************************************)
EXTENDS Integers, FiniteSets, FiniteSetsExt

CONSTANTS
  Attempt,        \* feeds, by the UUID of their attempt
  ThresholdSats   \* prices of a feed

VARIABLES
  received,   \* sats received so far
  price       \* price of each feed that took place; 0 for the others

promise == <<received, price>>

\* The price of all the feeds that took place.
Spent(p) == MapThenSumSet(LAMBDA a : p[a], Attempt)

Init ==
  /\ received = 0
  /\ price = [a \in Attempt |-> 0]

Receive ==
  /\ received' > received
  /\ UNCHANGED price

Feed(a) ==
  /\ price[a] = 0
  /\ \E t \in ThresholdSats :
       /\ Spent(price) + t <= received
       /\ price' = [price EXCEPT ![a] = t]
  /\ UNCHANGED received

Next ==
  \/ Receive
  \/ \E a \in Attempt : Feed(a)

Spec == Init /\ [][Next]_promise
=============================================================================
