--------------------------- MODULE MCFeederGateway ---------------------------
(***************************************************************************)
(* Model checking FeederGateway.  UUIDs and handlers are interchangeable.  *)
(***************************************************************************)
EXTENDS FeederGateway, TLC

GatewaySymmetry == Permutations(Attempt) \cup Permutations(Handler)
=============================================================================
