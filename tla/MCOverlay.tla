------------------------------ MODULE MCOverlay -------------------------------
EXTENDS Overlay, TLC

CONSTANTS c1, a, b, big
=============================================================================
