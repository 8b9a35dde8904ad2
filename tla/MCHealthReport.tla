--------------------------- MODULE MCHealthReport --------------------------
EXTENDS HealthReport

CONSTANTS h1, h2
=============================================================================
