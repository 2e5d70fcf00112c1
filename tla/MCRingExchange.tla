--------------------------- MODULE MCRingExchange ---------------------------
EXTENDS RingExchange
=============================================================================
