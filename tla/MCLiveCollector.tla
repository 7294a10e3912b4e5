--------------------------- MODULE MCLiveCollector ---------------------------
EXTENDS LiveCollector
=============================================================================
