--------------------------- MODULE MCLiveScenario ----------------------------
EXTENDS LiveScenario
=============================================================================
