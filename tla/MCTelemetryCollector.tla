------------------------- MODULE MCTelemetryCollector -------------------------
EXTENDS TelemetryCollector
===============================================================================
