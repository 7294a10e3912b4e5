-------------------------- MODULE MCConvergenceRuns --------------------------
EXTENDS ConvergenceRuns

CONSTANTS writer, reader
=============================================================================
