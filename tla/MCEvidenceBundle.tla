--------------------------- MODULE MCEvidenceBundle ---------------------------
EXTENDS EvidenceBundle
=============================================================================
