------------------------ MODULE MCObservationTarget -------------------------
EXTENDS ObservationTarget
=============================================================================
