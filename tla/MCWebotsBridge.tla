---------------------------- MODULE MCWebotsBridge ----------------------------
EXTENDS WebotsBridge
=============================================================================
