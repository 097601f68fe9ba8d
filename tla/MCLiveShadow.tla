---------------------------- MODULE MCLiveShadow ----------------------------
EXTENDS LiveShadow
=============================================================================
