---------------------------- MODULE MCStateEstimators ----------------------------
EXTENDS StateEstimators
=============================================================================
