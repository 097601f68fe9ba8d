-------------------------- MODULE MCRuntimeShadow ---------------------------
EXTENDS RuntimeShadow
=============================================================================
