-------------------------- MODULE MCSitlClosedLoop --------------------------
EXTENDS SitlClosedLoop
=============================================================================
