--------------------------- MODULE MCSelfHeartbeat ---------------------------
EXTENDS SelfHeartbeat
=============================================================================
