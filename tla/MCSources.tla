----------------------------- MODULE MCSources -----------------------------
EXTENDS Sources
=============================================================================
