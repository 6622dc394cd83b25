---------------------------- MODULE MCRemoteDebug ----------------------------
EXTENDS RemoteDebug
=============================================================================
