-------------------------- MODULE MCRemoteTracking --------------------------
EXTENDS RemoteTracking

OneByte == [p \in Producers |-> {1}]
=============================================================================
