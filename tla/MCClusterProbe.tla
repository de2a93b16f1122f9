--------------------------- MODULE MCClusterProbe ---------------------------
EXTENDS ClusterProbe

MCSignals == {"pods"}
=============================================================================
