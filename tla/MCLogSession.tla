--------------------------- MODULE MCLogSession ---------------------------
(* Two replicas, the newer one with two containers.                        *)
EXTENDS LogSession
MCPods == 1..2
MCContainers == [p \in MCPods |-> p]
=============================================================================
