----------------------------- MODULE MCPodTable -----------------------------
(* Three pods: the third replaces the second under its name.               *)
EXTENDS PodTable
MCPlace == <<1, 2, 2>>
MCNsOf == <<1, 2>>
MCCreated == <<0, 0, 1>>
MCReadings == {<<1, 2>>, <<2, 1>>}
=============================================================================
