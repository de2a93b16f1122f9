------------------------------- MODULE MCProbe -------------------------------
(***************************************************************************)
(* What is learnt in the background and then relied on: ClusterProbe,      *)
(* NetworkPoll, and TrustList with the contexts found in trusted files.    *)
(* They share no state here, so `part` chooses once which of them runs,    *)
(* and the others rest.                                                    *)
(***************************************************************************)
EXTENDS ClusterProbe, NetworkPoll, TrustList, TLC

VARIABLE part
mcvars == <<part, vars, netVars, trustVars>>

MCSignals == {"pods"}

\* Two nodes; the second pod moved from one to the other.
MCPodsOf == <<{1, 2}, {2}>>

\* Two files of one base name in different directories, whose contexts are
\* called "prod", "prod (config)" and "prod (a/config)".
MCNameOf == <<<<"prod">>, <<"prod", "config">>, <<"prod", "a/config">>, <<"prod", "/a/config">>>>
MCTails == <<<<"config", "a/config", "/a/config">>, <<"config", "b/config", "/b/config">>>>
MCSuffix == [n \in 1..18 |-> ToString(n)]
MCContextsOf == <<{1}, {1, 2}, {1, 3, 4}, {}>>

\* A component that rests has one initial state.
MCInit ==
  /\ part \in {"probe", "network", "trust"}
  /\ Init /\ NetInit /\ TrustInit
  /\ part # "trust" => \A f \in Files : content[f] = NoFile

MCNext ==
  \/ part = "probe" /\ Next /\ UNCHANGED <<part, netVars, trustVars>>
  \/ part = "network" /\ NetNext /\ UNCHANGED <<part, vars, trustVars>>
  \/ part = "trust" /\ TrustNext /\ UNCHANGED <<part, vars, netVars>>

MCSpec == MCInit /\ [][MCNext]_mcvars
=============================================================================
