----------------------------- MODULE MCPodWatch -----------------------------
(***************************************************************************)
(* A pod watcher's start: it learns its scope (ScopeResolution), lists and *)
(* delivers (PodWatch).  They share no state here, so `part` chooses once  *)
(* which of them runs, and the other rests.                                *)
(***************************************************************************)
EXTENDS PodWatch, ScopeResolution

CONSTANTS p1, p2, w1, w2, w3

VARIABLE part
mcvars == <<part, pvars, scopeVars>>

TwoPods == {p1, p2}
AllUIDs == {p1, p2, EmptyUID, DelayUID}
MCCallers == {w1, w2, w3}

MCInit == part \in {"watcher", "scope"} /\ PInit /\ ScopeInit

MCNext ==
  \/ part = "watcher" /\ PNext /\ UNCHANGED <<part, scopeVars>>
  \/ part = "scope" /\ ScopeNext /\ UNCHANGED <<part, pvars>>

\* The fairness of PFairSpec and FairScopeSpec, each for the component that runs.
WatcherFair ==
  /\ WF_pvars(part = "watcher" /\ RunStep /\ UNCHANGED <<watcher, ui>>)
  /\ WF_pvars(part = "watcher" /\ UpdatePod /\ ~cancelled)
  /\ WF_pvars(part = "watcher" /\ Synced)

ScopeFair ==
  /\ \A c \in Callers :
       /\ WF_scopeVars(part = "scope" /\ Lookup(c)) /\ WF_scopeVars(part = "scope" /\ Join(c))
       /\ WF_scopeVars(part = "scope" /\ Answer(c))
  /\ \A i \in 1..MaxAsks : WF_scopeVars(part = "scope" /\ CallStep(i))

MCSpec == MCInit /\ [][MCNext]_mcvars /\ WatcherFair /\ ScopeFair
=============================================================================
