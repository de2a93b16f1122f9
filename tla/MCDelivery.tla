----------------------------- MODULE MCDelivery -----------------------------
(***************************************************************************)
(* The way of a change from the informer to the UI, for a watcher of pods  *)
(* (EventDelivery, without its markers) and for the other watchers         *)
(* (ResourceWatch).  They share no state here, so `part` chooses once      *)
(* which of them runs, and the other rests.                                *)
(***************************************************************************)
EXTENDS EventDelivery, ResourceWatch

CONSTANTS u1, u2, u3

VARIABLE part
mcvars == <<part, vars, watchVars>>

ThreeUIDs == {u1, u2, u3}

MCGroups == {{NamespaceWatcher, ProjectWatcher}, {NodeWatcher}, {ServiceWatcher},
             {ReplicaSetWatcher}, {EndpointSliceWatcher}}

\* A component that rests has one initial state.
MCInit ==
  /\ part \in {"delivery", "watchers"}
  /\ Init /\ WatchInit
  /\ part # "watchers" =>
       /\ group = {NodeWatcher}
       /\ served = [wide |-> TRUE, projects |-> FALSE, hinted |-> FALSE]
       /\ \A n \in ObjectNames : objects[n] = NoObject

MCNext ==
  \/ part = "delivery" /\ Next /\ UNCHANGED <<part, watchVars>>
  \/ part = "watchers" /\ WatchNext /\ UNCHANGED <<part, vars>>

MCSpec == MCInit /\ [][MCNext]_mcvars
=============================================================================
