------------------------------- MODULE MCLogs -------------------------------
(***************************************************************************)
(* A log from its container to the screen, component by component:         *)
(* LogStream reads and batches it, LogSession decides whose lines are      *)
(* taken, LogBuffer holds and searches them.  They share no state here, so *)
(* `part` chooses once which of them runs, and the others rest.            *)
(***************************************************************************)
EXTENDS LogStream, LogSession, LogBuffer, TLC

CONSTANTS t1, t2

VARIABLE part
mcvars == <<part, streamVars, logVars, bufferVars>>

MCTexts == {t1, t2}
Symmetry == Permutations(MCTexts)

\* Two replicas, the newer one with two containers.
MCPods == 1..2
MCContainers == [p \in MCPods |-> p]

MCLineKinds == {{}, {"a"}, {"a", "ab"}}

\* A component that rests has one initial state.
MCInit ==
  /\ part \in {"stream", "session", "buffer"}
  /\ StreamInit /\ LogInit /\ BufferInit
  /\ part # "session" => \A p \in Pods : pods[p] = "unseen"

MCNext ==
  \/ part = "stream" /\ StreamNext /\ UNCHANGED <<part, logVars, bufferVars>>
  \/ part = "session" /\ LogNext /\ UNCHANGED <<part, streamVars, bufferVars>>
  \/ part = "buffer" /\ BufferNext /\ UNCHANGED <<part, streamVars, logVars>>

MCSpec == MCInit /\ [][MCNext]_mcvars
=============================================================================
