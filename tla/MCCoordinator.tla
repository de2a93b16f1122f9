---------------------------- MODULE MCCoordinator ----------------------------
(***************************************************************************)
(* The goroutines of one program that have to get somewhere: the start,    *)
(* the watch coordinator and a log's stream (StartContext,                 *)
(* WatchCoordinator, LogStream).  They share no state here, so `part`      *)
(* chooses once which of them runs, and the others rest.                   *)
(***************************************************************************)
EXTENDS WatchCoordinator, LogStream, StartContext

CONSTANTS c1, c2, t1, t2

VARIABLE part
mcvars == <<part, vars, streamVars, startVars>>

TwoContexts == {c1, c2}
MCTexts == {t1, t2}

MCInit ==
  /\ part \in {"coordinator", "stream", "start"}
  /\ Init /\ StreamInit /\ StartInit

MCNext ==
  \/ part = "coordinator" /\ Next /\ UNCHANGED <<part, streamVars, startVars>>
  \/ part = "stream" /\ StreamNext /\ UNCHANGED <<part, vars, startVars>>
  \/ part = "start" /\ StartNext /\ UNCHANGED <<part, vars, streamVars>>

\* The fairness of FairSpec, FairStreamSpec and StartSpec, each for the component
\* that runs.
CoordinatorFair ==
  /\ WF_vars(part = "coordinator" /\ \E target \in commands : SwitchTo(target))
  /\ WF_vars(part = "coordinator" /\ Signal) /\ WF_vars(part = "coordinator" /\ Request)
  /\ WF_vars(part = "coordinator" /\ Fire) /\ WF_vars(part = "coordinator" /\ Stop)

StreamFair ==
  WF_streamVars(part = "stream" /\ Run) /\ WF_streamVars(part = "stream" /\ ForwardLogs)

StartsFair ==
  /\ WF_startVars(part = "start" /\ OpenWanted) /\ WF_startVars(part = "start" /\ ReadPreferred)
  /\ WF_startVars(part = "start" /\ ReadContext) /\ WF_startVars(part = "start" /\ LookAgain)
  /\ WF_startVars(part = "start" /\ GiveUpPicking)
  /\ WF_startVars(part = "start" /\ DeadlineFires)
  /\ SF_startVars(part = "start" /\ TakeDeadline)

MCSpec ==
  /\ MCInit /\ [][MCNext]_mcvars
  /\ CoordinatorFair /\ StreamFair /\ StartsFair

\* WatchCoordinator's Converges, which asks for progress from the first state on,
\* is asked of the behaviours in which it runs.
CoordinatorConverges == part = "coordinator" => Converges
=============================================================================
