----------------------------- MODULE MCScreens -----------------------------
(***************************************************************************)
(* What the screens show and set going while rows, answers and results     *)
(* arrive: PodTable, FleetView, ActionMenu, ConfirmedAction.  They share   *)
(* no state here, so `part` chooses once which of them runs, and the       *)
(* others rest.                                                            *)
(***************************************************************************)
EXTENDS PodTable, FleetView, ActionMenu, ConfirmedAction

VARIABLE part
mcvars == <<part, tableVars, fleetVars, menuVars, actVars>>

\* Three pods: the third replaces the second under its name.
MCPlace == <<1, 2, 2>>
MCNsOf == <<1, 2>>
MCCreated == <<0, 0, 1>>
MCReadings == {<<1, 2>>, <<2, 1>>}

MCProbes == {<<"list", "events">>}

\* A component that rests has one initial state.
MCInit ==
  /\ part \in {"table", "fleet", "menu", "action"}
  /\ TableInit /\ FleetInit /\ MenuInit /\ ActInit
  /\ part # "fleet" => watched = 1
  /\ part # "menu" => nodeRow = "open"

MCNext ==
  \/ part = "table" /\ TableNext /\ UNCHANGED <<part, fleetVars, menuVars, actVars>>
  \/ part = "fleet" /\ FleetNext /\ UNCHANGED <<part, tableVars, menuVars, actVars>>
  \/ part = "menu" /\ MenuNext /\ UNCHANGED <<part, tableVars, fleetVars, actVars>>
  \/ part = "action" /\ ActNext /\ UNCHANGED <<part, tableVars, fleetVars, menuVars>>

MCSpec == MCInit /\ [][MCNext]_mcvars
=============================================================================
