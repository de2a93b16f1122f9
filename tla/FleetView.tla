----------------------------- MODULE FleetView -----------------------------
(***************************************************************************)
(* The fleet dashboard and the ways in and out of it                       *)
(* (internal/ui/fleet.go, fleethealth.go, clusterdash.go, sidebar.go,      *)
(* app.go).                                                                *)
(*                                                                         *)
(* The dashboard shows every cluster of the store, in an order the probes  *)
(* change under the cursor.  Expanding a card fetches its detail, which    *)
(* may be collapsed, refreshed, expanded again or left while fetches are   *)
(* on their way.  The dashboards borrow the filter of the resource tables, *)
(* and Tab moves between clusters that come and go.                        *)
(***************************************************************************)
EXTENDS Integers, Sequences, FiniteSets, Ordered

CONSTANTS Clusters,   \* 1..n in the order of their names
          Reaches,    \* the reachabilities that the probes report
          NameMatch,  \* clusters whose name the filter "x" matches
          RowMatch,   \* rows it matches, of the rows 1 and 2 of a resource table
          MaxFetches, \* bound on the fetches
          MaxFleetEvents \* bound on keys and probes

Reachabilities == {"connecting", "healthy", "alerting", "degraded", "auth", "unreachable"}

ASSUME FleetAssumption ==
  /\ Clusters \subseteq Nat \ {0} /\ IsFiniteSet(Clusters) /\ Clusters # {}
  /\ Reaches \subseteq Reachabilities
  /\ NameMatch \subseteq Clusters /\ RowMatch \subseteq {1, 2}
  /\ MaxFetches \in Nat /\ MaxFleetEvents \in Nat

None == 0
TableRows == {1, 2}
ResourceViews == {"pods", "nodes"}

VARIABLES
  store,    \* each cluster's reachability; "alerting" is healthy with an alert
  watched,  \* m.WatchedContext
  rows,     \* the rows of the resource tables, which a focus change empties
  screen,   \* m.view, m.filterText, m.filterFocused and m.cursor
  fleet,    \* m.fleet, without the detail
  clusterDash, \* m.clusterDash
  detail,   \* m.fleet.detail, m.fleet.detailSeq, and the fetch its result is of
  fetches,  \* FleetDetail calls and messages on their way
  tableFilter, \* history: the filter the user gave the resource tables
  fleetEvents

fleetVars == <<store, watched, rows, screen, fleet, clusterDash, detail, fetches, tableFilter,
               fleetEvents>>

FleetInit ==
  /\ store = [c \in Clusters |-> "connecting"]
  /\ watched \in Clusters /\ rows = TableRows
  /\ screen = [view |-> "pods", filter |-> "", typing |-> FALSE, cursor |-> 1]
  /\ fleet = [cursor |-> None, expanded |-> None, back |-> "pods", saved |-> ""]
  /\ clusterDash = [back |-> "pods", saved |-> ""]
  /\ detail = [seq |-> 0, loading |-> FALSE, of |-> None, got |-> 0] /\ fetches = {}
  /\ tableFilter = "" /\ fleetEvents = 0

FleetEvent == fleetEvents < MaxFleetEvents /\ fleetEvents' = fleetEvents + 1

-----------------------------------------------------------------------------
(* Orders.                                                                 *)

Offline(c) == store[c] \in {"auth", "unreachable"}
Up(c) == store[c] \in {"healthy", "alerting", "degraded"}

\* groupFleet: clusters that want attention, worst first; then healthy,
\* starting and offline ones.
Tier(reach) ==
  CASE reach = "alerting" -> 1 [] reach = "degraded" -> 2 [] reach = "healthy" -> 3
    [] reach = "connecting" -> 4 [] reach = "auth" -> 5 [] reach = "unreachable" -> 6

\* sortKey, of the rail
RailTier(reach) ==
  CASE reach \in {"healthy", "alerting"} -> 0 [] reach = "connecting" -> 1
    [] reach = "degraded" -> 2 [] reach = "auth" -> 3 [] reach = "unreachable" -> 4

\* The smaller tier first; equal tiers fall to the name.
ByTier(S, tier) ==
  {p \in S \X S : tier[p[1]] < tier[p[2]] \/ (tier[p[1]] = tier[p[2]] /\ p[1] < p[2])}

\* fleetOrder, under the filter
FleetOrder(filter) ==
  LET S == IF filter = "" THEN Clusters ELSE NameMatch
  IN  InSequence(S, ByTier(S, [c \in S |-> Tier(store[c])]))

\* focusOrder
FocusOrder == InSequence(Clusters, ByTier(Clusters, [c \in Clusters |-> RailTier(store[c])]))

Index(s, x) == IF \E i \in DOMAIN s : s[i] = x THEN CHOOSE i \in DOMAIN s : s[i] = x ELSE 0

\* fleetCursor
FleetCursor ==
  LET order == FleetOrder(screen.filter)
  IN  IF order = <<>> THEN None
      ELSE IF Index(order, fleet.cursor) # 0 THEN fleet.cursor ELSE order[1]

VisibleRows(filter) == IF filter = "" THEN rows ELSE rows \cap RowMatch

\* anchorCursorToVisible, on a screen: the dashboards have no rows to be on.
Anchored(scr) ==
  LET visible == IF scr.view \in ResourceViews THEN VisibleRows(scr.filter) ELSE {}
  IN  IF scr.cursor \in visible THEN scr
      ELSE [scr EXCEPT !.cursor = IF visible = {} THEN None
                                  ELSE CHOOSE r \in visible : \A x \in visible : r <= x]

-----------------------------------------------------------------------------
(* In and out.                                                             *)

\* enterFleet, from a resource view or, by way of it, from the cluster dashboard.
EnterFleet ==
  /\ FleetEvent /\ screen.view # "fleet"
  /\ LET from == IF screen.view = "cluster" THEN clusterDash.back ELSE screen.view
         text == IF screen.view = "cluster" THEN clusterDash.saved ELSE screen.filter
     IN  /\ fleet' = [fleet EXCEPT !.back = from, !.saved = text]
         /\ screen' = [screen EXCEPT !.view = "fleet", !.filter = "", !.typing = FALSE]
         /\ clusterDash' = IF screen.view = "cluster" THEN [clusterDash EXCEPT !.saved = ""] ELSE clusterDash
  /\ UNCHANGED <<store, watched, rows, detail, fetches, tableFilter>>

\* A wrong Left: the filter of the cards stays.
LeftFiltered(to) == [screen EXCEPT !.view = to, !.typing = FALSE]

\* leaveFleet: the filter comes back, the expansion goes.
Left(to) == [screen EXCEPT !.view = to, !.filter = fleet.saved, !.typing = FALSE]
LeftFleet == [fleet EXCEPT !.saved = "", !.expanded = None]
NoDetailNow == [detail EXCEPT !.loading = FALSE, !.of = None, !.got = 0]

\* esc with nothing to close, and f1
BackFromFleet ==
  /\ FleetEvent /\ screen.view = "fleet"
  /\ screen' = Left(fleet.back) /\ fleet' = LeftFleet /\ detail' = NoDetailNow
  /\ UNCHANGED <<store, watched, rows, clusterDash, fetches, tableFilter>>

\* enterClusterDash, from a resource view or from the fleet view: f3
EnterClusterDash ==
  /\ FleetEvent /\ screen.view # "cluster"
  /\ LET from == IF screen.view = "fleet" THEN Left(fleet.back) ELSE screen
     IN  /\ clusterDash' = [back |-> from.view, saved |-> from.filter]
         /\ screen' = [from EXCEPT !.view = "cluster", !.filter = "", !.typing = FALSE]
  /\ IF screen.view = "fleet" THEN fleet' = LeftFleet /\ detail' = NoDetailNow
     ELSE UNCHANGED <<fleet, detail>>
  /\ UNCHANGED <<store, watched, rows, fetches, tableFilter>>

BackFromClusterDash ==
  /\ FleetEvent /\ screen.view = "cluster"
  /\ screen' = [screen EXCEPT !.view = clusterDash.back, !.filter = clusterDash.saved]
  /\ clusterDash' = [clusterDash EXCEPT !.saved = ""]
  /\ UNCHANGED <<store, watched, rows, fleet, detail, fetches, tableFilter>>

\* switchView by its number, from anywhere
SwitchView(v) ==
  /\ FleetEvent /\ v # screen.view /\ ~screen.typing
  /\ LET scr == CASE screen.view = "fleet" -> [screen EXCEPT !.filter = fleet.saved]
                  [] screen.view = "cluster" -> [screen EXCEPT !.view = clusterDash.back, !.filter = clusterDash.saved]
                  [] OTHER -> screen
     IN  screen' = IF scr.view = v THEN scr ELSE Anchored([scr EXCEPT !.view = v, !.cursor = None])
  /\ IF screen.view = "fleet" THEN fleet' = LeftFleet /\ detail' = NoDetailNow
     ELSE UNCHANGED <<fleet, detail>>
  /\ clusterDash' = IF screen.view = "cluster" THEN [clusterDash EXCEPT !.saved = ""] ELSE clusterDash
  /\ UNCHANGED <<store, watched, rows, fetches, tableFilter>>

-----------------------------------------------------------------------------
(* Keys of the tables and of the filter.                                   *)

MoveRow(r) ==
  /\ FleetEvent /\ screen.view \in ResourceViews /\ ~screen.typing
  /\ r \in VisibleRows(screen.filter) /\ r # screen.cursor
  /\ screen' = [screen EXCEPT !.cursor = r]
  /\ UNCHANGED <<store, watched, rows, fleet, clusterDash, detail, fetches, tableFilter>>

\* "/": the cluster dashboard has no filter.
FocusFilter ==
  /\ screen.view # "cluster" /\ ~screen.typing
  /\ screen' = [screen EXCEPT !.typing = TRUE]
  /\ UNCHANGED <<store, watched, rows, fleet, clusterDash, detail, fetches, tableFilter, fleetEvents>>

\* handleFilterKey ends every key it handles with this.
AfterFilterKey(scr) == Anchored(scr)

\* handleFilterKey: the text, esc and enter
FilterKey(text, typing) ==
  /\ FleetEvent /\ screen.typing
  /\ typing \/ text \in {"", screen.filter}
  /\ screen' = AfterFilterKey([screen EXCEPT !.filter = text, !.typing = typing])
  /\ tableFilter' = IF screen.view \in ResourceViews THEN text ELSE tableFilter
  /\ UNCHANGED <<store, watched, rows, fleet, clusterDash, detail, fetches>>

\* esc in a resource view
ClearFilter ==
  /\ FleetEvent /\ screen.view \in ResourceViews /\ ~screen.typing /\ screen.filter # ""
  /\ screen' = Anchored([screen EXCEPT !.filter = ""]) /\ tableFilter' = ""
  /\ UNCHANGED <<store, watched, rows, fleet, clusterDash, detail, fetches>>

-----------------------------------------------------------------------------
(* Focus.                                                                  *)

\* focusContext, as far as it reaches these: clearFocusedState
Focused(c) ==
  /\ watched' = c
  /\ rows' = {}

\* The clusters Tab stops at when there are any.
Candidate(c) == Up(c)

\* cycleFocus from w: the next candidate in rail order, else the neighbour.
Cycled(w, delta) ==
  LET order == FocusOrder
      n == Len(order)
      at(step) == order[((Index(order, w) - 1 + delta * step) % n) + 1]
      ups == {step \in 1..(n - 1) : Candidate(at(step))}
  IN  IF n <= 1 THEN w
      ELSE at(IF ups = {} THEN 1 ELSE CHOOSE step \in ups : \A x \in ups : step <= x)

Tab(delta) ==
  /\ FleetEvent /\ Cycled(watched, delta) # watched
  /\ Focused(Cycled(watched, delta))
  /\ screen' = [screen EXCEPT !.cursor = None, !.typing = FALSE]
  /\ UNCHANGED <<store, fleet, clusterDash, detail, fetches, tableFilter>>

\* "o": to the cluster under the cursor, and its pods
OpenCluster ==
  /\ FleetEvent /\ screen.view = "fleet" /\ ~screen.typing /\ FleetCursor # None
  /\ IF FleetCursor # watched
     THEN Focused(FleetCursor) /\ screen' = [Left("pods") EXCEPT !.cursor = None]
     ELSE screen' = Left("pods") /\ UNCHANGED <<watched, rows>>
  /\ fleet' = LeftFleet /\ detail' = NoDetailNow
  /\ UNCHANGED <<store, clusterDash, fetches, tableFilter>>

RowsArrive ==
  /\ rows # TableRows /\ rows' = TableRows
  /\ UNCHANGED <<store, watched, screen, fleet, clusterDash, detail, fetches, tableFilter, fleetEvents>>

ProbeReports(c, reach) ==
  /\ FleetEvent /\ reach # store[c] /\ store' = [store EXCEPT ![c] = reach]
  /\ UNCHANGED <<watched, rows, screen, fleet, clusterDash, detail, fetches, tableFilter>>

-----------------------------------------------------------------------------
(* The cards and their details.                                            *)

FleetKey == FleetEvent /\ screen.view = "fleet" /\ ~screen.typing

\* moveFleetCursor
MoveFleetCursor(delta) ==
  /\ FleetKey
  /\ LET order == FleetOrder(screen.filter)
         i == (IF Index(order, fleet.cursor) = 0 THEN 1 ELSE Index(order, fleet.cursor)) + delta
     IN  /\ order # <<>>
         /\ fleet' = [fleet EXCEPT !.cursor = order[IF i < 1 THEN 1 ELSE IF i > Len(order) THEN Len(order) ELSE i]]
  /\ UNCHANGED <<store, watched, rows, screen, clusterDash, detail, fetches, tableFilter>>

\* fetchFleetDetail: the earlier result stays when it is of the same cluster.
Fetch(c) ==
  /\ detail.seq < MaxFetches
  /\ detail' = [seq |-> detail.seq + 1, loading |-> TRUE, of |-> IF detail.of = c THEN c ELSE None,
                got |-> IF detail.of = c THEN detail.got ELSE 0]
  /\ fetches' = fetches \cup {[seq |-> detail.seq + 1, of |-> c]}

\* An offline cluster has nothing to fetch, and nothing on its way may land.
ExpandedOffline ==
  detail.seq < MaxFetches /\ detail' = [NoDetailNow EXCEPT !.seq = detail.seq + 1]

\* enter
Expand ==
  /\ FleetKey /\ FleetCursor # None /\ fleet.expanded # FleetCursor
  /\ fleet' = [fleet EXCEPT !.expanded = FleetCursor]
  /\ IF Offline(FleetCursor) THEN ExpandedOffline /\ UNCHANGED fetches ELSE Fetch(FleetCursor)
  /\ UNCHANGED <<store, watched, rows, screen, clusterDash, tableFilter>>

\* enter on the expanded card, and esc: the detail stays.
Collapse ==
  /\ FleetKey /\ fleet.expanded # None /\ fleet' = [fleet EXCEPT !.expanded = None]
  /\ UNCHANGED <<store, watched, rows, screen, clusterDash, detail, fetches, tableFilter>>

\* esc with nothing expanded
ClearFleetFilter ==
  /\ FleetKey /\ fleet.expanded = None /\ screen.filter # ""
  /\ screen' = [screen EXCEPT !.filter = ""]
  /\ UNCHANGED <<store, watched, rows, fleet, clusterDash, detail, fetches, tableFilter>>

\* r, and the tick when there is no result or it is old
Refresh ==
  /\ screen.view = "fleet" /\ fleet.expanded # None
  /\ ~detail.loading /\ ~Offline(fleet.expanded) /\ Fetch(fleet.expanded)
  /\ UNCHANGED <<store, watched, rows, screen, fleet, clusterDash, tableFilter, fleetEvents>>

\* A wrong Lands: the newest fetch is not told from others of the cluster.
LandsByContext(f) == screen.view = "fleet" /\ f.of = fleet.expanded

\* FleetDetailMsg
Lands(f) == screen.view = "fleet" /\ f.of = fleet.expanded /\ f.seq = detail.seq

DeliverDetail(f) ==
  /\ f \in fetches /\ fetches' = fetches \ {f}
  /\ detail' = IF Lands(f) THEN [detail EXCEPT !.loading = FALSE, !.of = f.of, !.got = f.seq] ELSE detail
  /\ UNCHANGED <<store, watched, rows, screen, fleet, clusterDash, tableFilter, fleetEvents>>

FleetNext ==
  \/ EnterFleet \/ BackFromFleet \/ EnterClusterDash \/ BackFromClusterDash
  \/ \E v \in ResourceViews : SwitchView(v)
  \/ \E r \in TableRows : MoveRow(r)
  \/ FocusFilter \/ ClearFilter
  \/ \E text \in {"", "x"}, typing \in BOOLEAN : FilterKey(text, typing)
  \/ \E delta \in {-1, 1} : Tab(delta) \/ MoveFleetCursor(delta)
  \/ OpenCluster \/ RowsArrive \/ Expand \/ Collapse \/ ClearFleetFilter \/ Refresh
  \/ \E c \in Clusters, reach \in Reaches : ProbeReports(c, reach)
  \/ \E f \in fetches : DeliverDetail(f)

FleetSpec == FleetInit /\ [][FleetNext]_fleetVars

-----------------------------------------------------------------------------
\* The expanded card shows its own cluster's detail, of the newest fetch unless
\* a newer one is on its way, and says "fetching" only while one is.
DetailOfCard ==
  screen.view = "fleet" /\ fleet.expanded # None =>
    /\ detail.of \in {None, fleet.expanded}
    /\ detail.got # 0 /\ ~detail.loading => detail.got = detail.seq
    /\ detail.loading => [seq |-> detail.seq, of |-> fleet.expanded] \in fetches

\* However the user goes through the dashboards, the resource tables have the
\* filter given to them, and never one of cluster names.
FilterReturns == screen.view \in ResourceViews => screen.filter = tableFilter

\* What a visit of the fleet dashboard shows and what it leaves behind.
FleetTruthful == DetailOfCard /\ FilterReturns

\* While the probes are quiet, Tab comes to every cluster that is up when there
\* are at least two, and Shift-Tab goes back.
TabReachesAll ==
  LET ups == {c \in Clusters : Up(c)}
      at[i \in 0..Cardinality(ups)] == IF i = 0 THEN watched ELSE Cycled(at[i - 1], 1)
  IN  Cardinality(ups) >= 2 =>
        /\ ups \subseteq {at[i] : i \in DOMAIN at}
        /\ Up(watched) => Cycled(Cycled(watched, 1), -1) = watched

-----------------------------------------------------------------------------
(* What an induction needs besides.                                        *)

\* The cursors, and the cluster a detail is of, are whatever they are.
FleetTypeOK ==
  /\ screen \in [view : ResourceViews \cup {"fleet", "cluster"}, filter : {"", "x"}, typing : BOOLEAN,
                 cursor : {screen.cursor}]
  /\ fleet \in [cursor : {fleet.cursor}, expanded : {fleet.expanded}, back : ResourceViews, saved : {"", "x"}]
  /\ clusterDash \in [back : ResourceViews, saved : {"", "x"}]
  /\ detail \in [seq : Nat, loading : BOOLEAN, of : {detail.of}, got : Nat]
  /\ \A f \in fetches : f.seq \in Nat

\* Whichever screen borrowed the filter of the tables kept it, and no card is
\* expanded on another screen.
BorrowedInv ==
  /\ screen.view = "fleet" => fleet.saved = tableFilter
  /\ screen.view = "cluster" => clusterDash.saved = tableFilter
  /\ screen.view # "fleet" => fleet.expanded = None

FleetInv == FleetTypeOK /\ DetailOfCard /\ FilterReturns /\ BorrowedInv

\* The focus is on a cluster, and each has a reachability.
FocusInv == store \in [Clusters -> Reachabilities] /\ watched \in Clusters
=============================================================================
