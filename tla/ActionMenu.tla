----------------------------- MODULE ActionMenu -----------------------------
(***************************************************************************)
(* The action menu of a row and the permission checks that feed it         *)
(* (internal/ui/actions.go, app.go and rbac.go, Supervisor.CanI of         *)
(* internal/cluster/auth.go).                                              *)
(*                                                                         *)
(* A check is one SelfSubjectAccessReview on a goroutine of its own; its   *)
(* answer is kept for the whole visit of a cluster.  Opening the menu, and *)
(* the RBAC overview, ask for what is neither known nor asked.  Answers    *)
(* arrive while the menu is open and move its entries under the cursor.    *)
(***************************************************************************)
EXTENDS Naturals, Sequences, FiniteSets, SequencesExt

CONSTANTS MenuKinds, \* the kinds of rows
          Probes,    \* what the RBAC overview asks for: verbs with a resource
          MaxVisits  \* bound on focus changes

ASSUME MenuAssumption == MaxVisits \in Nat

VARIABLES
  answers,  \* m.permissions
  inFlight, \* m.permissionsInFlight
  checks,   \* checks on their way: their visit and key
  menu,     \* m.actionMenu
  overview, \* m.rbacOpen
  nodeRow,  \* the row of a node: "open" to pods, "cordoned", or "gone"
  visits,   \* m.focusGeneration
  ran       \* history: the action that Enter ran last, and the answer it stood on

menuVars == <<answers, inFlight, checks, menu, overview, nodeRow, visits, ran>>

Namespaced == {"Pod", "Deployment", "Service", "Ingress"}
Scope(kind) == IF kind \in Namespaced THEN "ns" ELSE ""

\* actionsFor
ActionsFor(kind) ==
  CASE kind = "Pod" -> <<"Dashboard", "Describe", "Logs", "Exec", "Events", "Delete">>
    [] kind = "Deployment" ->
         <<"Dashboard", "Describe", "Scale", "Restart", "Logs", "Events", "Delete">>
    [] kind = "Node" -> <<"Describe", "Events", "Cordon", "Uncordon", "Drain">>
    [] kind \in {"Service", "Ingress"} -> <<"Describe", "Events", "Delete">>
    [] kind \in {"Namespace", "Project"} -> <<"SetNamespace", "Describe", "Events", "Delete">>
    [] OTHER -> <<"Describe">>

Ungated == {"Dashboard", "Describe", "SetNamespace"}

\* verbsForAction
VerbFor(a, kind) ==
  CASE a = "Delete" -> <<"delete", kind>>
    [] a = "Logs" -> <<"get", "pods/log">>
    [] a = "Scale" -> <<"update", "deployments/scale">>
    [] a = "Restart" -> <<"patch", "deployments">>
    [] a = "Events" -> <<"list", "events">>
    [] a = "Exec" -> <<"create", "pods/exec">>
    [] a \in {"Cordon", "Uncordon"} -> <<"patch", "nodes">>
    [] a = "Drain" -> <<"create", "pods/eviction">>

\* PermissionKey, within one context
Key(a, kind) == <<VerbFor(a, kind), Scope(kind)>>

KindKeys(kind) == {Key(ActionsFor(kind)[i], kind) :
                     i \in {j \in DOMAIN ActionsFor(kind) : ActionsFor(kind)[j] \notin Ungated}}
OverviewKeys == {<<p, scope>> : p \in Probes, scope \in {"", "ns"}}
Keys == OverviewKeys \cup UNION {KindKeys(kind) : kind \in MenuKinds}

NoMenu == [open |-> FALSE, kind |-> "", options |-> <<>>, cursor |-> 1]
NothingRan == [action |-> "", answer |-> "allowed"]

MenuInit ==
  /\ answers = [key \in Keys |-> "unknown"]
  /\ inFlight = {} /\ checks = {}
  /\ menu = NoMenu /\ overview = FALSE
  /\ nodeRow \in {"open", "cordoned"}
  /\ visits = 0 /\ ran = NothingRan

-----------------------------------------------------------------------------
\* The status of an entry, given the answers known.
Status(a, kind, known) ==
  IF a \in Ungated THEN "allowed"
  ELSE IF known[Key(a, kind)] = "unknown" THEN "pending" ELSE known[Key(a, kind)]

\* classifiedActions; of Cordon and Uncordon, the one that changes a node that is there.
ClassifiedActions(kind, known) ==
  LET all == ActionsFor(kind)
      idle == IF nodeRow = "open" THEN "Uncordon" ELSE "Cordon"
      chosen == IF kind # "Node" \/ nodeRow = "gone" THEN all
                ELSE RemoveAt(all, CHOOSE i \in DOMAIN all : all[i] = idle)
  IN  [i \in DOMAIN chosen |-> [action |-> chosen[i], status |-> Status(chosen[i], kind, known)]]

\* firstSelectable
FirstSelectable(options) ==
  LET allowed == {i \in DOMAIN options : options[i].status = "allowed"}
  IN  IF allowed = {} THEN 1 ELSE CHOOSE i \in allowed : \A j \in allowed : i <= j

Missing(keys) == {key \in keys : answers[key] = "unknown"} \ inFlight

\* dispatchPermissionChecks and dispatchRBACOverview, for their keys.
Dispatch(keys) ==
  /\ inFlight' = inFlight \cup Missing(keys)
  /\ checks' = checks \cup {[visit |-> visits, key |-> key] : key \in Missing(keys)}

-----------------------------------------------------------------------------
\* openActionMenuFor
OpenActionMenu(kind) ==
  /\ ~menu.open /\ ~overview /\ (kind = "Node" => nodeRow # "gone")
  /\ LET options == ClassifiedActions(kind, answers)
     IN  menu' = [open |-> TRUE, kind |-> kind, options |-> options,
                  cursor |-> FirstSelectable(options)]
  /\ Dispatch(KindKeys(kind))
  /\ UNCHANGED <<answers, overview, nodeRow, visits, ran>>

CloseMenu ==
  /\ menu.open /\ menu' = NoMenu
  /\ UNCHANGED <<answers, inFlight, checks, overview, nodeRow, visits, ran>>

\* j and k: the next allowed entry below or above, if there is one.
MoveMenu(below) ==
  LET allowed == {i \in DOMAIN menu.options : menu.options[i].status = "allowed"}
      next == IF below THEN {i \in allowed : i > menu.cursor}
              ELSE {i \in allowed : i < menu.cursor}
  IN  /\ menu.open /\ next # {}
      /\ menu' = [menu EXCEPT !.cursor = CHOOSE i \in next :
                    \A j \in next : IF below THEN i <= j ELSE i >= j]
      /\ UNCHANGED <<answers, inFlight, checks, overview, nodeRow, visits, ran>>

\* enter: executeAction, which closes the menu.
RunAction ==
  /\ menu.open /\ menu.options[menu.cursor].status = "allowed"
  /\ LET a == menu.options[menu.cursor].action
     IN  ran' = [action |-> a, answer |-> Status(a, menu.kind, answers)]
  /\ menu' = NoMenu
  /\ UNCHANGED <<answers, inFlight, checks, overview, nodeRow, visits>>

\* R, and R again.
OpenOverview ==
  /\ ~menu.open /\ ~overview /\ overview' = TRUE
  /\ Dispatch(OverviewKeys)
  /\ UNCHANGED <<answers, menu, nodeRow, visits, ran>>

CloseOverview ==
  /\ overview /\ overview' = FALSE
  /\ UNCHANGED <<answers, inFlight, checks, menu, nodeRow, visits, ran>>

\* applyNodeEvent: the menu is not classified again.
NodeChanges(row) ==
  /\ nodeRow' = row /\ row # nodeRow
  /\ UNCHANGED <<answers, inFlight, checks, menu, overview, visits, ran>>

\* clearFocusedState: what was known and asked of the old cluster is forgotten.
LeaveMenu ==
  /\ ~menu.open /\ ~overview /\ visits < MaxVisits
  /\ visits' = visits + 1
  /\ answers' = [key \in Keys |-> "unknown"] /\ inFlight' = {}
  /\ menu' = NoMenu
  /\ UNCHANGED <<checks, overview, nodeRow, ran>>

-----------------------------------------------------------------------------
\* A wrong Reanchored: the cursor keeps its place among the entries.
ReanchoredByIndex(options) == IF menu.cursor \in DOMAIN options THEN menu.cursor ELSE 1

\* The highlight stays on its action, if that can still be run.
Reanchored(options) ==
  LET same == {i \in DOMAIN options :
                 /\ options[i].action = menu.options[menu.cursor].action
                 /\ options[i].status = "allowed"}
  IN  IF same = {} THEN FirstSelectable(options) ELSE CHOOSE i \in same : TRUE

\* CanI, then PermissionResultMsg: an error counts as a denial.
Answer(check, answer) ==
  /\ checks' = checks \ {check}
  /\ IF check.visit # visits
     THEN UNCHANGED <<answers, inFlight, menu>>
     ELSE /\ inFlight' = inFlight \ {check.key}
          /\ answers' = [answers EXCEPT ![check.key] = answer]
          /\ IF ~menu.open THEN UNCHANGED menu
             ELSE LET options == ClassifiedActions(menu.kind, answers')
                  IN  menu' = [menu EXCEPT !.options = options, !.cursor = Reanchored(options)]
  /\ UNCHANGED <<overview, nodeRow, visits, ran>>

MenuNext ==
  \/ \E kind \in MenuKinds : OpenActionMenu(kind)
  \/ \E below \in BOOLEAN : MoveMenu(below)
  \/ CloseMenu \/ RunAction \/ OpenOverview \/ CloseOverview \/ LeaveMenu
  \/ \E row \in {"open", "cordoned", "gone"} : NodeChanges(row)
  \/ \E check \in checks, answer \in {"allowed", "denied"} : Answer(check, answer)

MenuSpec == MenuInit /\ [][MenuNext]_menuVars

-----------------------------------------------------------------------------
\* What is known is not asked again, and what is marked as asked, and only that,
\* has a check on its way: no entry waits for an answer nobody will give.
ChecksAccounted ==
  /\ \A key \in inFlight : answers[key] = "unknown"
  /\ {check.key : check \in {c \in checks : c.visit = visits}} = inFlight

\* An open menu shows what is known, and waits only for what was asked.
MenuCurrent ==
  menu.open => \A i \in DOMAIN menu.options :
    LET a == menu.options[i].action
    IN  /\ menu.options[i].status = Status(a, menu.kind, answers)
        /\ menu.options[i].status = "pending" => Key(a, menu.kind) \in inFlight

\* Nothing ran that the cluster was known to refuse.
RanAllowed == ran.answer = "allowed"

MenuTruthful == ChecksAccounted /\ MenuCurrent /\ RanAllowed

\* What makes MenuTruthful inductive: the highlight is on an entry, and whatever
\* the kind of an open menu needs to know is known or asked for, whether or not
\* its entry is among those offered now.
MenuInv ==
  /\ answers \in [Keys -> {"unknown", "allowed", "denied"}] /\ inFlight \subseteq Keys
  /\ visits \in Nat /\ checks \subseteq [visit : 0..visits, key : Keys]
  /\ nodeRow \in {"open", "cordoned", "gone"}
  /\ menu = [open |-> menu.open, kind |-> menu.kind, options |-> menu.options,
             cursor |-> menu.cursor]
  /\ menu.open => /\ menu.kind \in MenuKinds
                  /\ \E n \in 1..Len(ActionsFor(menu.kind)) : DOMAIN menu.options = 1..n
                  /\ menu.cursor \in DOMAIN menu.options
                  /\ {menu.options[i].action : i \in DOMAIN menu.options}
                       \subseteq Range(ActionsFor(menu.kind))
                  /\ \A key \in KindKeys(menu.kind) : answers[key] = "unknown" => key \in inFlight
  /\ MenuTruthful

\* "Re-anchor the cursor to the SAME action": an answer to a check does not
\* slide the highlight from an action that can be run to another one.
HighlightKept ==
  [][menu.open /\ menu'.open /\ answers' # answers
       => LET before == menu.options[menu.cursor]
              after == menu'.options[menu'.cursor]
          IN  before.status = "allowed"
                => \/ after.action = before.action
                   \/ before.action \notin {menu'.options[i].action : i \in DOMAIN menu'.options}]_menuVars

\* The menu offers what was answered, and keeps the highlight where it was.
MenuHonest == []MenuTruthful /\ HighlightKept
=============================================================================
