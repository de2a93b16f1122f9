--------------------------- MODULE ResourceWatch ---------------------------
(***************************************************************************)
(* The watchers of everything but pods (internal/cluster/nodewatch.go,     *)
(* deploywatch.go, replicasetwatch.go, eventwatch.go, servicewatch.go,     *)
(* endpointslicewatch.go, ingresswatch.go, nswatch.go, projectwatch.go) and*)
(* the tables of the UI their events change.                               *)
(*                                                                         *)
(* They share one shape: decide whether to watch, list, hand each change   *)
(* the informer reports to the delivery under the object's uid.  The       *)
(* delivery keeps the last event of a uid (EventDelivery); here each uid   *)
(* has one event on its way.  An informer that lost its watch lists again  *)
(* and reports the difference by name: a name with another uid is one      *)
(* update.                                                                 *)
(***************************************************************************)
EXTENDS Naturals, FiniteSets

CONSTANTS Groups,      \* sets of watchers that run together
          ObjectNames, \* names of objects
          MaxUid,      \* bound on the objects made
          MaxChanges   \* bound on changes and faults

ASSUME WatchAssumption == MaxUid \in Nat \ {0} /\ MaxChanges \in Nat

ObjectUids == 1..MaxUid

\* How each watcher differs.  With clusterOnly its kind cannot be listed in one
\* namespace; with projects it depends on the OpenShift Projects API; with
\* retries it waits for its first list for good; labelled objects only are
\* forwarded by the last.
Plain == [clusterOnly |-> FALSE, projects |-> "ignored", retries |-> FALSE, labelled |-> FALSE]
NodeWatcher == [Plain EXCEPT !.clusterOnly = TRUE]
DeployWatcher == Plain
ServiceWatcher == Plain
IngressWatcher == Plain
EventWatcher == Plain
ReplicaSetWatcher == [Plain EXCEPT !.retries = TRUE]
EndpointSliceWatcher == [Plain EXCEPT !.labelled = TRUE]
NamespaceWatcher == [Plain EXCEPT !.clusterOnly = TRUE, !.projects = "absent"]
ProjectWatcher == [Plain EXCEPT !.projects = "present"]

VARIABLES
  group,    \* the watchers that run, by their parameters
  served,   \* the context: cluster-wide access, the Projects API, and whether
            \* the kubeconfig names a namespace
  objects,  \* the apiserver's object of each name
  made,     \* how many objects were made
  watcher,  \* each watcher's phase, its informer's cache and whether it follows
  onItsWay, \* each watcher's event of each uid, not yet applied
  tableRows,\* the rows each watcher's events made
  merged,   \* history: objects whose end a watcher was not told of
  changes

watchVars == <<group, served, objects, made, watcher, onItsWay, tableRows, merged, changes>>

NoObject == [uid |-> 0, version |-> 0, label |-> FALSE]
NoEvent == [kind |-> "none", version |-> 0]
NewWatcher == [phase |-> "new", cache |-> [n \in ObjectNames |-> NoObject], follows |-> FALSE]

WatchInit ==
  /\ group \in Groups
  /\ served \in [wide : BOOLEAN, projects : BOOLEAN, hinted : BOOLEAN]
  /\ objects \in [ObjectNames -> {NoObject, [uid |-> 1, version |-> 1, label |-> TRUE]}]
  /\ \A n, o \in ObjectNames : n # o => objects[n] = NoObject \/ objects[o] = NoObject
  /\ made = 1
  /\ watcher = [w \in group |-> NewWatcher]
  /\ onItsWay = [w \in group |-> [u \in ObjectUids |-> NoEvent]]
  /\ tableRows = [w \in group |-> [u \in ObjectUids |-> 0]]
  /\ merged = [w \in group |-> {}] /\ changes = 0

ObjectChange == changes < MaxChanges /\ changes' = changes + 1

-----------------------------------------------------------------------------
(* What an informer reports, and what its handler makes of it.             *)

\* emit of each watcher
Forwarded(w, obj) == w.labelled => obj.label

\* A wrong Gone: an object whose deletion was missed is not unwrapped.
GoneSeen(w, old, new, seen) == old.uid # 0 /\ new.uid = 0 /\ Forwarded(w, old) /\ seen

\* DeleteFunc, also for an object whose deletion was missed.
Gone(w, old, new, seen) == old.uid # 0 /\ new.uid = 0 /\ Forwarded(w, old)

\* The events on their way after the informer went from cache old to cache new:
\* UpdateFunc takes the new object only.  seen: from the watch, not from a list.
Told(w, ways, old, new, seen) ==
  [u \in ObjectUids |->
     LET set == {n \in ObjectNames : new[n].uid = u /\ new[n] # old[n] /\ Forwarded(w, new[n])}
     IN  IF set # {} THEN [kind |-> "set", version |-> new[CHOOSE n \in set : TRUE].version]
         ELSE IF \E n \in ObjectNames : old[n].uid = u /\ Gone(w, old[n], new[n], seen)
         THEN [kind |-> "deleted", version |-> 0] ELSE ways[u]]

\* The objects whose end is not told: replaced under their name in one update,
\* or no longer forwarded.
Untold(w, old, new) ==
  {old[n].uid : n \in {x \in ObjectNames :
     /\ old[x].uid # 0 /\ Forwarded(w, old[x])
     /\ new[x].uid # 0 /\ (new[x].uid # old[x].uid \/ ~Forwarded(w, new[x]))}}

\* The informers of watchers W come to the state new of their kind's objects.
Inform(W, new, seen) ==
  /\ watcher' = [w \in group |-> IF w \notin W THEN watcher[w]
                  ELSE [watcher[w] EXCEPT !.phase = "on", !.cache = new, !.follows = TRUE]]
  /\ onItsWay' = [w \in group |-> IF w \notin W THEN onItsWay[w]
                   ELSE Told(w, onItsWay[w], watcher[w].cache, new, seen)]
  /\ merged' = [w \in group |-> IF w \notin W THEN merged[w]
                 ELSE merged[w] \cup Untold(w, watcher[w].cache, new)]

-----------------------------------------------------------------------------
(* The cluster.  A watch that is followed sees every change.               *)

ObjectBecomes(n, obj) ==
  /\ ObjectChange /\ objects' = [objects EXCEPT ![n] = obj]
  /\ Inform({w \in group : watcher[w].follows}, objects', TRUE)
  /\ UNCHANGED <<group, served, tableRows>>

CreateObject(n, label) ==
  /\ objects[n].uid = 0 /\ made < MaxUid /\ made' = made + 1
  /\ ObjectBecomes(n, [uid |-> made + 1, version |-> 1, label |-> label])

UpdateObject(n, label) ==
  /\ objects[n].uid # 0
  /\ ObjectBecomes(n, [objects[n] EXCEPT !.version = @ + 1, !.label = label])
  /\ UNCHANGED made

DeleteObjectOf(n) ==
  /\ objects[n].uid # 0 /\ ObjectBecomes(n, NoObject) /\ UNCHANGED made

LoseWatch(w) ==
  /\ ObjectChange /\ watcher[w].follows
  /\ watcher' = [watcher EXCEPT ![w].follows = FALSE]
  /\ UNCHANGED <<group, served, objects, made, onItsWay, tableRows, merged>>

-----------------------------------------------------------------------------
(* The watchers.                                                           *)

\* projectsPreferred: any failure of the discovery or of the review says no.
ProjectsPreferred(failed) == served.projects /\ "projects" \notin failed

\* ResolveScope # "": denied, and after a transient failure, the kubeconfig decides.
OneNamespace(failed) == served.hinted /\ ("scope" \in failed \/ ~served.wide)

\* The list a watcher asks for is allowed; projects are listed by anyone.
Allowed(w) == served.wide \/ w.projects = "present" \/ (~w.clusterOnly /\ served.hinted)

\* Run, up to the informer; failed: the checks that do, at the cost of a change.
StartWatcher(w, failed) ==
  /\ watcher[w].phase = "new"
  /\ "scope" \in failed => w.clusterOnly
  /\ "projects" \in failed => w.projects # "ignored"
  /\ IF failed # {} THEN ObjectChange ELSE UNCHANGED changes
  /\ LET skips == \/ w.clusterOnly /\ OneNamespace(failed)
                  \/ w.projects = "absent" /\ ProjectsPreferred(failed)
                  \/ w.projects = "present" /\ ~ProjectsPreferred(failed)
     IN  watcher' = [watcher EXCEPT ![w].phase = IF skips THEN "skipped" ELSE "listing"]
  /\ UNCHANGED <<group, served, objects, made, onItsWay, tableRows, merged>>

\* The first list, and each list after a lost watch.
ListObjects(w) ==
  /\ watcher[w].phase \in {"listing", "on"} /\ ~watcher[w].follows /\ Allowed(w)
  /\ Inform({w}, objects, FALSE)
  /\ UNCHANGED <<group, served, objects, made, tableRows, changes>>

\* No list within 30 s: the watcher gives up.
GiveUp(w) ==
  /\ ObjectChange /\ watcher[w].phase = "listing" /\ ~w.retries
  /\ watcher' = [watcher EXCEPT ![w].phase = "failed"]
  /\ UNCHANGED <<group, served, objects, made, onItsWay, tableRows, merged>>

\* applyNodeEvent and its like.
ApplyEvent(w, u) ==
  /\ onItsWay[w][u] # NoEvent
  /\ onItsWay' = [onItsWay EXCEPT ![w][u] = NoEvent]
  /\ tableRows' = [tableRows EXCEPT ![w][u] = onItsWay[w][u].version]
  /\ UNCHANGED <<group, served, objects, made, watcher, merged, changes>>

WatchNext ==
  \/ \E n \in ObjectNames :
       \/ DeleteObjectOf(n)
       \/ \E label \in BOOLEAN : CreateObject(n, label) \/ UpdateObject(n, label)
  \/ \E w \in group :
       \/ LoseWatch(w) \/ ListObjects(w) \/ GiveUp(w)
       \/ \E failed \in SUBSET {"scope", "projects"} : StartWatcher(w, failed)
       \/ \E u \in ObjectUids : ApplyEvent(w, u)

WatchSpec == WatchInit /\ [][WatchNext]_watchVars

-----------------------------------------------------------------------------
\* When a watch is followed and all its events were applied, the table has the
\* current version of every object there is; a row of one that is not there
\* is left only where the watcher was not told: the object was replaced under
\* its name while the watch was lost, or an update took its label.
RowsAccounted ==
  \A w \in group :
    watcher[w].follows /\ (\A u \in ObjectUids : onItsWay[w][u] = NoEvent) =>
      /\ \A n \in ObjectNames :
           objects[n].uid # 0 /\ Forwarded(w, objects[n])
             => tableRows[w][objects[n].uid] = objects[n].version
      /\ \A u \in ObjectUids :
           tableRows[w][u] # 0
             => u \in merged[w] \/ \E n \in ObjectNames : objects[n].uid = u

-----------------------------------------------------------------------------
(* What makes RowsAccounted inductive: it holds at every moment, of the    *)
(* informer's cache and of the rows the events on their way will make.     *)

Object == [uid : 0..MaxUid, version : Nat, label : BOOLEAN]
Phases == {"new", "skipped", "listing", "on", "failed"}

WatchTypeOK ==
  /\ made \in 1..MaxUid /\ changes \in Nat /\ objects \in [ObjectNames -> Object]
  /\ watcher \in [group -> [phase : Phases, cache : [ObjectNames -> Object], follows : BOOLEAN]]
  /\ onItsWay \in [group -> [ObjectUids -> [kind : {"none", "set", "deleted"}, version : Nat]]]
  /\ tableRows \in [group -> [ObjectUids -> Nat]]
  /\ merged \in [group -> SUBSET ObjectUids]

\* An object has one name.
OneName(objs) == \A n, o \in ObjectNames : objs[n].uid # 0 /\ objs[n].uid = objs[o].uid => n = o

\* The version a row has when its event is applied; 0 is no row.
Due(w, u) == IF onItsWay[w][u] = NoEvent THEN tableRows[w][u] ELSE onItsWay[w][u].version

\* The rows of watcher w will be those of its cache, but for merged ones.
RowsOfCache(w) ==
  LET cache == watcher[w].cache
  IN  /\ \A n \in ObjectNames :
           cache[n].uid # 0 /\ Forwarded(w, cache[n]) => Due(w, cache[n].uid) = cache[n].version
      /\ \A u \in ObjectUids :
           Due(w, u) # 0 =>
             u \in merged[w] \/ \E n \in ObjectNames : cache[n].uid = u /\ Forwarded(w, cache[n])

RowsInv ==
  /\ WatchTypeOK
  /\ OneName(objects) /\ \A n \in ObjectNames : objects[n].uid <= made
  /\ \A w \in group :
       /\ OneName(watcher[w].cache) /\ RowsOfCache(w)
       /\ watcher[w].follows => watcher[w].cache = objects
=============================================================================
