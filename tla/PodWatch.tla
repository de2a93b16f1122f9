------------------------------ MODULE PodWatch ------------------------------
(***************************************************************************)
(* internal/cluster/podwatch.go: PodWatcher.Run and emit on top of         *)
(* eventDelivery, and what the UI does with the two cache markers          *)
(* (internal/ui/app.go, updatePod).                                        *)
(*                                                                         *)
(* Run's own goroutine waits for the informer's first list.  If that takes *)
(* longer than podSyncTimeout it publishes PodSyncDelayed and keeps        *)
(* waiting; once the handler has the list it publishes PodSynced.  Both go *)
(* through the same queue as the pods, under UIDs no pod has, so that the  *)
(* UI stops saying "loading" only when it has the pods of the first list.  *)
(***************************************************************************)
EXTENDS EventDelivery

CONSTANTS Pods,       \* UIDs of pods
          EmptyUID,   \* the UID "" of PodSynced
          DelayUID    \* the UID "\x00pod-sync-delayed"

ASSUME MarkerAssumption ==
  /\ UIDs = Pods \cup {EmptyUID, DelayUID}
  /\ EmptyUID \notin Pods /\ DelayUID \notin Pods /\ EmptyUID # DelayUID

VARIABLES
  wpc,            \* Run: "waiting" for the cache, "delayed", "synced"
  listed,         \* handler.HasSynced: the first list reached the handler
  initial,        \* history: the position of each pod's event of that list
  marker,         \* history: the position of each kind of marker, or 0
  syncedPods,     \* m.syncedPods of the UI
  podSyncDelayed  \* m.podSyncDelayed of the UI

watcher == <<wpc, listed, initial, marker>>
ui == <<syncedPods, podSyncDelayed>>
pvars == <<vars, watcher, ui>>

MarkerKinds == {"PodSynced", "PodSyncDelayed"}

PInit ==
  /\ Init
  /\ wpc = "waiting" /\ listed = FALSE
  /\ initial = [p \in Pods |-> 0]
  /\ marker = [k \in MarkerKinds |-> 0]
  /\ syncedPods = FALSE /\ podSyncDelayed = FALSE

-----------------------------------------------------------------------------
(* The informer.                                                           *)

\* Bound: pod events leave room in the log for the markers.
Room == Len(log) + Cardinality({k \in MarkerKinds : marker[k] = 0}) < MaxEvents

\* The first list: one addition per pod it holds.
ListPod(p) ==
  /\ ~listed /\ latest[p] = 0 /\ Room
  /\ Publish(p, FALSE)
  /\ initial' = [initial EXCEPT ![p] = Len(log) + 1]
  /\ UNCHANGED <<wpc, listed, marker, ui>>

\* The handler has been called for the whole list.
ListDone ==
  /\ ~listed
  /\ listed' = TRUE
  /\ UNCHANGED <<vars, wpc, initial, marker, ui>>

\* AddFunc, UpdateFunc and DeleteFunc from the watch.
WatchEvent(p, deleted) ==
  /\ listed /\ Room
  /\ Publish(p, deleted)
  /\ UNCHANGED <<watcher, ui>>

-----------------------------------------------------------------------------
(* Run's goroutine.                                                        *)

\* A wrong MarkerUID: both markers under the reserved empty UID.
MarkerUIDShared(kind) == EmptyUID

MarkerUID(kind) == IF kind = "PodSyncDelayed" THEN DelayUID ELSE EmptyUID

EmitSync(kind) ==
  /\ Publish(MarkerUID(kind), FALSE)
  /\ marker' = [marker EXCEPT ![kind] = Len(log) + 1]
  /\ UNCHANGED <<listed, initial, ui>>

\* podSyncTimeout passes (the list may arrive at the same moment).
SyncTimeout ==
  /\ wpc = "waiting" /\ ~cancelled
  /\ EmitSync("PodSyncDelayed")
  /\ wpc' = "delayed"

\* A wrong CacheSynced: after the timeout Run has given up.
CacheSyncedOnce == wpc = "waiting" /\ listed

\* Either WaitForCacheSync returns true.
CacheSynced == wpc \in {"waiting", "delayed"} /\ listed

Synced ==
  /\ CacheSynced
  /\ EmitSync("PodSynced")
  /\ wpc' = "synced"

-----------------------------------------------------------------------------
(* The UI.                                                                 *)

MarkSynced == syncedPods' = TRUE /\ podSyncDelayed' = FALSE

\* updatePod, for a message of the watched context.
UpdatePod ==
  /\ Receive
  /\ CASE Head(out) = marker["PodSynced"] -> MarkSynced
       [] Head(out) = marker["PodSyncDelayed"] ->
            podSyncDelayed' = TRUE /\ UNCHANGED syncedPods
       [] OTHER -> UNCHANGED ui
  /\ UNCHANGED watcher

PNext ==
  \/ \E p \in Pods : ListPod(p)
  \/ ListDone
  \/ \E p \in Pods, deleted \in BOOLEAN : WatchEvent(p, deleted)
  \/ SyncTimeout
  \/ Synced
  \/ UpdatePod
  \/ (RunStep \/ Cancel) /\ UNCHANGED <<watcher, ui>>

PSpec == PInit /\ [][PNext]_pvars

PFairness ==
  /\ WF_pvars(RunStep /\ UNCHANGED <<watcher, ui>>)
  /\ WF_pvars(UpdatePod /\ ~cancelled)
  /\ WF_pvars(Synced)

PFairSpec == PSpec /\ PFairness

-----------------------------------------------------------------------------
DeletedSince(p) ==
  \E i \in DOMAIN log : i > initial[p] /\ log[i].uid = p /\ log[i].deleted

\* "Ordered cache-completion marker": when the UI learns that the cache is
\* complete it has every pod of the first list, except those deleted since; and
\* it never again warns that the table is delayed.
SyncedAfterInitial ==
  syncedPods =>
    /\ ~podSyncDelayed
    /\ \A p \in Pods : initial[p] # 0 => view[p] >= initial[p] \/ DeletedSince(p)

\* "Keep it alive so a temporary startup failure can recover without a focus
\* switch": however late the list is, the UI learns that the cache is synced.
SyncReachesUI == listed ~> (syncedPods \/ cancelled)

\* The inductive strengthening of SyncedAfterInitial (PodWatch_proof).
PTypeOK ==
  /\ wpc \in {"waiting", "delayed", "synced"} /\ listed \in BOOLEAN
  /\ initial \in [Pods -> Nat] /\ marker \in [MarkerKinds -> Nat]
  /\ syncedPods \in BOOLEAN /\ podSyncDelayed \in BOOLEAN

\* Positions tell their UID: a pod's event of the list is its first, and each
\* marker is its UID's only event.
HistoryInv ==
  /\ \A i \in 1..Len(log) : i <= latest[log[i].uid]
  /\ \A u \in UIDs : view[u] # 0 => view[u] \in 1..Len(log) /\ log[view[u]].uid = u
  /\ \A p \in Pods : initial[p] # 0 =>
       /\ initial[p] \in 1..Len(log) /\ log[initial[p]] = [uid |-> p, deleted |-> FALSE]
       /\ \A i \in 1..Len(log) : log[i].uid = p => initial[p] <= i
  /\ \A k \in MarkerKinds :
       /\ latest[MarkerUID(k)] = marker[k]
       /\ \A i \in 1..Len(log) : log[i].uid = MarkerUID(k) => i = marker[k] /\ ~log[i].deleted

RunInv ==
  /\ wpc = "synced" <=> marker["PodSynced"] # 0
  /\ wpc = "waiting" => marker["PodSyncDelayed"] = 0
  /\ wpc = "synced" => listed

\* What the UI must have heard of before PodSynced.
Owed(x) ==
  \/ x = DelayUID /\ marker["PodSyncDelayed"] # 0
  \/ x \in Pods /\ initial[x] # 0 /\ ~DeletedSince(x)

\* The UI has an event of x, or has one before the k-th event of Out.
Heard(x, k) == \E q \in HeardOf(x, k) : q # 0

HeardInv ==
  \A k \in 1..(Len(out) + 1) :
    Heard(EmptyUID, k) => \A x \in UIDs : Owed(x) => Heard(x, k)

\* What is owed and was never sent waits before the marker.
WaitInv ==
  \A x \in UIDs : Owed(x) /\ sent[x] = 0 =>
    \A i, j \in DOMAIN queue : queue[i] = x /\ queue[j] = EmptyUID => i < j

UIInv == syncedPods => view[EmptyUID] # 0 /\ ~podSyncDelayed

PodInv == PTypeOK /\ HistoryInv /\ RunInv /\ HeardInv /\ WaitInv /\ UIInv
=============================================================================
