--------------------------- MODULE PodWatch_proof ---------------------------
(***************************************************************************)
(* Proofs about a pod watcher's start.  PodWatch, for every set of pods,   *)
(* every capacity of Out and every number of events: the watcher drives    *)
(* eventDelivery, so its theorems carry over, and PodSynced reaches the UI *)
(* after the first list.  ScopeResolution, for any number of callers: they *)
(* share one check, and its answer is kept.                                *)
(***************************************************************************)
EXTENDS PodWatch, ScopeResolution, EventDelivery_proof, FiniteSetTheorems

-----------------------------------------------------------------------------
(* The watcher is a user of eventDelivery.                                 *)

LEMMA MarkerFacts ==
  /\ Pods \subseteq UIDs /\ EmptyUID \in UIDs /\ DelayUID \in UIDs
  /\ EmptyUID \notin Pods /\ DelayUID \notin Pods /\ EmptyUID # DelayUID
  /\ MarkerUID("PodSynced") = EmptyUID /\ MarkerUID("PodSyncDelayed") = DelayUID
  /\ \A k \in MarkerKinds : k = "PodSynced" \/ k = "PodSyncDelayed"
  /\ "PodSynced" \in MarkerKinds /\ "PodSyncDelayed" \in MarkerKinds
BY MarkerAssumption DEF MarkerUID, MarkerKinds

LEMMA StepDelivers ==
  ASSUME [PNext]_pvars
  PROVE  [Next]_vars
<1> USE MarkerFacts
<1>1. CASE \E p \in Pods : ListPod(p)
  BY <1>1 DEF ListPod, Next
<1>2. CASE ListDone
  BY <1>2 DEF ListDone
<1>3. CASE \E p \in Pods, deleted \in BOOLEAN : WatchEvent(p, deleted)
  BY <1>3 DEF WatchEvent, Next
<1>4. CASE SyncTimeout
  BY <1>4 DEF SyncTimeout, EmitSync, Next
<1>5. CASE Synced
  BY <1>5 DEF Synced, EmitSync, Next
<1>6. CASE UpdatePod
  BY <1>6 DEF UpdatePod, Next
<1>7. CASE (RunStep \/ Cancel) /\ UNCHANGED <<watcher, ui>>
  BY <1>7 DEF Next
<1>8. CASE UNCHANGED pvars
  BY <1>8 DEF pvars
<1> QED BY <1>1, <1>2, <1>3, <1>4, <1>5, <1>6, <1>7, <1>8 DEF PNext

\* Whatever Run and its timeout do, the queue under them behaves as
\* EventDelivery says: every theorem about it holds of the pod watcher.
THEOREM WatcherDelivers == PSpec => Spec
<1>1. PInit => Init
  BY DEF PInit
<1> QED BY <1>1, StepDelivers, PTL DEF PSpec, Spec

\* The pod watcher keeps the contract of ReplicatedView, markers included.
THEOREM WatcherRefines == PSpec => Refines
BY WatcherDelivers, Refinement, PTL

-----------------------------------------------------------------------------
(* Positions in the log.                                                   *)

\* The log grows by one event, and positions in it mean what they meant.
LogGrows ==
  /\ Len(log) \in Nat /\ Len(log') = Len(log) + 1
  /\ \A i \in 1..Len(log) : log'[i] = log[i]
  /\ \A i \in 1..Len(log') : i <= latest'[log'[i].uid]
  /\ \A v \in UIDs : view'[v] # 0 => view'[v] \in 1..Len(log') /\ log'[view'[v]].uid = v

\* A pod of the first list keeps its first event.
ListStays ==
  \A p \in Pods : initial[p] # 0 =>
    /\ initial[p] \in 1..Len(log')
    /\ log'[initial[p]] = [uid |-> p, deleted |-> FALSE]
    /\ \A i \in 1..Len(log') : log'[i].uid = p => initial[p] <= i

\* A marker that is not u's keeps its only event.
MarkersStay(u) ==
  \A k \in MarkerKinds : MarkerUID(k) # u =>
    /\ latest'[MarkerUID(k)] = marker[k]
    /\ \A i \in 1..Len(log') : log'[i].uid = MarkerUID(k) => i = marker[k] /\ ~log'[i].deleted

\* What a new event of u leaves true of the positions of the others.
LEMMA HistoryOfPublish ==
  ASSUME IndInv, PodInv, NEW u \in UIDs, NEW deleted \in BOOLEAN, Publish(u, deleted)
  PROVE  /\ LogGrows /\ ListStays /\ MarkersStay(u)
         /\ Len(log) \in Nat /\ Len(log') = Len(log) + 1
         /\ \A i \in 1..Len(log) : log'[i] = log[i]
         /\ log'[Len(log) + 1] = [uid |-> u, deleted |-> deleted]
         /\ latest'[u] = Len(log) + 1 /\ \A v \in UIDs : v # u => latest'[v] = latest[v]
<1> USE DEF IndInv, PodInv
<1>1. /\ Len(log) \in Nat /\ Len(log') = Len(log) + 1
      /\ \A i \in 1..Len(log) : log'[i] = log[i]
      /\ log'[Len(log) + 1] = [uid |-> u, deleted |-> deleted]
      /\ \A v \in UIDs : latest[v] \in 0..Len(log)
      /\ \A v \in UIDs : latest'[v] = IF v = u THEN Len(log) + 1 ELSE latest[v]
      /\ view' = view
  BY ChangeFacts DEF Publish
<1>2. \A i \in 1..Len(log') : i \in 1..Len(log) \/ i = Len(log) + 1
  BY <1>1
<1>3. ASSUME NEW i \in 1..Len(log') PROVE i <= latest'[log'[i].uid]
  <2>1. CASE i = Len(log) + 1
    BY <1>1, <2>1
  <2>2. CASE i \in 1..Len(log)
    <3>1. log'[i] = log[i] /\ log[i].uid \in UIDs /\ i <= latest[log[i].uid]
      BY <1>1, <2>2, LogFacts DEF HistoryInv
    <3> QED BY <1>1, <2>2, <3>1
  <2> QED BY <1>2, <2>1, <2>2
<1>4. \A v \in UIDs : view'[v] # 0 => view'[v] \in 1..Len(log') /\ log'[view'[v]].uid = v
  BY <1>1 DEF HistoryInv
<1>5. ASSUME NEW p \in Pods, initial[p] # 0
      PROVE  /\ initial[p] \in 1..Len(log')
             /\ log'[initial[p]] = [uid |-> p, deleted |-> FALSE]
             /\ \A i \in 1..Len(log') : log'[i].uid = p => initial[p] <= i
  <2>1. /\ initial[p] \in 1..Len(log) /\ log[initial[p]] = [uid |-> p, deleted |-> FALSE]
        /\ \A i \in 1..Len(log) : log[i].uid = p => initial[p] <= i
    BY <1>5 DEF HistoryInv
  <2> QED BY <1>1, <1>2, <2>1
<1>6. ASSUME NEW k \in MarkerKinds, MarkerUID(k) # u
      PROVE  /\ latest'[MarkerUID(k)] = marker[k]
             /\ \A i \in 1..Len(log') : log'[i].uid = MarkerUID(k) =>
                  i = marker[k] /\ ~log'[i].deleted
  <2>1. /\ MarkerUID(k) \in UIDs /\ latest[MarkerUID(k)] = marker[k]
        /\ \A i \in 1..Len(log) : log[i].uid = MarkerUID(k) =>
             i = marker[k] /\ ~log[i].deleted
    BY MarkerFacts DEF HistoryInv
  <2> QED BY <1>1, <1>2, <1>6, <2>1
<1>7. LogGrows
  BY <1>1, <1>3, <1>4 DEF LogGrows
<1>8. ListStays
  BY <1>5 DEF ListStays
<1>9. MarkersStay(u)
  BY <1>6 DEF MarkersStay
<1> QED BY <1>1, <1>7, <1>8, <1>9

\* Every step of the watcher keeps what the positions tell.
LEMMA HistoryStep ==
  ASSUME IndInv, OutInv, PodInv, [PNext]_pvars
  PROVE  (PTypeOK /\ HistoryInv /\ RunInv)'
<1> USE DEF PodInv
<1>1. ASSUME NEW p \in Pods, ListPod(p) PROVE (PTypeOK /\ HistoryInv /\ RunInv)'
  <2>1. Publish(p, FALSE) /\ p \in UIDs /\ latest[p] = 0
    BY <1>1, MarkerFacts DEF ListPod
  <2>2. /\ initial' = [initial EXCEPT ![p] = Len(log) + 1]
        /\ UNCHANGED <<wpc, listed, marker, syncedPods, podSyncDelayed>>
    BY <1>1 DEF ListPod, ui
  <2>h. LogGrows /\ ListStays /\ MarkersStay(p)
    BY <2>1, HistoryOfPublish
  <2>3. \A i \in 1..Len(log) : log[i].uid # p
    BY <2>1 DEF HistoryInv
  <2>4. \A k \in MarkerKinds : MarkerUID(k) # p
    BY MarkerFacts
  <2>5. PTypeOK' /\ RunInv'
    BY <2>1, <2>2, HistoryOfPublish DEF PTypeOK, RunInv
  <2>6. ASSUME NEW q \in Pods, initial'[q] # 0
        PROVE  /\ initial'[q] \in 1..Len(log')
               /\ log'[initial'[q]] = [uid |-> q, deleted |-> FALSE]
               /\ \A i \in 1..Len(log') : log'[i].uid = q => initial'[q] <= i
    <3>1. CASE q = p
      <4>1. initial'[p] = Len(log) + 1
        BY <2>2 DEF PTypeOK
      <4>2. log'[Len(log) + 1] = [uid |-> p, deleted |-> FALSE]
        BY <2>1, HistoryOfPublish
      <4>3. ASSUME NEW i \in 1..Len(log'), log'[i].uid = p PROVE i = Len(log) + 1
        BY <2>3, <2>h, <4>3 DEF LogGrows
      <4> QED BY <2>h, <3>1, <4>1, <4>2, <4>3 DEF LogGrows
    <3>2. CASE q # p
      <4>1. initial'[q] = initial[q]
        BY <2>2, <3>2 DEF PTypeOK
      <4> QED BY <2>6, <2>h, <4>1 DEF ListStays
    <3> QED BY <3>1, <3>2
  <2>7. HistoryInv'
    BY <2>2, <2>4, <2>6, <2>h DEF HistoryInv, MarkerUID, LogGrows, MarkersStay
  <2> QED BY <2>5, <2>7
<1>2. ASSUME NEW p \in Pods, NEW deleted \in BOOLEAN, WatchEvent(p, deleted)
      PROVE  (PTypeOK /\ HistoryInv /\ RunInv)'
  <2>1. /\ Publish(p, deleted) /\ p \in UIDs
        /\ UNCHANGED <<wpc, listed, initial, marker, syncedPods, podSyncDelayed>>
    BY <1>2, MarkerFacts DEF WatchEvent, watcher, ui
  <2>h. LogGrows /\ ListStays /\ MarkersStay(p)
    BY <2>1, HistoryOfPublish
  <2>2. \A k \in MarkerKinds : MarkerUID(k) # p
    BY MarkerFacts
  <2>3. PTypeOK' /\ RunInv'
    BY <2>1 DEF PTypeOK, RunInv
  <2>4. HistoryInv'
    BY <2>1, <2>2, <2>h DEF HistoryInv, MarkerUID, LogGrows, ListStays, MarkersStay
  <2> QED BY <2>3, <2>4
<1>3. ASSUME NEW k \in MarkerKinds, EmitSync(k), marker[k] = 0,
             UNCHANGED <<cancelled, runner, view>>
      PROVE  marker' \in [MarkerKinds -> Nat] /\ HistoryInv'
  <2>1. /\ Publish(MarkerUID(k), FALSE) /\ MarkerUID(k) \in UIDs
        /\ marker' = [marker EXCEPT ![k] = Len(log) + 1] /\ initial' = initial
    BY <1>3, MarkerFacts DEF EmitSync
  <2>h. LogGrows /\ ListStays /\ MarkersStay(MarkerUID(k))
    BY <2>1, HistoryOfPublish
  <2>2. \A i \in 1..Len(log) : log[i].uid # MarkerUID(k)
    BY <1>3 DEF HistoryInv
  <2>3. \A l \in MarkerKinds : l # k => MarkerUID(l) # MarkerUID(k)
    BY MarkerFacts
  <2>4. Len(log) + 1 \in Nat
    BY <2>1, HistoryOfPublish
  <2>5. \A l \in MarkerKinds : marker'[l] = IF l = k THEN Len(log) + 1 ELSE marker[l]
    BY <2>1 DEF PTypeOK
  <2>6. ASSUME NEW l \in MarkerKinds
        PROVE  /\ latest'[MarkerUID(l)] = marker'[l]
               /\ \A i \in 1..Len(log') : log'[i].uid = MarkerUID(l) =>
                    i = marker'[l] /\ ~log'[i].deleted
    <3>1. CASE l = k
      <4>1. /\ log'[Len(log) + 1] = [uid |-> MarkerUID(k), deleted |-> FALSE]
            /\ latest'[MarkerUID(k)] = Len(log) + 1
        BY <2>1, HistoryOfPublish
      <4>2. ASSUME NEW i \in 1..Len(log'), log'[i].uid = MarkerUID(k) PROVE i = Len(log) + 1
        BY <2>2, <2>h, <4>2 DEF LogGrows
      <4> QED BY <2>5, <3>1, <4>1, <4>2
    <3>2. CASE l # k
      BY <2>3, <2>5, <2>h, <3>2 DEF MarkersStay
    <3> QED BY <3>1, <3>2
  <2>7. HistoryInv'
    BY <2>1, <2>6, <2>h DEF HistoryInv, MarkerUID, LogGrows, ListStays
  <2> QED BY <2>1, <2>4, <2>7 DEF PTypeOK
<1>4. CASE SyncTimeout
  <2>1. /\ marker["PodSyncDelayed"] = 0 /\ "PodSyncDelayed" \in MarkerKinds
        /\ wpc = "waiting" /\ wpc' = "delayed" /\ UNCHANGED <<listed, initial, ui>>
        /\ EmitSync("PodSyncDelayed") /\ UNCHANGED <<cancelled, runner, view>>
    BY <1>4, MarkerFacts DEF SyncTimeout, RunInv, EmitSync, Publish
  <2>2. marker'["PodSynced"] = marker["PodSynced"]
    BY <2>1, MarkerFacts DEF EmitSync, PTypeOK
  <2> QED BY <1>3, <2>1, <2>2 DEF PTypeOK, RunInv, ui
<1>5. CASE Synced
  <2>1. /\ marker["PodSynced"] = 0 /\ "PodSynced" \in MarkerKinds /\ listed
        /\ wpc' = "synced" /\ UNCHANGED <<listed, initial, ui>>
        /\ EmitSync("PodSynced") /\ UNCHANGED <<cancelled, runner, view>>
    BY <1>5, MarkerFacts DEF Synced, CacheSynced, RunInv, EmitSync, Publish
  <2>2. marker'["PodSynced"] # 0
    <3>1. Len(log) \in Nat
      BY LogFacts DEF IndInv
    <3> QED BY <2>1, <3>1 DEF EmitSync, PTypeOK
  <2> QED BY <1>3, <2>1, <2>2 DEF PTypeOK, RunInv, ui
<1>6. CASE ListDone
  BY <1>6 DEF ListDone, vars, publisher, ui, PTypeOK, HistoryInv, RunInv, MarkerUID
<1>7. CASE UpdatePod
  <2>1. /\ UNCHANGED <<log, latest, wpc, listed, initial, marker>>
        /\ view' = [view EXCEPT ![log[Head(out)].uid] = Head(out)]
        /\ Head(out) \in 1..Len(log)
    BY <1>7, FrontOfOut DEF UpdatePod, Receive, publisher, watcher
  <2>2. PTypeOK' /\ RunInv'
    BY <1>7, <2>1 DEF UpdatePod, MarkSynced, ui, PTypeOK, RunInv
  <2>3. \A u \in UIDs : view'[u] # 0 => view'[u] \in 1..Len(log) /\ log[view'[u]].uid = u
    BY <2>1 DEF HistoryInv, IndInv, TypeOK
  <2>4. HistoryInv'
    BY <2>1, <2>3 DEF HistoryInv, MarkerUID
  <2> QED BY <2>2, <2>4
<1>8. CASE ((RunStep \/ Cancel) /\ UNCHANGED <<watcher, ui>>) \/ UNCHANGED pvars
  <2>1. UNCHANGED <<log, latest, view, watcher, ui>>
    BY <1>8 DEF RunStep, Take, Idle, Wake, Send, Delivered, Quit, Close, Cancel, pvars,
       vars, publisher
  <2> QED BY <2>1 DEF watcher, ui, PTypeOK, HistoryInv, RunInv, MarkerUID
<1> QED BY <1>1, <1>2, <1>4, <1>5, <1>6, <1>7, <1>8 DEF PNext

-----------------------------------------------------------------------------
(* What the UI hears of before PodSynced.                                  *)

\* A UID is heard of at the end of Out when something of it was sent, and at
\* its beginning when the UI has something of it.
LEMMA HeardFacts ==
  ASSUME IndInv, OutInv
  PROVE  /\ Len(out) \in Nat
         /\ \A x \in UIDs : Heard(x, Len(out) + 1) <=> sent[x] # 0
         /\ \A x \in UIDs, k \in 1..(Len(out) + 1) : Heard(x, k) => sent[x] # 0
         /\ \A x \in UIDs : Heard(x, 1) <=> view[x] # 0
<1> USE DEF IndInv
<1>1. Len(out) \in Nat /\ \A k \in 1..Len(out) : out[k] \in Nat
  BY DEF TypeOK
<1>2. ASSUME NEW x \in UIDs
      PROVE  /\ sent[x] \in HeardOf(x, Len(out) + 1)
             /\ \A q \in HeardOf(x, Len(out) + 1) : q \in Nat /\ q <= sent[x]
             /\ sent[x] \in Nat
  <2>1. Newest(sent[x], HeardOf(x, Len(out) + 1))
    BY DEF OutInv
  <2>2. view[x] \in Nat /\ sent[x] \in Nat
    BY DEF TypeOK
  <2>3. HeardOf(x, Len(out) + 1) \subseteq Nat
    BY <1>1, <2>2 DEF HeardOf
  <2> QED BY <2>1, <2>2, <2>3 DEF Newest
<1>3. \A x, k : k \in 1..(Len(out) + 1) => HeardOf(x, k) \subseteq HeardOf(x, Len(out) + 1)
  BY <1>1 DEF HeardOf
<1>4. \A x : HeardOf(x, 1) = {view[x]}
  BY DEF HeardOf
<1>5. \A x \in UIDs : Heard(x, Len(out) + 1) <=> sent[x] # 0
  BY <1>2 DEF Heard
<1>6. \A x \in UIDs, k \in 1..(Len(out) + 1) : Heard(x, k) => sent[x] # 0
  BY <1>2, <1>3 DEF Heard
<1>7. \A x \in UIDs : Heard(x, 1) <=> view[x] # 0
  BY <1>4 DEF Heard
<1> QED BY <1>1, <1>5, <1>6, <1>7

\* What is owed and was never sent has an element in the queue: it cannot have
\* been dropped, because its newest event shows it.
LEMMA OwedWaits ==
  ASSUME IndInv, PodInv, ~closed, NEW x \in UIDs, Owed(x), sent[x] = 0
  PROVE  pending[x] # None
<1> USE DEF IndInv, PodInv
<1>0. ASSUME x \in Pods, initial[x] # 0
      PROVE  /\ initial[x] \in 1..Len(log)
             /\ log[initial[x]].uid = x /\ ~log[initial[x]].deleted
             /\ \A i \in 1..Len(log) : log[i].uid = x => initial[x] <= i
  <2>1. log[initial[x]] = [uid |-> x, deleted |-> FALSE]
    BY <1>0 DEF HistoryInv
  <2> QED BY <1>0, <2>1 DEF HistoryInv
<1>1. SUFFICES ASSUME pending[x] = None PROVE FALSE
  OBVIOUS
<1>2. Announced(x)
  BY <1>1 DEF KnownInv, KnownOf
<1>3. latest[x] # 0 /\ latest[x] \in 1..Len(log) /\ log[latest[x]].uid = x
  <2>1. latest[x] # 0
    <3>1. CASE x = DelayUID /\ marker["PodSyncDelayed"] # 0
      BY <3>1, MarkerFacts DEF HistoryInv
    <3>2. CASE x \in Pods /\ initial[x] # 0
      <4>1. initial[x] \in 1..Len(log) /\ log[initial[x]].uid = x
        BY <1>0, <3>2
      <4>2. initial[x] <= latest[x]
        BY <4>1 DEF HistoryInv
      <4> QED BY <4>1, <4>2
    <3> QED BY <3>1, <3>2 DEF Owed
  <2>2. latest[x] \in Nat /\ Len(log) \in Nat
    BY LogFacts DEF TypeOK
  <2> QED BY <2>1, <2>2 DEF SourceInv
<1>4. log[latest[x]].deleted
  BY <1>2, <1>3 DEF Announced, Absent
<1>5. x # DelayUID
  BY <1>3, <1>4, MarkerFacts DEF HistoryInv
<1>6. x \in Pods /\ initial[x] # 0 /\ ~DeletedSince(x)
  BY <1>5 DEF Owed
<1>7. initial[x] \in 1..Len(log) /\ ~log[initial[x]].deleted /\ initial[x] <= latest[x]
  BY <1>0, <1>3, <1>6
<1>8. latest[x] > initial[x] /\ latest[x] \in DOMAIN log
  <2>1. initial[x] # latest[x]
    BY <1>4, <1>7
  <2>2. DOMAIN log = 1..Len(log) /\ Len(log) \in Nat
    BY DEF TypeOK
  <2> QED BY <1>3, <1>7, <2>1, <2>2
<1> QED BY <1>3, <1>4, <1>6, <1>8 DEF DeletedSince

\* While the marker is not published, neither clause about it says anything.
LEMMA NoMarkerYet ==
  ASSUME IndInv, OutInv, latest[EmptyUID] = 0
  PROVE  HeardInv /\ WaitInv
<1>1. sent[EmptyUID] = 0 /\ pending[EmptyUID] = None
  BY MarkerFacts DEF IndInv, SourceInv, QueueInv, TypeOK
<1>2. HeardInv
  BY <1>1, HeardFacts, MarkerFacts DEF HeardInv
<1>3. \A j \in DOMAIN queue : queue[j] # EmptyUID
  BY <1>1, MarkerFacts DEF IndInv, QueueInv
<1> QED BY <1>2, <1>3 DEF WaitInv

\* Removing an element does not bring the marker before what is owed.
LEMMA RemovalKeepsMarkerLast ==
  ASSUME IndInv, NEW w \in UIDs, pending[w] # None, NEW x \in UIDs, x # EmptyUID,
         \A k, l \in DOMAIN queue : queue[k] = x /\ queue[l] = EmptyUID => k < l,
         NEW i \in DOMAIN Without(w), NEW j \in DOMAIN Without(w),
         Without(w)[i] = x, Without(w)[j] = EmptyUID
  PROVE  i < j
<1> USE DEF IndInv
<1>1. i \in Nat /\ j \in Nat /\ i # j
  BY WithoutFacts
<1>2. CASE j < i
  <2>1. PICK k, l \in DOMAIN queue : k < l /\ queue[k] = EmptyUID /\ queue[l] = x
    BY <1>2, WithoutFacts
  <2>2. l < k /\ k \in Nat /\ l \in Nat
    BY <2>1, QueueFacts
  <2> QED BY <2>1, <2>2
<1> QED BY <1>1, <1>2

\* A publication that owes the UI nothing new keeps the marker behind what is
\* owed: it goes to the end of the queue, or the queue is empty and all was sent.
LEMMA PublishKeepsOrder ==
  ASSUME IndInv, OutInv, PodInv, NEW u \in UIDs, NEW deleted \in BOOLEAN,
         Publish(u, deleted), \A x \in UIDs : Owed(x)' => Owed(x)
  PROVE  HeardInv' /\ WaitInv'
<1> USE DEF PodInv
<1>0. /\ Change(u, deleted) /\ view' = view
      /\ Len(log) \in Nat /\ Len(log') = Len(log) + 1
      /\ \A i \in 1..Len(log) : log'[i] = log[i]
      /\ log'[Len(log) + 1] = [uid |-> u, deleted |-> deleted]
  BY HistoryOfPublish DEF Publish
<1>1. CASE PublishDirect(u, deleted)
  <2>1. queue = <<>> /\ queue' = <<>> /\ ~closed
    BY <1>1 DEF PublishDirect, FastPath
  <2>2. WaitInv'
    BY <2>1 DEF WaitInv
  <2>3. \A x \in UIDs : Owed(x) => sent[x] # 0
    BY <2>1, OwedWaits DEF IndInv, QueueInv
  <2>4. PICK i \in 1..Len(log') : i = Len(log) + 1
    BY <1>0
  <2>5. out' = Append(out, i) /\ log'[i].uid = u
    BY <1>0, <1>1, <2>4 DEF PublishDirect, SendOut
  <2>6. PICK n \in Nat : n = Len(out) /\ Len(out') + 1 = n + 2
    BY <1>0, <2>5, ToldOfSend
  <2>7. /\ \A v, k : k \in 1..(n + 1) => HeardOf(v, k)' = HeardOf(v, k)
        /\ \A v, k : k = n + 2 => HeardOf(v, n + 1) \subseteq HeardOf(v, k)'
    BY <1>0, <2>5, <2>6, ToldOfSend
  <2>8. ASSUME NEW k \in 1..(n + 2), Heard(EmptyUID, k)', NEW x \in UIDs, Owed(x)'
        PROVE  Heard(x, k)'
    <3>1. CASE k \in 1..(n + 1)
      BY <2>6, <2>7, <2>8, <3>1 DEF HeardInv, Heard
    <3>2. CASE k = n + 2
      <4>1. Heard(x, n + 1)
        BY <2>3, <2>6, <2>8, HeardFacts
      <4> QED BY <2>7, <3>2, <4>1 DEF Heard
    <3> QED BY <3>1, <3>2
  <2> QED BY <2>2, <2>6, <2>8 DEF HeardInv
<1>2. CASE ~PublishDirect(u, deleted)
  <2>1. UNCHANGED <<out, sent>>
    BY <1>2 DEF Publish, PublishClosed, CancelUnseen, Enqueue, Coalesce
  <2>2. /\ Len(out) \in Nat
        /\ \A v, k : k \in 1..(Len(out) + 1) => HeardOf(v, k)' = HeardOf(v, k)
    BY <1>0, <2>1, ToldOfGrowth
  <2>3. HeardInv'
    BY <2>1, <2>2 DEF HeardInv, Heard
  <2>4. ASSUME NEW x \in UIDs, Owed(x)', sent'[x] = 0,
               NEW i \in DOMAIN queue', NEW j \in DOMAIN queue',
               queue'[i] = x, queue'[j] = EmptyUID
        PROVE  i < j
    <3>1. /\ Owed(x) /\ sent[x] = 0
          /\ \A k, l \in DOMAIN queue : queue[k] = x /\ queue[l] = EmptyUID => k < l
      BY <2>1, <2>4 DEF WaitInv
    <3>2. x # EmptyUID
      BY <3>1, MarkerFacts DEF Owed
    <3>3. CASE UNCHANGED queue
      BY <2>4, <3>1, <3>3
    <3>4. CASE queue' = Without(u) /\ pending[u] # None
      BY <2>4, <3>1, <3>2, <3>4, RemovalKeepsMarkerLast
    <3>5. CASE Enqueue(u, deleted)
      <4>1. queue' = Append(queue, u) /\ u # x
        BY <3>1, <3>5, OwedWaits DEF Enqueue
      <4>2. /\ DOMAIN queue = 1..Len(queue) /\ Len(queue) \in Nat
            /\ DOMAIN queue' = 1..(Len(queue) + 1)
            /\ \A k \in 1..Len(queue) : queue'[k] = queue[k]
            /\ queue'[Len(queue) + 1] = u
        BY <4>1, AppendProperties DEF IndInv, TypeOK
      <4>3. i \in 1..Len(queue) /\ queue[i] = x
        BY <2>4, <4>1, <4>2
      <4> QED BY <2>4, <3>1, <4>2, <4>3
    <3> QED BY <1>2, <3>3, <3>4, <3>5 DEF Publish, PublishClosed, CancelUnseen,
              RemoveElement, Coalesce, delivery
  <2> QED BY <2>3, <2>4 DEF WaitInv
<1> QED BY <1>1, <1>2

\* Putting the front element into Out: the marker goes only when nothing that
\* is owed waits behind it.
LEMMA SendKeepsOrder ==
  ASSUME IndInv, OutInv, PodInv, Send, UNCHANGED <<watcher, ui>>
  PROVE  HeardInv' /\ WaitInv'
<1> USE DEF PodInv
<1>1. /\ ev.uid \in UIDs /\ ev.at \in 1..Len(log) /\ log[ev.at].uid = ev.uid
      /\ queue # <<>> /\ queue[1] = ev.uid /\ ~closed /\ sent[ev.uid] < ev.at
  BY InFlightFacts DEF IndInv, FlightInv, Send
<1>2. /\ out' = Append(out, ev.at) /\ sent' = [sent EXCEPT ![ev.uid] = ev.at]
      /\ UNCHANGED <<log, view, queue, marker, initial>>
  BY DEF Send, SendOut, publisher, delivery, watcher
<1>3. \A x : Owed(x)' <=> Owed(x)
  BY <1>2 DEF Owed, DeletedSince
<1>4. \A x \in UIDs : sent'[x] = 0 => sent[x] = 0
  BY <1>1, <1>2 DEF IndInv, TypeOK
<1>5. WaitInv'
  BY <1>2, <1>3, <1>4 DEF WaitInv
<1>6. PICK u \in UIDs, i \in 1..Len(log') : u = ev.uid /\ i = ev.at
  BY <1>1, <1>2
<1>7. out' = Append(out, i) /\ log'[i].uid = u
  BY <1>1, <1>2, <1>6
<1>8. PICK n \in Nat : n = Len(out) /\ Len(out') + 1 = n + 2
  BY <1>2, <1>7, ToldOfSend
<1>9. /\ \A v, k : k \in 1..(n + 1) => HeardOf(v, k)' = HeardOf(v, k)
      /\ \A v, k : k = n + 2 => HeardOf(v, k)' = HeardOf(v, n + 1) \cup (IF v = u THEN {i} ELSE {})
  BY <1>2, <1>7, <1>8, ToldOfSend
<1>10. u = EmptyUID => \A x \in UIDs : Owed(x) => sent[x] # 0
  <2> SUFFICES ASSUME u = EmptyUID, NEW x \in UIDs, Owed(x), sent[x] = 0 PROVE FALSE
    OBVIOUS
  <2>1. pending[x] # None
    BY <1>1, OwedWaits
  <2>2. PICK j \in DOMAIN queue : queue[j] = x
    BY <2>1 DEF IndInv, QueueInv
  <2>t. DOMAIN queue = 1..Len(queue) /\ Len(queue) \in Nat
    BY QueueFacts DEF IndInv
  <2>3. 1 \in DOMAIN queue /\ DOMAIN queue \subseteq Nat \ {0}
    BY <2>2, <2>t
  <2>4. j < 1
    BY <1>1, <1>6, <2>2, <2>3 DEF WaitInv
  <2> QED BY <2>3, <2>4
<1>11. ASSUME NEW k \in 1..(n + 2), Heard(EmptyUID, k)', NEW x \in UIDs, Owed(x)
       PROVE  Heard(x, k)'
  <2>1. CASE k \in 1..(n + 1)
    BY <1>8, <1>9, <1>11, <2>1 DEF HeardInv, Heard
  <2>2. CASE k = n + 2
    <3>1. Heard(x, n + 1)
      <4>1. CASE u = EmptyUID
        BY <1>8, <1>10, <1>11, <4>1, HeardFacts
      <4>2. CASE u # EmptyUID
        <5>1. Heard(EmptyUID, n + 1)
          BY <1>9, <1>11, <2>2, <4>2 DEF Heard
        <5> QED BY <1>8, <1>11, <5>1 DEF HeardInv
      <4> QED BY <4>1, <4>2
    <3> QED BY <1>9, <2>2, <3>1 DEF Heard
  <2> QED BY <2>1, <2>2
<1>12. HeardInv'
  BY <1>3, <1>8, <1>11 DEF HeardInv
<1> QED BY <1>5, <1>12

\* An element that moves to the back was sent, so it is not behind the marker
\* unsent; the marker itself may move back.
LEMMA DeliveredKeepsOrder ==
  ASSUME IndInv, OutInv, PodInv, Delivered, UNCHANGED <<watcher, ui>>
  PROVE  HeardInv' /\ WaitInv'
<1> USE DEF PodInv
<1>1. PICK w \in UIDs : w = ev.uid
  BY InFlightFacts DEF Delivered
<1>2. /\ pending[w] # None /\ sent[w] = ev.at /\ ev.at # 0
      /\ UNCHANGED <<log, out, view, sent, marker, initial>>
  BY <1>1, InFlightFacts DEF Delivered, publisher, watcher, IndInv, FlightInv
<1>3. \A x : Owed(x)' <=> Owed(x)
  BY <1>2 DEF Owed, DeletedSince
<1>4. HeardInv'
  <2>1. \A x, k : HeardOf(x, k)' = HeardOf(x, k)
    BY <1>2 DEF HeardOf
  <2> QED BY <1>2, <1>3, <2>1 DEF HeardInv, Heard
<1>5. ASSUME NEW x \in UIDs, Owed(x), sent[x] = 0,
             NEW i \in DOMAIN queue', NEW j \in DOMAIN queue',
             queue'[i] = x, queue'[j] = EmptyUID
      PROVE  i < j
  <2>1. /\ \A k, l \in DOMAIN queue : queue[k] = x /\ queue[l] = EmptyUID => k < l
        /\ x # w /\ x # EmptyUID
    BY <1>2, <1>5, MarkerFacts DEF WaitInv, Owed
  <2>2. CASE queue' = Without(w)
    BY <1>2, <1>5, <2>1, <2>2, RemovalKeepsMarkerLast
  <2>3. CASE queue' = Append(Without(w), w)
    <3> DEFINE q == Without(w)
    <3>1. q \in Seq(UIDs)
      BY <1>2, WithoutFacts DEF IndInv
    <3> HIDE DEF q
    <3>2. /\ DOMAIN q = 1..Len(q) /\ Len(q) \in Nat
          /\ DOMAIN queue' = 1..(Len(q) + 1)
          /\ \A k \in 1..Len(q) : queue'[k] = q[k]
          /\ queue'[Len(q) + 1] = w
      BY <2>3, <3>1, AppendProperties DEF q
    <3>3. i \in DOMAIN q /\ q[i] = x
      BY <1>5, <2>1, <3>2
    <3>4. CASE j = Len(q) + 1
      BY <3>2, <3>3, <3>4
    <3>5. CASE j \in DOMAIN q
      BY <1>2, <1>5, <2>1, <3>2, <3>3, <3>5, RemovalKeepsMarkerLast DEF q
    <3> QED BY <1>5, <3>2, <3>4, <3>5
  <2> QED BY <1>1, <2>2, <2>3 DEF Delivered, Settle, RemoveElement
<1>6. WaitInv'
  BY <1>2, <1>3, <1>5 DEF WaitInv
<1> QED BY <1>4, <1>6

\* The UI takes the front of Out: what it hears of stays the same.
LEMMA ReceiveKeepsOrder ==
  ASSUME IndInv, OutInv, PodInv, Receive, UNCHANGED watcher
  PROVE  HeardInv' /\ WaitInv'
<1> USE DEF PodInv
<1>1. UNCHANGED <<log, latest, sent, queue, marker, initial>>
  BY DEF Receive, publisher, delivery, watcher
<1>2. \A x : Owed(x)' <=> Owed(x)
  BY <1>1 DEF Owed, DeletedSince
<1>3. WaitInv'
  BY <1>1, <1>2 DEF WaitInv
<1>4. PICK n \in Nat : n = Len(out) /\ Len(out') + 1 = n
  BY ToldOfReceive
<1>5. Head(out) # 0
  BY FrontOfOut DEF Receive
<1>6. \A x \in UIDs, k \in 1..n : Heard(x, k)' <=> Heard(x, k + 1)
  BY <1>4, <1>5, ToldOfReceive DEF Heard
<1>7. HeardInv'
  BY <1>2, <1>4, <1>6, MarkerFacts DEF HeardInv
<1> QED BY <1>3, <1>7

LEMMA OrderStep ==
  ASSUME IndInv, OutInv, PodInv, [PNext]_pvars
  PROVE  HeardInv' /\ WaitInv'
<1> USE DEF PodInv
<1>0. IndInv' /\ OutInv'
  <2>1. [Next]_vars
    BY StepDelivers
  <2> QED BY <2>1, IndStep, OutStep
<1>1. ASSUME NEW u \in UIDs \ {EmptyUID}, NEW deleted \in BOOLEAN, Publish(u, deleted),
             wpc # "synced"
      PROVE  HeardInv' /\ WaitInv'
  <2>1. latest[EmptyUID] = 0
    BY <1>1, MarkerFacts DEF HistoryInv, RunInv
  <2>2. latest'[EmptyUID] = 0
    BY <1>1, <2>1, MarkerFacts DEF Publish, Change, IndInv, TypeOK
  <2>3. (latest[EmptyUID] = 0)'
    BY <2>2
  <2> QED BY <1>0, <2>3, NoMarkerYet, PTL
<1>2. CASE \E p \in Pods : ListPod(p)
  BY <1>1, <1>2, MarkerFacts DEF ListPod, RunInv
<1>3. CASE SyncTimeout
  BY <1>1, <1>3, MarkerFacts DEF SyncTimeout, EmitSync
<1>4. ASSUME NEW u \in UIDs, NEW deleted \in BOOLEAN, Publish(u, deleted), initial' = initial,
             marker'["PodSyncDelayed"] = marker["PodSyncDelayed"]
      PROVE  HeardInv' /\ WaitInv'
  <2>1. /\ Len(log) \in Nat /\ Len(log') = Len(log) + 1
        /\ \A i \in 1..Len(log) : log'[i] = log[i]
    BY <1>4, HistoryOfPublish
  <2>2. DOMAIN log = 1..Len(log) /\ DOMAIN log' = 1..Len(log')
    BY <1>0 DEF IndInv, TypeOK
  <2>3. \A x \in UIDs : Owed(x)' => Owed(x)
    BY <1>4, <2>1, <2>2 DEF Owed, DeletedSince
  <2> QED BY <1>4, <2>3, PublishKeepsOrder
<1>5. CASE \E p \in Pods, deleted \in BOOLEAN : WatchEvent(p, deleted)
  BY <1>4, <1>5, MarkerFacts DEF WatchEvent, watcher
<1>6. CASE Synced
  BY <1>4, <1>6, MarkerFacts DEF Synced, EmitSync, PTypeOK
<1>7. CASE UpdatePod
  BY <1>7, ReceiveKeepsOrder DEF UpdatePod
<1>8. CASE Send /\ UNCHANGED <<watcher, ui>>
  BY <1>8, SendKeepsOrder
<1>9. CASE Delivered /\ UNCHANGED <<watcher, ui>>
  BY <1>9, DeliveredKeepsOrder
<1>10. CASE \/ (Take \/ Idle \/ Wake \/ Quit \/ Close \/ Cancel) /\ UNCHANGED <<watcher, ui>>
            \/ ListDone \/ UNCHANGED pvars
  <2>1. UNCHANGED <<log, out, view, sent, marker, initial>> /\ (queue' = queue \/ queue' = <<>>)
    BY <1>10 DEF Take, Idle, Wake, Quit, Close, Cancel, ListDone, pvars, vars, publisher,
       delivery, watcher
  <2>2. \A x, k : HeardOf(x, k)' = HeardOf(x, k)
    BY <2>1 DEF HeardOf
  <2>3. \A x : Owed(x)' <=> Owed(x)
    BY <2>1 DEF Owed, DeletedSince
  <2>4. HeardInv'
    BY <2>1, <2>2, <2>3 DEF HeardInv, Heard
  <2>5. WaitInv'
    BY <2>1, <2>3 DEF WaitInv
  <2> QED BY <2>4, <2>5
<1> QED BY <1>2, <1>3, <1>5, <1>6, <1>7, <1>8, <1>9, <1>10 DEF PNext, RunStep

-----------------------------------------------------------------------------
(* The marker is the last word about the first list.                       *)

LEMMA UIStep ==
  ASSUME IndInv, OutInv, PodInv, [PNext]_pvars
  PROVE  UIInv'
<1> USE DEF PodInv
<1>1. CASE UpdatePod
  <2> DEFINE h == Head(out)
  <2>1. /\ h \in 1..Len(log) /\ log[h].uid \in UIDs /\ view[log[h].uid] < h
        /\ \A v \in UIDs : view'[v] = IF v = log[h].uid THEN h ELSE view[v]
    BY <1>1, FrontOfOut DEF UpdatePod, Receive, IndInv, TypeOK
  <2>2. \A v \in UIDs : view[v] # 0 => view'[v] # 0
    BY <2>1
  <2>m. h = marker["PodSynced"] => h # marker["PodSyncDelayed"]
    <3> SUFFICES ASSUME h = marker["PodSynced"], h = marker["PodSyncDelayed"] PROVE FALSE
      OBVIOUS
    <3>1. latest[EmptyUID] = h /\ latest[DelayUID] = h /\ h # 0
      BY <2>1, MarkerFacts DEF HistoryInv
    <3> QED BY <3>1, MarkerFacts DEF IndInv, SourceInv
  <2>3. CASE h = marker["PodSynced"]
    <3>1. syncedPods' = TRUE /\ podSyncDelayed' = FALSE
      BY <1>1, <2>3, <2>m DEF UpdatePod, MarkSynced
    <3>2. log[h].uid = EmptyUID
      <4>1. latest[EmptyUID] = h /\ latest[EmptyUID] # 0
        BY <2>1, <2>3, MarkerFacts DEF HistoryInv
      <4> QED BY <4>1, MarkerFacts DEF IndInv, SourceInv
    <3>3. view'[EmptyUID] # 0
      BY <2>1, <3>2
    <3> QED BY <3>1, <3>3 DEF UIInv
  <2>4. CASE h # marker["PodSynced"] /\ h = marker["PodSyncDelayed"]
    <3>1. UNCHANGED syncedPods
      BY <1>1, <2>4 DEF UpdatePod
    <3>2. ~syncedPods
      <4> SUFFICES ASSUME syncedPods PROVE FALSE
        OBVIOUS
      <4>1. Heard(EmptyUID, 1) /\ Owed(DelayUID)
        BY <2>1, <2>4, HeardFacts, MarkerFacts DEF UIInv, Owed
      <4>2. view[DelayUID] # 0
        BY <4>1, HeardFacts, MarkerFacts DEF HeardInv
      <4>3. view[DelayUID] = h
        BY <2>4, <4>2, MarkerFacts DEF HistoryInv
      <4>4. log[h].uid = DelayUID
        BY <4>2, <4>3, MarkerFacts DEF HistoryInv
      <4> QED BY <2>1, <4>3, <4>4
    <3> QED BY <3>1, <3>2 DEF UIInv
  <2>5. CASE h # marker["PodSynced"] /\ h # marker["PodSyncDelayed"]
    <3>1. UNCHANGED ui
      BY <1>1, <2>5 DEF UpdatePod
    <3> QED BY <2>2, <3>1, MarkerFacts DEF UIInv, ui
  <2> QED BY <2>3, <2>4, <2>5
<1>2. CASE ~UpdatePod
  <2>1. UNCHANGED <<view, syncedPods, podSyncDelayed>>
    BY <1>2 DEF PNext, ListPod, ListDone, WatchEvent, SyncTimeout, Synced, EmitSync, Publish,
       RunStep, Take, Idle, Wake, Send, Delivered, Quit, Close, Cancel, pvars, vars, ui
  <2> QED BY <2>1 DEF UIInv
<1> QED BY <1>1, <1>2

\* Where Run is and what it has announced belong together, and whatever the UI
\* must have heard of before PodSynced is ahead of it in the queue and in Out.
THEOREM PodInvariance == PSpec => []PodInv
<1>1. ASSUME PInit PROVE PodInv
  <2> USE <1>1 DEF PInit, Init
  <2>1. log = <<>> /\ Len(log) = 0 /\ out = <<>> /\ Len(out) = 0
    OBVIOUS
  <2>2. PTypeOK /\ RunInv /\ UIInv
    BY DEF PTypeOK, RunInv, UIInv, MarkerKinds
  <2>3. HistoryInv
    BY <2>1, MarkerFacts DEF HistoryInv
  <2>4. \A x \in UIDs, k \in 1..(Len(out) + 1) : HeardOf(x, k) = {0}
    BY <2>1 DEF HeardOf
  <2>5. HeardInv
    BY <2>4, MarkerFacts DEF HeardInv, Heard
  <2>6. WaitInv
    BY DEF WaitInv
  <2> QED BY <2>2, <2>3, <2>5, <2>6 DEF PodInv
<1>2. ASSUME IndInv, OutInv, PodInv, [PNext]_pvars PROVE PodInv'
  BY <1>2, HistoryStep, OrderStep, UIStep DEF PodInv
<1>3. PSpec => []IndInv /\ []OutInv
  BY WatcherDelivers, Invariance, OutInvariance, PTL
<1> QED BY <1>1, <1>2, <1>3, PTL DEF PSpec

\* "Ordered cache-completion marker": when the UI takes PodSynced for the end of
\* the loading it has every pod of the first list, except those deleted since,
\* and no late PodSyncDelayed can bring the warning back.
THEOREM SyncedIsLast == PSpec => []SyncedAfterInitial
<1>1. ASSUME IndInv, OutInv, PodInv PROVE SyncedAfterInitial
  <2> USE <1>1 DEF PodInv
  <2>1. ASSUME syncedPods, NEW p \in Pods, initial[p] # 0, ~DeletedSince(p)
        PROVE  view[p] >= initial[p]
    <3>1. Heard(EmptyUID, 1) /\ Owed(p) /\ p \in UIDs
      BY <2>1, HeardFacts, MarkerFacts DEF UIInv, Owed
    <3>2. view[p] # 0
      BY <3>1, HeardFacts DEF HeardInv
    <3>3. view[p] \in 1..Len(log) /\ log[view[p]].uid = p
      BY <3>1, <3>2 DEF HistoryInv
    <3>4. initial[p] <= view[p]
      BY <2>1, <3>3 DEF HistoryInv
    <3>5. initial[p] \in Nat /\ view[p] \in Nat
      BY <3>1, <3>3 DEF PTypeOK, IndInv, TypeOK
    <3> QED BY <3>4, <3>5
  <2> QED BY <2>1 DEF SyncedAfterInitial, UIInv
<1>2. PSpec => []IndInv /\ []OutInv
  BY WatcherDelivers, Invariance, OutInvariance, PTL
<1> QED BY <1>1, <1>2, PodInvariance, PTL

-----------------------------------------------------------------------------
(* ResolveScope.                                                           *)

\* What replacing one shared call leaves of the others.
LEMMA CallFacts ==
  ASSUME ScopeTypeOK, NEW i \in 1..Len(calls), NEW d \in Call,
         calls' = [calls EXCEPT ![i] = d]
  PROVE  /\ calls' \in Seq(Call) /\ Len(calls') = Len(calls) /\ Len(calls) \in Nat
         /\ calls[i] \in Call /\ calls'[i] = d
         /\ \A j \in 1..Len(calls) : j # i => calls'[j] = calls[j]
BY DEF ScopeTypeOK

LEMMA CallerKeepsScope ==
  ASSUME ScopeInv, NEW c \in Callers,
         Ask(c) \/ LeaveCall(c) \/ Lookup(c) \/ Join(c) \/ GiveUp(c) \/ Answer(c)
  PROVE  ScopeInv'
<1> USE DEF ScopeInv
<1>1. CASE Join(c) /\ flight = 0
  <2>1. /\ calls \in Seq(Call) /\ NewCall(c) \in Call
    BY DEF ScopeTypeOK, Call, NewCall, Scope, Hint
  <2>2. /\ calls' = Append(calls, NewCall(c)) /\ flight' = Len(calls')
        /\ joined' = [joined EXCEPT ![c] = Len(calls')]
        /\ pc' = [pc EXCEPT ![c] = "wait"]
        /\ UNCHANGED <<scopes, left, got>>
    BY <1>1 DEF Join
  <2>3. PICK n \in Nat : n = Len(calls)
    BY <2>1
  <2>4. /\ calls' \in Seq(Call) /\ Len(calls') = n + 1
        /\ \A i \in 1..n : calls'[i] = calls[i]
        /\ calls'[n + 1] = NewCall(c)
    BY <2>1, <2>2, <2>3, AppendProperties
  <2>5. ScopeTypeOK'
    BY <2>2, <2>3, <2>4 DEF ScopeTypeOK
  <2>6. FlightIsLatest'
    <3>1. \A i \in 1..n : ~InProgress(i)'
      BY <1>1, <2>3, <2>4 DEF FlightIsLatest, InProgress
    <3>2. InProgress(n + 1)'
      BY <2>4 DEF InProgress, NewCall
    <3> QED BY <2>2, <2>4, <3>1, <3>2 DEF FlightIsLatest
  <2>7. AnswersInv'
    <3>1. calls'[n + 1].outcome # "cancelled"
      BY <2>4 DEF NewCall
    <3>2. \A i \in 1..(n + 1) : calls'[i].outcome # "cancelled"
      BY <2>3, <2>4, <3>1 DEF AnswersInv
    <3> QED BY <2>2, <2>3, <2>4, <3>2 DEF AnswersInv, ScopeTypeOK
  <2>8. LeavingIsPrivate' /\ (scopes' # "unresolved" => Requesting' = {})
    BY <2>2, <2>3, <2>4 DEF LeavingIsPrivate, Requesting, NewCall
  <2> QED BY <2>5, <2>6, <2>7, <2>8
<1>2. CASE ~(Join(c) /\ flight = 0)
  <2>1. UNCHANGED <<scopes, flight, calls>>
    BY <1>2 DEF Ask, LeaveCall, Lookup, Join, GiveUp, Answer
  <2>2. pc[c] = "wait" => /\ calls[joined[c]].outcome \in Outcome \cup {"none", "cached"}
                          /\ calls[joined[c]].outcome # "cancelled"
    <3>1. \A i \in 1..Len(calls) : calls[i] \in Call
      BY DEF ScopeTypeOK
    <3> QED BY <3>1 DEF AnswersInv, Call
  <2>3. /\ pc' \in [Callers -> {"idle", "lookup", "join", "wait"}]
        /\ joined' \in [Callers -> 0..Len(calls)] /\ left' \subseteq Callers
        /\ got' \in [Callers -> Outcome \cup {"none", "cached", "hint"}]
    <3>1. CASE Ask(c) \/ LeaveCall(c)
      BY <3>1 DEF ScopeTypeOK, Ask, LeaveCall
    <3>2. CASE Lookup(c)
      <4>1. 0 \in 0..Len(calls)
        BY DEF ScopeTypeOK
      <4> QED BY <3>2, <4>1 DEF ScopeTypeOK, Lookup, Return
    <3>5. CASE Join(c)
      BY <1>2, <3>5 DEF ScopeTypeOK, Join
    <3>3. CASE GiveUp(c)
      BY <3>3 DEF ScopeTypeOK, GiveUp, Return
    <3>4. CASE Answer(c)
      <4>1. calls[joined[c]].outcome \in Outcome \cup {"none", "cached", "hint"} /\ 0 \in 0..Len(calls)
        BY <2>2, <3>4 DEF Answer, ScopeTypeOK
      <4> QED BY <3>4, <4>1 DEF ScopeTypeOK, Answer, Return
    <3> QED BY <3>1, <3>2, <3>3, <3>4, <3>5
  <2>4. \A d \in Callers : pc'[d] = "wait" => joined'[d] \in 1..Len(calls)
    BY <1>2 DEF ScopeTypeOK, AnswersInv, Ask, LeaveCall, Lookup, Join, GiveUp, Answer, Return
  <2>5. LeavingIsPrivate'
    BY <1>2, <2>2 DEF LeavingIsPrivate, ScopeTypeOK, Outcome, Ask, LeaveCall, Lookup, Join,
       GiveUp, Answer, Return
  <2> QED BY <2>1, <2>3, <2>4, <2>5 DEF ScopeTypeOK, FlightIsLatest, InProgress, AnswersInv,
        Requesting
<1> QED BY <1>1, <1>2

LEMMA CallKeepsScope ==
  ASSUME ScopeInv, NEW i \in 1..Len(calls),
         Check(i) \/ (\E outcome \in Outcome : Resolve(i, outcome)) \/ Delete(i) \/ CloseCall(i)
  PROVE  ScopeInv'
<1> USE DEF ScopeInv
<1>0. calls[i] \in Call /\ calls[i].outcome # "cancelled"
  BY DEF ScopeTypeOK, AnswersInv
<1>c. ASSUME Check(i)
      PROVE  \E d \in Call : /\ calls' = [calls EXCEPT ![i] = d] /\ d.outcome # "cancelled"
                             /\ d.pc = IF scopes # "unresolved" THEN "answered" ELSE "request"
  <2> DEFINE d == IF Known THEN [calls[i] EXCEPT !.pc = "answered", !.ns = scopes, !.outcome = "cached"]
                  ELSE [calls[i] EXCEPT !.pc = "request"]
  <2>1. d \in Call /\ d.outcome # "cancelled"
    BY <1>0 DEF Known, ScopeTypeOK, Call
  <2>2. d.pc = IF scopes # "unresolved" THEN "answered" ELSE "request"
    BY <1>0 DEF Known, Call
  <2>3. calls' = [calls EXCEPT ![i] = d]
    BY <1>c DEF Check
  <2> HIDE DEF d
  <2> QED BY <2>1, <2>2, <2>3
<1>r. ASSUME NEW outcome \in Outcome, Resolve(i, outcome)
      PROVE  \E d \in Call : /\ calls' = [calls EXCEPT ![i] = d] /\ d.outcome # "cancelled"
                             /\ d.pc = "answered"
  <2> DEFINE d == [calls[i] EXCEPT !.pc = "answered", !.ns = ScopeOf(outcome), !.outcome = outcome]
  <2>1. d \in Call
    BY <1>0 DEF ScopeOf, Scope, Hint, Call
  <2>2. d.outcome # "cancelled" /\ d.pc = "answered"
    BY <1>0, <1>r DEF Resolve, RequestDone, Call
  <2>3. calls' = [calls EXCEPT ![i] = d]
    BY <1>r DEF Resolve
  <2> HIDE DEF d
  <2> QED BY <2>1, <2>2, <2>3
<1>1. PICK d \in Call : calls' = [calls EXCEPT ![i] = d] /\ d.outcome # "cancelled"
  <2>1. CASE Check(i)
    BY <1>c, <2>1
  <2>2. ASSUME NEW outcome \in Outcome, Resolve(i, outcome)
        PROVE  \E d \in Call : calls' = [calls EXCEPT ![i] = d] /\ d.outcome # "cancelled"
    BY <1>r, <2>2
  <2>3. CASE Delete(i) \/ CloseCall(i)
    BY <1>0, <2>3 DEF Delete, CloseCall, Step, Call
  <2> QED BY <2>1, <2>2, <2>3
<1>2. /\ calls' \in Seq(Call) /\ Len(calls') = Len(calls) /\ Len(calls) \in Nat
      /\ calls'[i] = d
      /\ \A j \in 1..Len(calls) : j # i => calls'[j] = calls[j]
  BY <1>1, CallFacts
<1>3. UNCHANGED <<pc, joined, left, got>>
  BY DEF Check, Resolve, Delete, CloseCall, Step, caller
<1>4. AnswersInv' /\ LeavingIsPrivate'
  BY <1>1, <1>2, <1>3 DEF AnswersInv, LeavingIsPrivate
<1>5. CASE Delete(i)
  <2>1. calls[i].pc = "answered" /\ d.pc = "deleted" /\ flight' = 0 /\ scopes' = scopes
    BY <1>2, <1>5 DEF Delete, Step, Cleared, ScopeTypeOK, Call
  <2>2. i = flight
    BY <2>1 DEF FlightIsLatest, InProgress
  <2>3. FlightIsLatest'
    BY <1>2, <2>1, <2>2 DEF FlightIsLatest, InProgress
  <2>4. ScopeTypeOK'
    BY <1>2, <1>3, <2>1 DEF ScopeTypeOK
  <2>5. scopes' # "unresolved" => Requesting' = {}
    BY <1>2, <2>1 DEF Requesting
  <2> QED BY <1>4, <2>3, <2>4, <2>5
<1>6. CASE CloseCall(i)
  <2>1. calls[i].pc = "deleted" /\ d.pc = "closed" /\ flight' = flight /\ scopes' = scopes
    BY <1>2, <1>6 DEF CloseCall, Step, ScopeTypeOK, Call
  <2>2. FlightIsLatest'
    BY <1>2, <2>1 DEF FlightIsLatest, InProgress
  <2>3. ScopeTypeOK'
    BY <1>2, <1>3, <2>1 DEF ScopeTypeOK
  <2>4. scopes' # "unresolved" => Requesting' = {}
    BY <1>2, <2>1 DEF Requesting
  <2> QED BY <1>4, <2>2, <2>3, <2>4
<1>7. CASE Check(i)
  <2>1. /\ calls[i].pc = "begun" /\ flight' = flight /\ scopes' = scopes
        /\ d.pc = IF scopes # "unresolved" THEN "answered" ELSE "request"
    <3>1. PICK e \in Call : /\ calls' = [calls EXCEPT ![i] = e]
                            /\ e.pc = IF scopes # "unresolved" THEN "answered" ELSE "request"
      BY <1>7, <1>c
    <3>2. e = d
      BY <1>2, <3>1, CallFacts
    <3> QED BY <1>7, <3>1, <3>2 DEF Check
  <2>2. FlightIsLatest'
    BY <1>2, <2>1 DEF FlightIsLatest, InProgress
  <2>3. ScopeTypeOK'
    BY <1>2, <1>3, <2>1 DEF ScopeTypeOK
  <2>4. scopes' # "unresolved" => Requesting' = {}
    BY <1>2, <2>1 DEF Requesting
  <2> QED BY <1>4, <2>2, <2>3, <2>4
<1>8. ASSUME NEW outcome \in Outcome, Resolve(i, outcome) PROVE ScopeInv'
  <2>1. /\ calls[i].pc = "request" /\ flight' = flight
        /\ d.pc = "answered"
        /\ scopes' = IF Definitive(outcome) THEN ScopeOf(outcome) ELSE scopes
    <3>1. PICK e \in Call : calls' = [calls EXCEPT ![i] = e] /\ e.pc = "answered"
      BY <1>8, <1>r
    <3>2. e = d
      BY <1>2, <3>1, CallFacts
    <3> QED BY <1>8, <3>1, <3>2 DEF Resolve
  <2>2. FlightIsLatest'
    BY <1>2, <2>1 DEF FlightIsLatest, InProgress
  <2>3. ScopeTypeOK'
    BY <1>2, <1>3, <2>1 DEF ScopeTypeOK, ScopeOf, Scope, Hint
  <2>4. \A j \in 1..Len(calls) : calls[j].pc = "request" => j = i
    BY <2>1 DEF FlightIsLatest, InProgress
  <2>5. Requesting' = {}
    BY <1>2, <2>1, <2>4 DEF Requesting
  <2> QED BY <1>4, <2>2, <2>3, <2>5
<1> QED BY <1>5, <1>6, <1>7, <1>8

\* The call in progress is the newest one, each caller that waits has joined a
\* call, and no call asks the server once the answer is cached.
THEOREM ScopeInvariance == ScopeSpec => []ScopeInv
<1>1. ASSUME ScopeInit PROVE ScopeInv
  <2> USE <1>1 DEF ScopeInit
  <2>1. calls = <<>> /\ Len(calls) = 0 /\ calls \in Seq(Call)
    BY EmptySeq
  <2> QED BY <2>1 DEF ScopeInv, ScopeTypeOK, FlightIsLatest, InProgress, AnswersInv,
        LeavingIsPrivate, Requesting
<1>2. ASSUME ScopeInv, [ScopeNext]_scopeVars PROVE ScopeInv'
  <2>1. ASSUME NEW c \in Callers, \/ Ask(c) \/ LeaveCall(c) \/ Lookup(c) \/ Join(c)
                                  \/ GiveUp(c) \/ Answer(c)
        PROVE  ScopeInv'
    BY <1>2, <2>1, CallerKeepsScope
  <2>2. ASSUME NEW i \in 1..Len(calls),
               \/ Check(i) \/ \E outcome \in Outcome : Resolve(i, outcome)
               \/ Delete(i) \/ CloseCall(i)
        PROVE  ScopeInv'
    BY <1>2, <2>2, CallKeepsScope
  <2>3. CASE UNCHANGED scopeVars
    BY <1>2, <2>3 DEF scopeVars, caller, ScopeInv, ScopeTypeOK, FlightIsLatest, InProgress,
       AnswersInv, LeavingIsPrivate, Requesting
  <2> QED BY <1>2, <2>1, <2>2, <2>3 DEF ScopeNext
<1> QED BY <1>1, <1>2, PTL DEF ScopeSpec

\* However many watchers and probes ask at once, one check at most is on the
\* wire, and nobody who still wants the answer gets one that was cut short.
THEOREM OneCheckForAll == ScopeSpec => []CallShared
<1>1. ASSUME ScopeInv PROVE CallShared
  <2> USE <1>1 DEF ScopeInv
  <2>1. Requesting \subseteq {flight}
    BY DEF Requesting, FlightIsLatest, InProgress
  <2>2. IsFiniteSet({flight}) /\ Cardinality({flight}) = 1
    BY FS_Singleton
  <2>3. Cardinality(Requesting) <= 1
    BY <2>1, <2>2, FS_Subset
  <2> QED BY <2>3 DEF CallShared, SingleFlight
<1> QED BY <1>1, ScopeInvariance, PTL

\* "The decision is sticky": ResolveScope stores an answer only while none is
\* cached, and nobody joins a call that was taken out of scopeCalls.
THEOREM DecisionSticks == ScopeSpec => Sticky
<1> DEFINE Keeps == /\ scopes # "unresolved" => scopes' = scopes
                    /\ \A c \in Callers : pc[c] = "join" /\ pc'[c] = "wait"
                         => calls'[joined'[c]].pc \in {"begun", "request", "answered"}
<1>1. ASSUME ScopeInv, ScopeNext PROVE Keeps
  <2> USE <1>1 DEF ScopeInv
  <2>1. scopes # "unresolved" => scopes' = scopes
    BY DEF ScopeNext, Ask, LeaveCall, Lookup, Join, GiveUp, Answer, Check, Resolve, Delete,
       CloseCall, Step, Requesting
  <2>2. ASSUME NEW c \in Callers, pc[c] = "join", pc'[c] = "wait"
        PROVE  calls'[joined'[c]].pc \in {"begun", "request", "answered"}
    <3>1. Join(c)
      BY <2>2 DEF ScopeNext, Ask, LeaveCall, Lookup, Join, GiveUp, Answer, Return, Check,
         Resolve, Delete, CloseCall, Step, caller, ScopeTypeOK
    <3>2. CASE flight # 0
      BY <3>1, <3>2 DEF Join, FlightIsLatest, InProgress, ScopeTypeOK
    <3>3. CASE flight = 0
      <4>1. /\ calls' = Append(calls, NewCall(c)) /\ joined'[c] = Len(calls')
            /\ calls \in Seq(Call)
        BY <3>1, <3>3 DEF Join, ScopeTypeOK
      <4>2. calls'[joined'[c]] = NewCall(c)
        BY <4>1
      <4> QED BY <4>2 DEF NewCall
    <3> QED BY <3>2, <3>3
  <2> QED BY <2>1, <2>2
<1>2. ScopeSpec => [][Keeps]_scopeVars
  BY <1>1, ScopeInvariance, PTL DEF ScopeSpec
<1> QED BY <1>2 DEF Sticky
=============================================================================
