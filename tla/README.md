# kubetin in TLA+

kubetin is a terminal UI for many Kubernetes clusters.  One process probes every
cluster of the kubeconfig, watches the resources of the cluster in focus, streams
logs, and performs confirmed operations (scale, restart, delete, cordon, drain,
exec).  Almost everything that can go wrong unnoticed comes from the goroutines
between the API server and the UI: they coalesce, retry, debounce, cancel and
time out, and the UI has to show the truth whatever order their messages take.
This directory specifies those parts, model-checks them with TLC and proves the
central facts with TLAPS.

    tlc -workers 2 -config X.cfg M     # M and X.cfg as in "What the runs show"
    tlapm M_proof.tla                  # every obligation is proved

Source paths below are relative to `src/`.

## 1. Inventory

How the parts interact: `cmd/kubetin/main.go` starts a `Supervisor` (probe and
metrics loops, one pair per context, writing `model.Store`), a `watchCoordinator`
(which owns the resource watchers of the focused context) and the bubbletea
program (one goroutine runs `Update`; commands run on goroutines of their own).
Watchers turn informer callbacks into events on a bounded channel; a forwarder
goroutine batches them into messages for `Update`, stamped with the focus that
asked for them.

| component | state it keeps | operations | what is hard | what makes it correct | module |
|---|---|---|---|---|---|
| event delivery `internal/cluster/delivery.go` | list of pending elements, `pending`, `known`, `inFlight`, `wake`, `closed` | `publish`, `run`, `start`, `stop` | informer, delivery goroutine and consumer interleave; the element being sent is unlocked | nothing is lost or reordered per resource, no missed wake-up, bounded memory, no starvation | ReplicatedView, EventDelivery |
| pod watcher `internal/cluster/podwatch.go` | informer, sync markers | `Run`, `emit` | markers share a coalescing queue with pods; the list may come after its timeout | "synced" only when the first list is there; a late list still gets through | PodWatch |
| watch coordinator `cmd/kubetin/main.go:396-640` | `latest`, `hasRequest`, `reqCh`, `pending`, `active`, timer, cancel function | `switchTo`, `loop`, `stop`, forwarders | commands reordered by bubbletea, debounce, shutdown | newest focus wins, one live set, stop leaves nothing | WatchCoordinator |
| focus and message gate `internal/ui/focus.go`, `app.go` | `WatchedContext`, `focusGeneration`, tables | `focusContext`, the gate of `Update` | messages of an earlier visit | only the current visit's rows are shown | WatchCoordinator |
| scope resolution `internal/cluster/probe.go:100-190` | `scopes`, `scopeCalls` | `ResolveScope` | single flight; callers leave; transient answers | one request at a time, sticky, nobody cut short by another | ScopeResolution |
| probe loop and hysteresis `internal/cluster/probe.go` | `reachAccumulator`, locals of a round | `probeOnce`, `commit`, `update` | a round takes seconds; its calls fail one by one | last known values survive, blips hidden, timeouts are no findings | ClusterProbe |
| store and metrics loop `internal/model/state.go`, `internal/cluster/metrics.go` | one slot per context | `ApplyProbe`, `ApplyMetrics`, `pollMetricsOnce` | two writers of one slot | neither undoes the other | ClusterProbe |
| log streaming `internal/cluster/logstream.go`, `forwardLogs` in `main.go` | open stream, cursor, counters, batch | `StreamLogs`, `runStream`, `logCursor`, `send`, `forwardLogs` | reconnects replay whole seconds; completion races the last write; full channel | each line once, complete at the end, bounded retries | TailedLog, LogStream |
| log sessions `internal/ui/logs.go`, `dashboard.go` | viewer, picker, dashboard stack, session number, `retryWhenStarted` | open, pick, close, load all, restart, retry | messages of closed sessions; failure and pod event in either order; viewer and dashboard share one stream | the pane has the lines of the pod it names; no stream is leaked; no retry missed | LogSession |
| log buffer `internal/ui/logs.go` | bounded lines, scroll, matches kept up to date | append, scroll, search, step | evictions while the reader is elsewhere | what is read stays where it is; the matches are those of a scan | LogBuffer |
| node operations and drain `internal/cluster/nodeops.go`, `cmd/kubetin/drain.go`, `internal/ui/drain.go` | per drain: pods to evict, progress; UI dialogs | cordon, drain, evict with retry, poll | refused, vanished and recreated pods; cancel at any time | evicts only what was validated, ends once, reports the truth, never runs unseen | NodeDrain, DrainSession |
| confirmed actions `internal/ui/{delete,scale,restart,describe,modal_request}.go`, `internal/cluster/mutate.go` | four dialogs, their request identity and context | open, confirm, leave, result | late results; the object was replaced or changed meanwhile; lost answers | acts once, on the object named, and says what happened | ConfirmedAction |
| action menu, permissions `internal/ui/{actions,rbac}.go`, `internal/cluster/auth.go` | permission cache, checks in flight, the menu's cursor | open, move, run, answer | answers while the menu is open, of an earlier visit | every check accounted for; the highlight stays on its action | ActionMenu |
| network polling `internal/cluster/networkpoll.go`, `internal/ui/network.go` | each node's last sample, where the next round begins, rows and their expiry | scrape, snapshot, apply, expire | counters start again; rounds run out of time; workers concurrent | a rate is of two samples of one counter, and not shown when old; no node starved | NetworkPoll |
| pod table, focused metrics `internal/ui/{pod,table_cache,clusterdash_cache}.go`, `internal/cluster/focusedmetrics.go` | rows, samples that wait for a row, cached orders and counts, cursor | upsert, delete, snapshot, draw, sort, filter | three writers of a row; caches repaired instead of recomputed | what is cached equals what would be computed | PodTable |
| other watchers `internal/cluster/*watch.go` | informers | `Run`, forward | lost watches and relists; namespaces or projects; labels | the table has every object there is | ResourceWatch |
| fleet view `internal/ui/{fleet,fleethealth,clusterdash,sidebar}.go` | cursor, expanded card and its detail, borrowed filter | enter, leave, expand, refresh, filter, Tab | fetches answered late; order changes under the cursor; many ways in and out | a card shows its own newest detail; the filter comes back; Tab reaches every cluster | FleetView |
| fleet detail `internal/cluster/fleetdetail.go` | none | summarise | three lists, each may fail | - | not modelled |
| discovery and trust `internal/kubeconfig/{discover,trust}.go`, `cmd/kubetin/trust.go` | files, contexts, list of accepted contents | discover, ask, save, load | failing and interrupted saves; names that look alike | nothing is forgotten; every context can be told apart | TrustList |
| start-up, headless `cmd/kubetin/main.go`, `lastcontext.go` | initial choice, file of the last context | `pickWatchContext`, save | probes still running, reports in the middle of a look; crash while saving | the last context if it answers in time, else a healthy one | StartContext |
| exec `internal/cluster/exec_*.go` | terminal size queue | resize, stop | terminal I/O | - | not modelled (the choice of a container is in LogSession) |
| rendering and input `internal/ui/render.go`, panes, layout | none of their own | draw | - | sequential formatting, well covered by tests | not modelled |
| version, stderr plumbing | none | - | - | pure I/O | not modelled |

`PROJECT.json` lists the same components, the hazards (each at its line, with the
properties that would catch it), and for every definition the lines it models.

## 2. Modules

Modules named MC* put several components side by side for TLC and name the small
sets (section 3).  Every other module takes its sizes as CONSTANTS with named
assumptions, has one action per critical section or step of a goroutine, and keeps
recursion out so that it can be proved about.  Definitions named "a wrong X" are
alternatives a plausible bug would produce; they are used only to show that the
properties notice it.

**ReplicatedView** - the contract stated above `eventDelivery`: per resource, the
consumer moves forward along that resource's events, may skip, never goes back,
and hears of a deletion only if it shows the resource.

**EventDelivery** - `delivery.go`.  `publish` and the two critical sections of
`run` hold `d.mu`, so each is one action; the selects outside the lock are
actions of their own.  `Publish` = `PublishClosed | PublishDirect | CancelUnseen |
Enqueue | Coalesce` are the returns of `publish`; `Take`, `Idle`, `Wake`, `Send`,
`Delivered`, `Quit`, `Close` are the stretches of `run` between its locks and
selects; `Receive` is the consumer with tables keyed by UID.  Events are positions
in `log`, the ghost sequence of all informer events.  `passed` and `sent` are
history.  Cancellation may fall anywhere.  The statistic `CoalescedEvents` is left
out.  The informer's contract (deletions only of what exists) is the guard of
`Change`; client-go itself is not modelled.

**PodWatch** - EXTENDS EventDelivery with `PodWatcher.Run`: the first list, the
sync timeout, the two markers under UIDs no pod can have, and what `updatePod`
does with them.  Failures of `Run` before the informer starts, and the projection
of pod fields, are left out.

**WatchCoordinator** - `watchCoordinator` composed with focus changes and the gate
of `Update`.  A focus command is a member of the set `commands` (any may run
next: bubbletea orders nothing); `SwitchTo` is the part under `c.mu`, `Signal` the
send after it; `Request`, `Fire`, `Stop` are the cases of `loop`'s select, `Fire`
with the three ways it can go.  The dozen watchers of one set start and are
cancelled together and are one forwarder; a cancelled forwarder may still send.

**ScopeResolution** - `ResolveScope`: lookup, LoadOrStore, second lookup, List,
Store, Delete, close are separate steps of any number of callers and calls.

**ClusterProbe** - one context: `probeOnce` step by step, `commit`, the
accumulator, `Store.ApplyProbe`, and the metrics loop's wake, poll and apply.
Each API call may answer, be denied, fail or be abandoned at its deadline.
Contexts share nothing but the Store's lock, so one is enough.  Left out: the exit
of the loops when the program ends, the text of `LastError`, and a metrics answer
for a slot that was never seeded (`Run` seeds first).

**TailedLog** - the contract of a followed log: the tail begins at some line, and
from there every line is taken once and in order.

**LogStream** - one log session: the container writing and ending, `runStream`
(`spc` names its place), the cursor with its per-text counts at one time stamp,
the channel `Out`, `forwardLogs` with batch and timer, and the flags of `m.logs`.
A line is a time and a text; identical lines in one instant are the interesting
case.  `FollowsLog` says that it implements TailedLog: `taken` is what the cursor
accepted.  Lines without a time stamp are left out.  Whether the initial tail may
begin between two lines of one time stamp is the constant `TailSplitsTie`.  When it
may, finding 2 applies, and `TakenAsWritten` says what the cursor still keeps: no
line is taken more often than it was written, every line read from the first one on
is taken as often as it was read, and times do not go back.

**LogSession** - whose log is on the screen: the dashboard of a pod or a deployment,
the viewer over it, the container picker, L (the whole log), pod events that
restart a container or bring a newer replica, and focus changes.  Every request has
a session number, a command and a forwarder; its messages (`note`) arrive in any
order, also after the session was closed; the end of a stream follows its error.
Lines are the session they came from; pods are numbered from the oldest on.  Phase
Running and "its containers have started" are two facts about a pod, as the code
reads them in two places, and a pod may be known without a row to read its containers
from.  The picker offers the containers of the pod it was opened for (`offered`); when
the dashboard behind it recovers for another pod meanwhile, the code asks that pod
for the container picked, and so does the model.

**LogBuffer** - the buffer behind both: `ApplyLogLines` with eviction, the scroll
position relative to the tail, and the incremental search.  A line is the set of
terms it contains; `Recompute` is compared with a scan of the whole buffer.  A new
stream empties the buffer and drops the search (`BeginBuffer`); a dashboard without a
stream empties it and keeps the term (`ResetBuffer`); both at any moment.

**NodeDrain** - one drain: `drain` step by step (`dpc` names its place), `send` and
`finish`, `evictWithRetry`, the polling, and the forwarder of `cmd/kubetin/drain.go`.
`Prepare`, `EvictPods` and `Poll` are its three parts, one action per API call and
outcome; what `drain` is about to send waits in `todo` until `Send` puts it on the
channel or gives it up.  An early error (`Abort`) carries no counts, a later one
(`Finish`) names what remains.  The environment is the cluster: names whose pods
have UIDs that count up, vanish at any time and come back under their name, on this
node only before the cordon or if they ignore it.  A call that failed may have had
its effect.  `Cancel` stands for the user, the focus change, the end of the program
and `drainTimeout` alike.  Nobody else uncordons the node; the timings of the
backoff and of the ticker, and which of the checks refuses a pod, are abstracted to
"may go on" and the kind "unsafe".

**DrainSession** - the drains a user starts, one after another: the two dialogs,
`cancelDrain` and `stopDrain`, the command of `focusedCmd`, `startDrain`, and the
gate of `Update`.  A session's acknowledgement (`ack`) and its forwarder's messages
(`news`) travel separately and reach `Update` in any order.  Keys go to the drain
dialog on the screen, so the focus changes only when there is none.  The drain is
abstracted to "runs, reports, ends", justified by NodeDrain.  Left out: the wording
of toasts, the text of blocked pods merged into the dialog, and the single cordon
and uncordon.

**ConfirmedAction** - delete, scale, restart and describe from the dialog to the
result: the identity of a request (`modals`), the command with its calls, other
clients who replace or scale the object meanwhile, answers that are lost, and the
case of `Update` that takes or drops the result.  `done` is history: the objects each
request acted on, one entry for each time it did.  A typed replica count is converted
to its width (`ToInt32`); with the 3 bits of the run, one of the counts typed wraps to
a negative number, which the server refuses.  The UID precondition of a deletion is
always there, because the menu's reference always has a UID (`app.go:1094`).

**ActionMenu** - the menu of a row and the permission checks that feed it; answers of
an earlier visit; the cordon state of a node's row, which decides which of cordon
and uncordon is offered.

**PodTable** - the pods of the focused cluster.  Pod events, metrics snapshots and
network snapshots change rows, and rates expire on them; `order`, `phaseCache` and
`dashOrder` (by cpu and by memory, keyed by namespace) are the caches, with what
invalidates and repairs them.  A metrics snapshot may come before the pod it has a
sample of (`waitingSamples`).  `TableExact` compares each cache with the value
computed anew.  One network direction stands for both, and a stale rate counts as
none: that is what the order sees of it.  Places number namespace and name in one
order; the dashboard breaks its ties by name before namespace, which is another
numbering.

**NetworkPoll** - rounds of scrapes with a limited number of workers and a deadline,
the per-node samples, the channel that drops when full, and the UI's expiry.  A
round's queue is the set of nodes left and the node it began with; `Turn` says who is
next.  `carried` is history: what really passed since a node's last sample.  The
channel has the code's capacity (`NetCap`, 4): with the rounds of the run it does not
fill, and the proof is for any capacity, a full channel included.

**ResourceWatch** - the nine watchers that are not the pod watcher, as one shape with
parameters: where it may list, whether the Projects API decides, whether it retries
its first list, whether it forwards labelled objects only.  An informer that lost
its watch lists again and reports the difference by name.  What a watcher may list is
the cluster or the namespace the kubeconfig names; a scope check that fails for the
moment falls back to that namespace, as `resolveScopeNow` does.

**StartContext** - launches, one after another: flags, `pickWatchContext` look by look
(reports arrive between two contexts of one look), the deadline and the last look,
the session, and the file of the last context, truncated and then written, with a
crash at any point.

**TrustList** - starts of the program against files that others edit: discovery, the
question, the save through a temporary file, loading.  Contexts get names from the
shortest tail of their path that tells them apart; a name is a sequence of parts.

**Ordered** - what a sort returns, as a sequence over a finite set and an order (a
set of pairs): the element at i is the one with i - 1 before it.  PodTable,
FleetView, LogBuffer, TrustList and StartContext sort with it.  It says which
sequence a sort ends in and not how it gets there, and needs no recursion.

**FleetView** - the fleet dashboard, the cluster dashboard, the resource tables they
come from and return to, the filter they share, the rail's order and Tab, and the
detail of the expanded card with every fetch on its way.

Composition: PodWatch extends EventDelivery; WatchCoordinator holds coordinator,
UI gate and forwarders in one state; ClusterProbe holds both writers of a slot;
LogStream holds streamer, forwarder and UI flags; PodTable the three writers of a row.
Some modules rest on what another shows: ClusterProbe takes a scope that stays once
definitive (`Sticky`); DrainSession takes a drain that ends with a summary
(`DrainEnds`); LogSession takes a stream that ends and reports it (`StreamEnds`);
ResourceWatch takes a delivery that keeps the newest event of a uid (`NoLostUpdate`);
LogBuffer takes lines of one session (`LogPaneTruthful`).

## 3. What the runs show

A run asks one question of one area of the system.  The modules of an area that
share no state are put side by side by its MC module: the variable `part` chooses,
once and at the start, which of them runs, and the others rest.  Every behaviour of
every one of them is thus explored, without the product of components that cannot
influence each other.

| run | question | bounds, and why they suffice |
|---|---|---|
| `delivery` (MCDelivery) | EventDelivery: no update is lost, memory is bounded by resources, nobody starves. ResourceWatch: the table accounts for every object across lost watches and relists. | 3 UIDs, Out of 1, 5 events: an element in flight, one replaced behind it and one waiting, with Out full; a larger Out only makes the slow path rarer. 2 names, 3 objects, 5 changes and faults: one name lost, replaced and relisted next to another |
| `podwatch` (MCPodWatch) | PodWatch: "synced" after the first list, a late list gets through, the delivery below implements ReplicatedView (`Refines`), converges and stops. ScopeResolution: one request, a sticky answer, nobody cut short, all return | 2 pods and both markers, 5 events: both pods added and one changed around both markers. 3 callers, 3 calls: a second shared call registers while another caller still waits for the first |
| `coordinator` (MCCoordinator) | what must get somewhere: the newest focus, the end of a log, the end of a start; and on the way, rows of the current visit only, one live set, no stale start, the right context, and a log taken as written wherever its tail begins | 2 clusters, 4 focus changes: two returns to one cluster with three older commands outstanding. Stream: 2 lines of 2 texts in one instant and 2 failures, so that the group the tail splits is met again by two reopened streams (3 lines in 2 instants were tried once, 2.9 million states; what else lines say is the question of `logs`). Start: 2 contexts, 2 launches, 2 reports each, 1 focus change: the second launch reads what the first left |
| `probe` (MCProbe) | ClusterProbe: hysteresis, last known values, metrics not undone. NetworkPoll: honest rates, nothing stale, nobody starved. TrustList: nothing forgotten, names distinct | one signal (the proofs take any set; two were tried once, 8.6 million states), counts 0..1, any number of rounds. 2 nodes and 1 worker, so that a round can end with a node not reached; a pod on both nodes; ages below and at the maximum. 2 files of one base name, 4 contents of which one does not parse and the others share names, 4 launches, edits or faults |
| `logs` (MCLogs) | LogStream: follows the log, its end is true. LogSession: the pane is truthful. LogBuffer: the view is steady | 3 lines of 2 texts in 2 instants (same and different lines of one instant on both sides of a break), 2 failures, Out of 1, batch of 2. 2 replicas, of which one has two containers, 2 requests, 1 pod event or focus change. A buffer of 3, a viewport of 2, 7 lines in batches up to 4: every line is evicted, and a batch is larger than the buffer |
| `screens` (MCScreens) | PodTable: repaired orders and cached counts equal recomputed ones. FleetView, ActionMenu, ConfirmedAction: what is on the screen and what a key sets going | 3 pods, the third replacing the second under its name, in 2 namespaces; the table sorted by a pod's own field or by a rate, the dashboard by readings; 4 messages or keys: drawn, moved while hidden, sorted or filtered otherwise, repaired (with the cpu column besides, 0.7 million states of this part were tried once). 3 clusters, 3 fetches, 5 keys or reports: a card left and reopened with a fetch on its way, under a filter. 2 visits. One name, replaced once, 2 dialogs: the result of the first against the second |
| `drain` (NodeDrain) | only validated pods are evicted, also if their names are reused; a complete drain leaves the node empty; the summary counts and explains what remains; every drain ends | 2 names with 2 UIDs each (one pod can be gone, one recreated, while the drain is at either), 1 retry (a second refusal ends it), channel of 1 (every send can block) |
| `drain_session` (DrainSession) | no drain runs unseen; the dialog tells of its own drain; a summary is final and arrives; the start handshake ends | 3 drains in a row and one focus change: messages of two older sessions against a new one |
| `probe_last_known`, `logs_tail`, `logs_all`, `table_sample` | findings 1 to 4 below | the component alone, with the bounds of its run or smaller |

Deadlock checking is off where the system may come to rest: a finished stream, a
stopped coordinator, an informer at its bound of events, callers with no calls
left, a drain that has ended, a screen at its bound of keys.  In `probe` it is on:
the loops never stop.

The type invariants of the modules with proofs are proved and not run again.
Every property of a passing run is paired in `PROJECT.json` with a mutant of a
modelled definition that violates it.

Several properties say one thing in named parts, each of which can be violated on
its own: `EndTruthful` (what was shown before the end, and the end after it),
`LogPaneTruthful`, `SlotKept` (neither the metrics nor the last known counts are
undone), `NetworkTruthful`, `ActionsAsConfirmed`, `MenuHonest`, `FleetTruthful` (the
details of the cards, and the filter given back), `StartRight`, `SummaryTruthful`
(it contains that a complete drain leaves the node empty, and `CountedGone`).

`RowsAccounted` names the two cases in which a row may stay although its object is
gone, because the code was not told: client-go reports an object replaced under its
name during a lost watch as one update, of which the handlers use the new half; and
an EndpointSlice that loses its service label is no longer forwarded.  Nothing else
leaves a row behind.

### Fairness

- EventDelivery: `WF(RunStep)` - a goroutine whose select has a ready case runs;
  `WF(Receive)` while the watch lives - the forwarder loops on receive.  Nothing is
  assumed of the informer.
- PodWatch adds weak fairness of "the cache has synced" (`WaitForCacheSync` polls).
- WatchCoordinator: bubbletea runs every command, goroutines are scheduled, an
  armed timer fires, and a select whose stop case stays ready takes it eventually.
  Focus changes, shutdown and forwarders have no fairness.
- ScopeResolution: goroutines are scheduled and the List ends by `ProbeTimeout`.
- LogStream: both goroutines are scheduled, and reopening returns (client
  timeouts).  Nothing promises that a connection breaks, that the container ends
  or that anybody writes.
- StartContext: the picking goroutine is scheduled and its deadline fires.  Taking
  the deadline has strong fairness: it is one case of a select next to a ticker,
  and select picks among ready cases at random.  Probes owe nothing.
- NodeDrain: the drain and its forwarder are scheduled, and `Cancel` happens,
  because `drainTimeout` bounds every drain.  The cluster owes nothing: pods need
  not terminate and calls need not succeed.
- DrainSession: bubbletea runs every command and handles every message.  `End` has
  strong fairness: each report a drain makes disables its end for a while, and a
  drain makes finitely many (`DrainEnds`).  Users owe nothing.

The MC modules repeat the fairness of their components with `part = ...` in each
action, so that a component that rests owes nothing; `CoordinatorConverges` is
WatchCoordinator's `Converges` asked of the behaviours in which it runs.

### Where the code and its words differ

1. `internal/cluster/probe.go:391` - the branch for a timed-out node list means to
   carry the last known count ("showing last known", line 403) and takes an empty
   server version to mean "No round has ever completed" (line 392).  A round that
   fails at `/version` commits an empty version and a node count of 0, so the next
   timed-out list shows "unknown" although earlier rounds did complete.  Run
   `probe_last_known`, property `ShowsLastKnown`.
2. `internal/cluster/logstream.go:281` - reconnects promise to resume "without
   replaying history" (lines 55-56), but the cursor knows only the lines it saw at
   its time stamp.  If the initial tail began between two lines of that very time
   stamp, the reconnect shows the older one after the newer.  Run `logs_tail`,
   property `NoHistoryReplayed`.  `logs` excludes such a tail, so that it
   speaks of the rest of the mechanism; `coordinator` has it, and
   `TakenAsWritten` is what holds all the same.

3. `internal/ui/logs.go:292` - opening the container picker already names its pod
   in `m.logs.ref`, and leaving it with esc over a dashboard keeps that name and the
   dashboard's stream.  L, which is to "Re-request the same pod and container with
   no tail limit" (line 379), then asks for the log of the other pod.  Run `logs_all`,
   property `AllOfTheSamePod`.  `LogPaneTruthful` excludes what follows from it by the
   history variable `strayed`.
4. `internal/ui/app.go:752` - a metrics snapshot is matched to rows by namespace and
   name without looking at the time of the sample, which is there "to reject
   pre-creation samples" (`internal/cluster/focusedmetrics.go:23`) and is used so only
   for samples that wait for their row.  A re-created pod can show the usage of its
   predecessor until the next sample.  Run `table_sample`, property
   `NoPreCreationSample`.

Met while modelling, and part of the models, but with no run of their own:
- `internal/cluster/projectwatch.go` says of the namespace and the project watcher
  that exactly one of the two emits; each asks the API on its own, so a failure may
  make both or neither emit (`StartWatcher`).
- The row under the cursor is to survive a visit of the fleet dashboard; a key typed
  into the dashboard's filter forgets it (`AfterFilterKey`).
- A replica count of 2^31 and more is checked before it is converted to 32 bits
  (`ToInt32`); the code says nothing of such a count.
- The remembered context is preferred only until the deadline; the last look treats
  all alike (`LastLook`), as the comment there says.

## 4. What is proved

The proofs hold for every value of the constants that meets the named
assumptions: bounds that are natural numbers, capacities that are positive, `None` and
markers outside the data, finite sets where the code has lists, and nodes and pods
numbered from one.  Each component's argument
has the same shape: an inductive invariant, stated in the component's module and
checked by TLC before it was proved, then `Init => Inv`, one lemma per action or
family of actions for the step, and the properties as its consequences.

**EventDelivery_proof** - `Invariance`: `Spec => []IndInv`, where `IndInv` adds to
the types (a) `SourceInv`: what was sent of a UID is not newer than its newest
event; (b) `QueueInv`: the queue holds every pending UID once, and its element is
the UID's newest event; (c) `FlightInv`: while `run` is unlocked the element it
copied is still at the front, and its version tells whether it was replaced; (d)
`KnownInv`: `known` agrees with what was sent, except between the send and its
record.  `NoLostUpdate` alone is not inductive: that `Delivered` may drop an
element needs (c), and that a deletion may be cancelled needs (d).  From it:
`TypeCorrect`, `NothingLost`, `MemoryBounded`.  `NoWakeupMissed` has its own small
induction (a token is left behind whenever the queue becomes non-empty).
- `NobodyStarves` (`NoStarvation`) needs `FairInv`: whoever was sent while u waited
  stands behind u now, which is what makes a second sending before u impossible.
- `Refinement`: `Spec => Refines`.  Every step of the queue is a `Change` or an
  `Apply` of ReplicatedView, or leaves its variables alone.  `Receive` is an `Apply`
  because of `OutInv`: the events of one UID in Out form a chain that starts where
  the consumer is, moves forward, shows a resource before its end is told, and ends
  with `sent`.

**PodWatch_proof** - `WatcherDelivers`: every PodWatch step is an EventDelivery step
or leaves the queue alone (only pods change, and the markers' UIDs are of no pod),
so the theorems above are theorems about the pod watcher, `WatcherRefines` among
them.  `SyncedIsLast` (`SyncedAfterInitial`) is about what was sent, not about what
was published, so `PodInv` follows each pod of the first list through the queue:
it is still owed, waits in the queue before the marker (`WaitInv`), or is in Out
before the marker or with the UI (`HeardInv`).
ScopeResolution: `OneCheckForAll` (`CallShared`) and `DecisionSticks` (`Sticky`), for
any number of callers, from `ScopeInv`: the call in progress is the newest one
(`FlightIsLatest`), who waits has joined a call, and once the answer is cached no
call asks the server any more.

**WatchCoordinator_proof** - `TypeCorrect`, `OneSetLives`, `OnlyCurrentRows` (each
focus change clears the tables and the gate admits only the current target) and
`NewestStarts` from the invariant that generations grow: `active` is not newer than
`latest`, and a pending target that is not superseded is `latest`.
ResourceWatch: `RowsAreAccounted` (`RowsAccounted`) speaks of a watcher with no event
on its way; `RowsInv` says the same of the rows as they will be: with the events on
their way applied they are those of the informer's cache, but for the objects whose
end the watcher was not told (section 3).
StartContext: `StartOpensWell` is the safety part of `StartRight`, for any contexts
and any number of launches and crashes, from `StartInv`. A last look that has passed
every context must have met each one that was healthy since the deadline; so while it
is under way each of these is still ahead of it (`SteadyInv`): reports come at any
point of the look, but take contexts from `steady` and never add one. That the start
reopens what was left needs that the file holds it (`LeftInv`), and that a start with
no excuse looks at nothing but its preferred context.

**ClusterProbe_proof** - `Invariance` of `IndInv`: `AccInv` (the accumulator shows
the newest sample or holds it back as the first that differs), `CountsInv` (what
the round has measured equals what was heard, what it has not come to is unchanged
in the slot) and `VerdictInv` (where the node verdict came from).  From it
`TypeCorrect`, `SlotIsKept`, `LastingStateShown`, and the action
properties `BlipsHidden`, `HealthIsEarned`, `TimeoutsFindNothing` - for any set of
signals and any counts.
- NetworkPoll: `NetworkIsTruthful` (`NetworkTruthful`), for any nodes and any pods, from
  `NetInv`.  That a rate on the screen is honest has to be carried from the sample
  (`SamplesInv`) through the channel (`OutHonest`) to the rows and their deadline
  (`DeadlineInv`), because the clock goes on at each place; that no node is passed over
  for ever is `CursorInv`: the turns a node was passed over bring the cursor
  closer by as many.  Traffic is a sum over the pods of a node; that such sums are
  defined and no greater term by term is proved by induction on the finite set,
  written as the absence of a smallest counterexample.
- TrustList: `TrustIsKept` (`ListKept`) from `CarriedInv`: a start carries every hash
  there is to lose until it renames what it wrote, unless it was asked to go on
  without a list it could not read.  `NamesAreDistinct` (`NamesDistinct`) is an argument
  about one call of `assignContextNames`: a name is chosen outside those taken, and
  fewer names are taken than there are numbered labels (`SomeFree`), so the loop that
  tries them ends.  It assumes that different numbers are written differently.

**Logs_proof** - LogStream, for any texts, limits, capacity and batch: `LogIsFollowed`
is the step simulation of TailedLog (a line the cursor accepts is the next of the
log, every other step a stutter), from `FollowInv`.  Its `CursorInv` fixes what the
cursor means: position, the time of the last line and, per text, the number of lines
seen at that time are the counts of the log up to there, and what an open stream
still has to skip is the count of what it will replay.  Counts are cardinalities of
sets of positions, so the proofs about them are about finite sets and not about
recursion.  `EndIsTruthful` (`EndTruthful`) adds `DrainInv` (an end counts as clean
only if nothing can follow), `RetryInv` (the failures counted are the reopenings
since the last new line), `PipelineInv` (what was taken is shown, in the batch or
in Out, in this order) and `SaidInv` (an error, then the end, are the last that is
said).  These two have the hypothesis `~TailSplitsTie`, which the code does not
guarantee (finding 2): without it the lines taken need not be one piece of the log.
`LinesAreTakenAsWritten` (`TakenAsWritten`) has no hypothesis.  Its `TakenInv` speaks
of one line at a time: what is older than the cursor's time is complete, and at that
time the count of lines seen is what was taken, and bounds what the open stream
has read and has yet to skip.
LogSession: `PaneIsTruthful` (`LogPaneTruthful`), for any pods and containers, from
`SessionInv`: session numbers are fresh, a stream that was not cancelled is the one
that viewer or dashboard holds, it was asked for with the pod they name, and a
retry that is owed is remembered.

LogBuffer: `ReadingIsSteady` (`ViewSteady`), for any lines, terms, capacity and viewport,
from `BufferInvariance`: after every step each line held has been searched
(`SearchedInv`), and the matches kept are those of a scan (`WindowExact`).  The matches
of a scan are a set put in order, so it is enough to know the set: after a batch it is
the old one without what was evicted, and the matches among the lines not searched yet
(`HitsGrow`), of which `RecomputeScans` shows that the kept sequence lists them.  That
the reader's place stays is an action property: whatever comes in, the line at the
bottom of the view is the same until it is evicted, and so is the match of n/N.

**Actions_proof** - ConfirmedAction: `ActsAsConfirmed` (`ActionsAsConfirmed`), for any
objects, dialogs and counts, from `ActInv`: a dialog that waits belongs to a request
with the same identity, arguments and object (`DialogOf`), and a request has done
exactly what its phase allows (`RequestOf`).
ActionMenu: `MenuIsHonest` (`MenuHonest`) from `MenuInv`: each check asked for is on
its way once, and what the kind of an open menu needs to know is known or asked
for, also where its entry is not among those offered.
FleetView: `FleetIsTruthful` (`FleetTruthful`) from `FleetInv`: whichever dashboard
borrowed the filter of the tables kept it (`BorrowedInv`), and no card is expanded on
another screen, so that leaving one never leaves a detail behind for the next.
`TabWorks` (`TabReachesAll`, which no run checks) needs only `FocusInv`.  Its argument
is by distance: `Away` counts
the rail downwards and round from where the focus began; each Tab goes to the
nearest cluster that is up, so after i of them all those nearer have been visited,
and as many as there are suffice (`TabVisits`, by the smallest counterexample).
PodTable: `TableIsExact` (`TableExact`), for any pods, names, ages, samples and
rates, from
`TableInv`: of a cached order only the rows not marked as moved are known, and it
is enough that these are in order among themselves and that no other row is missing
or too many (`OrderFits`); a cached count is of the rows there are although the
order may not be (`CountFits`).  `Unmoved` and `InvalidateKeeps` show that what
`invalidatePodOrder` marks is all that may have moved, and `TablesRight` that the
repair, which takes the marked rows out and merges them in, gives the sorted table.
DrainSession: `DrainsOwned`, `OwnProgress` and `SummaryIsFinal` from `OwnerInv`: the
dialog's session is the last one confirmed, all earlier sessions were cancelled, and
until its summary the dialog is on the screen.

**NodeDrain_proof** - `Invariance` of `SafetyInv`, from which `OnlyValidated` (an
evicted pod is one of the list, name and UID, and every pod of the list had passed
its check before the first eviction) and `CountedIsGone`.  Alone neither is
inductive: `DrainInv` adds that a UID is never used again and its pod keeps its
kind, so that a listed pod whose UID still matches is the one that was validated,
and that nothing was evicted before `Preflight` passed.
`SummaryIsTruthful` (`SummaryTruthful`), for any number of pods, from `SummaryInv`:
every candidate whose turn has come is waited for, counted or announced as blocked
and never two of these (`SplitInv`); once the candidates are listed, whatever has to
leave the node is one of them (`NodeInv`, which needs that the cordon came first);
and the events in the channel say so (`ChannelInv`).

**Ordered_proof** - the lemmas about sorting that these proofs share: every finite
set has one sequence in a given linear order (`SequenceLists`, `OneSequence`), what
that sequence is when the first elements are dropped or a later part is joined
(`IncreasingDropped`, `IncreasingJoined`), and least and greatest numbers of a finite set.
`OneSequence` is what lets a repaired order be compared with a sorted one: both list
the same set in the same order.  Where a count or an order would need induction over
a recursive definition, cardinalities of sets take its place.

Every invariant and every action property of the passing runs is a theorem. Five
theorems state what no passing run checks by that name: `NoWakeupMissed` is a part of
what `Converges` needs, `StartOpensWell` is the safety part of `StartRight`,
`LastingStateShown` follows from the accumulator's invariant, `CountedIsGone` is a
conjunct of `SummaryTruthful`, and `TabWorks` is arithmetic over a list of clusters that
needs no exploration of states.

Only model-checked: `Converges`, `CoordinatorConverges`, `SyncReachesUI`, `Returns`,
`StreamEnds`, `DrainEnds`, `SummaryArrives`, and of `StartRight` the part `StartEnds`.
They hold only under fairness, which brings in ENABLED; that is outside the
prover's reach.  So are the properties of the four runs that find a violation.

## 5. Plan

The components of section 1 are modelled but for those of section 6, and the safety
properties of all of them are proved.  What the code would still bear:
1. Two rows of PROJECT.json's hazards have no property: replica counts of 2^31 and
   more, of which nothing is promised, and the row forgotten by a visit of the fleet
   dashboard (section 3).
2. The caches of the tables other than pods, should they ever be repaired in place
   as the pod table is; TableInv would be the invariant to begin with.
3. Contexts side by side in ClusterProbe, should the Store come to share more
   between them than its lock.

## 6. Not modelled

- Rendering, layout, input editing, terminal sanitising, version and stderr: they
  are sequential formatting and I/O, and keep no state another part depends on.
- exec: the terminal is handed to a remote shell; raw mode, copying and the resize
  queue are terminal I/O.
- `internal/cluster/fleetdetail.go`: one sequential summary of three lists.  When its
  result arrives, and whether it is still wanted, is in FleetView.
- Two programs that save the trust list at the same time: they share one temporary
  file, and what they leave depends on the file system.
- Headless mode's printing and its counter of pod events.
- The caches of tables other than pods: they are dropped on every change and never
  repaired.
- client-go's informers, transport and rate limiting: modelled as the environment, by
  what the code relies on.
