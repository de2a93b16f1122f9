---------------------------- MODULE ClusterProbe ----------------------------
(***************************************************************************)
(* internal/cluster/probe.go and metrics.go: the two loops the Supervisor  *)
(* runs for one context, and the context's slot in model.Store.            *)
(*                                                                         *)
(* A probe round reads the slot, makes four kinds of API call, each under  *)
(* its own deadline, and commits what it measured; the metrics loop writes *)
(* its own fields of the same slot in between.  Every call may answer, be  *)
(* denied, fail or be abandoned, and the round treats these differently:   *)
(* an abandoned call is not a finding, so what it would have measured is   *)
(* carried from the slot.  Contexts share nothing but the Store's lock, so *)
(* one context is modelled.                                                *)
(***************************************************************************)
EXTENDS Integers

CONSTANTS Signals,    \* the workload signals: pods, deployments, events
          MaxCount,   \* bound on a measured count
          HintPinned  \* the kubeconfig context names a namespace

ASSUME MaxCountAssumption == MaxCount \in Nat
ASSUME HintAssumption == HintPinned \in BOOLEAN

Unknown == -1       \* "unknown": never measured, or denied
Measure == {Unknown} \cup 0..MaxCount
Abandoned == -2     \* the outcome of a call given up at its deadline

\* The supervisor never produces ReachConnecting.
Reach == {"unknown", "healthy", "degraded", "unreachable", "authFailed"}
Answering == {"healthy", "degraded"}

\* What a probe round owns in the slot: whether /version answered, the node
\* counts with the allocatable totals, the node health counts, the workload
\* signals and the pod total.
ProbeFields == [version : BOOLEAN, nodes : 0..MaxCount \cup {Unknown}, health : Measure,
                signal : [Signals -> Measure], total : Measure]

\* The slot: the probe's fields and the metrics loop's.
ClusterState == [reach : Reach, probe : ProbeFields, usage : Measure]

VARIABLES
  slot,    \* the context's entry in the Store
  acc,     \* its reachAccumulator
  scopes,  \* the cached scope: "unresolved", "cluster" or "namespace"
  ppc,     \* runOne: the call it is about to make, or "idle"
  prev,    \* probeOnce's prev
  pf,      \* probeOnce's pf
  seen,    \* res.Reach, then finalReach
  scoped,  \* scopedNS # ""
  mpc,     \* runMetricsLoop: "idle", "poll" or "call"
  heard,   \* history: the last conclusive answer to each question
  abandoned, \* history: which of the checks of nodes and pods the round gave up
  samples  \* history: the last two samples given to the accumulator

round == <<prev, pf, seen, scoped>>
vars == <<slot, acc, scopes, ppc, round, mpc, heard, abandoned, samples>>

\* NodeCount is the one count that NewProbeFields leaves at 0.
NewProbeFields ==
  [version |-> FALSE, nodes |-> 0, health |-> Unknown,
   signal |-> [s \in Signals |-> Unknown], total |-> Unknown]

NewAccumulator == [visible |-> "unknown", pending |-> "unknown", count |-> 0]

Seed == [reach |-> "unknown", probe |-> NewProbeFields, usage |-> 0]

\* Run seeds the slot before the loops start.
Init ==
  /\ slot = Seed
  /\ acc = NewAccumulator
  /\ scopes = "unresolved"
  /\ ppc = "idle" /\ prev = Seed /\ pf = NewProbeFields /\ seen = "unknown" /\ scoped = FALSE
  /\ mpc = "idle"
  /\ heard = [nodes |-> Unknown, health |-> Unknown, signal |-> NewProbeFields.signal,
              total |-> Unknown, usage |-> 0]
  /\ abandoned = {}
  /\ samples = <<"unknown", "unknown">>

-----------------------------------------------------------------------------
(* reachAccumulator.update and commit.                                     *)

Accept(reach) == [visible |-> reach, pending |-> reach, count |-> 0]

\* A wrong Demote: the run of equal samples is not restarted by a different one.
DemoteAnyTwo(a, reach) ==
  IF a.count + 1 >= 2 THEN Accept(reach)
  ELSE [a EXCEPT !.pending = reach, !.count = a.count + 1]

\* A sample worse than what is shown has to come twice in a row.
Demote(a, reach) ==
  LET count == IF reach = a.pending THEN a.count + 1 ELSE 1
  IN IF count >= 2 THEN Accept(reach) ELSE [a EXCEPT !.pending = reach, !.count = count]

Update(a, reach) ==
  IF a.visible = "unknown" \/ reach = "healthy" \/ reach = a.visible
  THEN Accept(reach)
  ELSE Demote(a, reach)

\* Between rounds probeOnce has no locals: they get their initial values back.
EndRound == prev' = Seed /\ pf' = NewProbeFields /\ seen' = "unknown" /\ scoped' = FALSE

\* A wrong ApplyProbe: Set with the snapshot the round began with.
ApplyProbeSnapshot(fields, reach) ==
  slot' = [prev EXCEPT !.reach = reach, !.probe = fields]

ApplyProbe(fields, reach) ==
  slot' = [slot EXCEPT !.reach = reach, !.probe = fields]

Commit(fields, reach) ==
  /\ acc' = Update(acc, reach)
  /\ ApplyProbe(fields, acc'.visible)
  /\ samples' = <<samples[2], reach>>
  /\ ppc' = "idle" /\ EndRound
  /\ UNCHANGED <<scopes, mpc>>

-----------------------------------------------------------------------------
(* probeOnce.                                                              *)

Begin ==
  /\ ppc = "idle"
  /\ ppc' = "version"
  /\ prev' = slot
  /\ pf' = NewProbeFields
  /\ abandoned' = {}
  /\ UNCHANGED <<slot, acc, scopes, seen, scoped, mpc, heard, samples>>

\* A wrong CarryHealth: nothing is carried.
CarryHealthNothing == pf

CarryHealth ==
  [pf EXCEPT !.health = prev.probe.health, !.signal = prev.probe.signal,
             !.total = prev.probe.total]

\* No client could be built, or /version failed: classify turns the error
\* into any of the three.
Abandon(reach) ==
  /\ ppc = "version"
  /\ Commit(CarryHealth, reach)
  /\ UNCHANGED <<heard, abandoned>>

Version ==
  /\ ppc = "version"
  /\ pf' = [pf EXCEPT !.version = TRUE]
  /\ ppc' = "scope"
  /\ UNCHANGED <<slot, acc, scopes, prev, seen, scoped, mpc, heard, abandoned, samples>>

\* ResolveScope: a definitive answer is cached; without one the hint serves
\* for this round.
ResolveScope ==
  /\ ppc = "scope"
  /\ ppc' = "nodes"
  /\ \/ scopes # "unresolved" /\ UNCHANGED scopes /\ scoped' = (scopes = "namespace")
     \/ /\ scopes = "unresolved"
        /\ \/ scopes' = "cluster" /\ scoped' = FALSE
           \/ scopes' = (IF HintPinned THEN "namespace" ELSE "cluster") /\ scoped' = HintPinned
           \/ UNCHANGED scopes /\ scoped' = HintPinned
  /\ UNCHANGED <<slot, acc, prev, pf, seen, mpc, heard, abandoned, samples>>

\* The parts every outcome of the node list has in common.
AfterNodes ==
  /\ ppc = "nodes"
  /\ ppc' = "signals"
  /\ UNCHANGED <<slot, acc, scopes, prev, scoped, mpc, samples>>

Nodes(n, pressured, allReady) ==
  /\ AfterNodes
  /\ ~scoped
  /\ pf' = [pf EXCEPT !.nodes = n, !.health = pressured]
  /\ seen' = IF n > 0 /\ allReady THEN "healthy" ELSE "degraded"
  /\ heard' = [heard EXCEPT !.nodes = n, !.health = pressured]
  /\ UNCHANGED abandoned

\* Denied, or an error that is not a timeout.
NodesFailed ==
  /\ AfterNodes
  /\ ~scoped
  /\ pf' = [pf EXCEPT !.nodes = Unknown]
  /\ seen' = "degraded"
  /\ UNCHANGED abandoned
  /\ heard' = [heard EXCEPT !.nodes = Unknown, !.health = Unknown]

\* A wrong NodesReach: the list's own Degraded stands.
NodesReachDegraded == "degraded"

NodesReach == IF prev.reach \in Answering THEN prev.reach ELSE "healthy"

NodesTimeout ==
  /\ AfterNodes
  /\ ~scoped
  /\ pf' = [pf EXCEPT !.nodes = IF prev.probe.version THEN prev.probe.nodes ELSE Unknown,
                      !.health = prev.probe.health]
  /\ seen' = NodesReach
  /\ abandoned' = {"nodes"}
  /\ UNCHANGED heard

NodesSkipped ==
  /\ AfterNodes
  /\ scoped
  /\ pf' = [pf EXCEPT !.nodes = Unknown]
  /\ seen' = "healthy"
  /\ UNCHANGED abandoned
  /\ heard' = [heard EXCEPT !.nodes = Unknown, !.health = Unknown]

\* probeWorkloadHealth: the three signals fail independently.
WorkloadHealth(outcome) ==
  /\ ppc = "signals"
  /\ ppc' = "pods"
  /\ LET conclusive(s, otherwise) == IF outcome[s] = Abandoned THEN otherwise ELSE outcome[s]
     IN /\ pf' = [pf EXCEPT !.signal =
                    [s \in Signals |-> conclusive(s, prev.probe.signal[s])]]
        /\ heard' = [heard EXCEPT !.signal =
                       [s \in Signals |-> conclusive(s, heard.signal[s])]]
  /\ UNCHANGED <<slot, acc, scopes, prev, seen, scoped, mpc, abandoned, samples>>

PodsVisible(n) ==
  /\ ppc = "pods"
  /\ heard' = [heard EXCEPT !.total = n]
  /\ UNCHANGED abandoned
  /\ Commit([pf EXCEPT !.total = n], seen)

PodsFailed ==
  /\ ppc = "pods"
  /\ heard' = [heard EXCEPT !.total = Unknown]
  /\ UNCHANGED abandoned
  /\ Commit(pf, "degraded")

\* A wrong PodsReach: the node result stands.
PodsReachFromNodes == seen

PodsReach == IF prev.reach = "degraded" THEN "degraded" ELSE seen

PodsTimeout ==
  /\ ppc = "pods"
  /\ Commit([pf EXCEPT !.total = prev.probe.total], PodsReach)
  /\ abandoned' = abandoned \cup {"pods"}
  /\ UNCHANGED heard

-----------------------------------------------------------------------------
(* runMetricsLoop and pollMetricsOnce.                                     *)

\* The loop wakes; metricsInterval has passed since the last poll.
Wake ==
  /\ mpc = "idle" /\ slot.reach \in Answering
  /\ mpc' = "poll"
  /\ UNCHANGED <<slot, acc, scopes, ppc, round, heard, abandoned, samples>>

\* The slot is read again; the clients are built, or not.
Poll ==
  /\ mpc = "poll"
  /\ mpc' \in (IF slot.reach \in Answering THEN {"call", "idle"} ELSE {"idle"})
  /\ UNCHANGED <<slot, acc, scopes, ppc, round, heard, abandoned, samples>>

\* A failed list is applied as "not available".
ApplyMetrics(u) ==
  /\ mpc = "call"
  /\ mpc' = "idle"
  /\ slot' = [slot EXCEPT !.usage = u]
  /\ heard' = [heard EXCEPT !.usage = u]
  /\ UNCHANGED <<acc, scopes, ppc, round, abandoned, samples>>

-----------------------------------------------------------------------------
Probe ==
  \/ Begin
  \/ \E reach \in {"authFailed", "unreachable", "degraded"} : Abandon(reach)
  \/ Version
  \/ ResolveScope
  \/ \E n \in 0..MaxCount, pressured \in 0..MaxCount, allReady \in BOOLEAN :
       pressured <= n /\ Nodes(n, pressured, allReady)
  \/ NodesFailed \/ NodesTimeout \/ NodesSkipped
  \/ \E outcome \in [Signals -> Measure \cup {Abandoned}] : WorkloadHealth(outcome)
  \/ \E n \in Measure : PodsVisible(n)
  \/ PodsFailed \/ PodsTimeout

Metrics == Wake \/ Poll \/ \E u \in Measure : ApplyMetrics(u)

Next == Probe \/ Metrics

Spec == Init /\ [][Next]_vars

-----------------------------------------------------------------------------
TypeOK ==
  /\ slot \in ClusterState /\ prev \in ClusterState /\ pf \in ProbeFields
  /\ acc \in [visible : Reach, pending : Reach, count : 0..1]
  /\ scopes \in {"unresolved", "cluster", "namespace"}
  /\ ppc \in {"idle", "version", "scope", "nodes", "signals", "pods"}
  /\ seen \in Reach /\ scoped \in BOOLEAN
  /\ mpc \in {"idle", "poll", "call"}
  /\ heard \in [nodes : Measure, health : Measure, signal : [Signals -> Measure],
                total : Measure, usage : Measure]
  /\ abandoned \subseteq {"nodes", "pods"} /\ samples \in Reach \X Reach

\* A slow probe round never undoes what the metrics loop wrote meanwhile:
\* the slot always shows the newest answer of the metrics server.
MetricsCurrent == slot.usage = heard.usage

\* Two equal samples decide what is shown, so a lasting state is never hidden.
TwoSamplesDecide == samples[1] = samples[2] => slot.reach = samples[2]

\* One bad sample is never shown once the cluster is known: what is shown
\* changes only to Healthy or to what the last two rounds agree on.
BlipHidden ==
  [][slot'.reach # slot.reach /\ slot.reach # "unknown" /\ slot'.reach # "healthy"
     => samples' = <<slot'.reach, slot'.reach>>]_vars

\* Health counts survive the rounds that could not measure them: a count in
\* the slot is the last conclusive answer, and "unknown" is never replaced by
\* a zero nobody measured.
LastKnownKept ==
  ppc = "idle" => /\ slot.probe.health = heard.health
                  /\ slot.probe.signal = heard.signal
                  /\ slot.probe.total = heard.total

\* The two writers of a slot together: a round keeps what it did not measure,
\* whether the metrics loop wrote it meanwhile or an earlier round found it.
SlotKept == MetricsCurrent /\ LastKnownKept

\* A timeout is not a clean bill of health: a degraded cluster is shown as
\* Healthy only by a round that abandoned neither its node list nor its pod
\* check and, if the context may list nodes, found some.
HealthEarned ==
  [][slot.reach = "degraded" /\ slot'.reach = "healthy"
     => abandoned' = {} /\ (scoped \/ pf.nodes > 0)]_vars

\* Nor is it a finding: a round whose node list and pod check were abandoned
\* leaves what is shown and does not count towards a change of it.
TimeoutNoFinding ==
  [][PodsTimeout /\ "nodes" \in abandoned /\ slot.reach \in Answering
     => slot'.reach = slot.reach /\ acc'.count = 0]_vars

\* "Node list timed out; showing last known": the node count a timed-out list
\* leaves is the last conclusive one, unknown only if there never was one.
ShowsLastKnown == [][NodesTimeout => pf'.nodes = heard.nodes]_vars
-----------------------------------------------------------------------------
(* The strengthening that makes the properties inductive.                  *)

\* The accumulator either shows the newest sample, or holds it back as a first
\* one that differs from what is shown.
AccInv ==
  /\ slot.reach = acc.visible
  /\ \/ acc = Accept(samples[2])
     \/ /\ acc = [visible |-> acc.visible, pending |-> samples[2], count |-> 1]
        /\ acc.visible \notin {"unknown", samples[2]}
        /\ samples[1] # samples[2]

\* What a round has measured so far is what was heard; what it has not come
\* to is still unknown in pf and as heard before in the slot.
CountsInv ==
  /\ ppc # "idle" => prev.probe = slot.probe /\ prev.reach = slot.reach
  /\ ppc \in {"version", "scope", "nodes"} => pf.health = Unknown
  /\ ppc \in {"signals", "pods"} => pf.health = heard.health
  /\ ppc \notin {"signals", "pods"} => slot.probe.health = heard.health
  /\ ppc = "pods" => pf.signal = heard.signal
  /\ ppc # "pods" => slot.probe.signal = heard.signal
  /\ slot.probe.total = heard.total
  /\ ppc # "idle" => pf.total = Unknown

\* Where the verdict of the node list comes from.
VerdictInv ==
  /\ ppc \in {"version", "scope", "nodes"} => abandoned = {}
  /\ ppc \in {"signals", "pods"} =>
       \/ abandoned = {} /\ seen = "healthy" /\ (scoped \/ pf.nodes > 0)
       \/ abandoned = {} /\ seen = "degraded"
       \/ abandoned = {"nodes"} /\ seen = NodesReach

IndInv == TypeOK /\ MetricsCurrent /\ AccInv /\ CountsInv /\ VerdictInv
=============================================================================
