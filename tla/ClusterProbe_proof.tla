-------------------------- MODULE ClusterProbe_proof --------------------------
(***************************************************************************)
(* Proofs about what is learnt in the background and then relied on: the   *)
(* probe loop (ClusterProbe) for every set of signals and every bound on   *)
(* counts, the focused network poll (NetworkPoll) for any number of nodes  *)
(* and any pods, and the list of accepted kubeconfigs (TrustList) for any  *)
(* files and contents.                                                     *)
(*                                                                         *)
(* IndInv is inductive for the probe: AccInv ties the accumulator to the   *)
(* last two samples, CountsInv says which counts a round has replaced at   *)
(* each of its steps, VerdictInv where the verdict it is about to commit   *)
(* comes from.  NetInv is inductive for the poll: no sample is newer than  *)
(* the clock or ahead of its counter, every rate is at most the most there *)
(* was, on its way and shown, and the deadline on screen is no later than  *)
(* that of any rate shown.  TrustInv is inductive for the list: a start    *)
(* carries every hash there is to lose until it renames what it wrote.     *)
(* The names of the contexts it finds are distinct when it has them.       *)
(***************************************************************************)
EXTENDS ClusterProbe, NetworkPoll, TrustList, Ordered_proof

\* The reachability and accumulator types, named for the proofs.
Accumulator == [visible : Reach, pending : Reach, count : 0..1]

\* The heard counts, likewise.
Heard == [nodes : Measure, health : Measure, signal : [Signals -> Measure],
          total : Measure, usage : Measure]

\* The fields a round starts from are of their type.
LEMMA SeedType == NewProbeFields \in ProbeFields /\ Seed \in ClusterState
<1>1. [s \in Signals |-> Unknown] \in [Signals -> Measure]
  BY DEF Measure
<1>2. 0 \in 0..MaxCount
  BY MaxCountAssumption
<1>3. NewProbeFields \in ProbeFields
  BY <1>1, <1>2 DEF NewProbeFields, ProbeFields, Measure
<1> QED
  BY <1>2, <1>3 DEF Seed, ClusterState, Reach, Measure

\* update keeps the accumulator tied to the samples: it shows the new sample
\* or holds it back as the first that differs.
LEMMA UpdateKeepsAcc ==
  ASSUME NEW reach \in Reach \ {"unknown"}, AccInv, acc \in Accumulator,
         samples \in Reach \X Reach, NEW a, a = Update(acc, reach)
  PROVE  /\ a \in Accumulator
         /\ \/ a = Accept(reach)
            \/ /\ a = [visible |-> acc.visible, pending |-> reach, count |-> 1]
               /\ acc.visible \notin {"unknown", reach}
               /\ samples[2] # reach
         /\ a.visible # acc.visible /\ acc.visible # "unknown" /\ reach # "healthy"
              => samples[2] = reach
<1>1. samples[2] \in Reach /\ acc.visible \in Reach
  BY DEF Accumulator
<1>2. Accept(reach) \in Accumulator /\ Accept(reach).visible = reach
  BY DEF Accept, Accumulator
<1>3. CASE acc.visible = "unknown" \/ reach = "healthy" \/ reach = acc.visible
  <2>1. a = Accept(reach)
    BY <1>3 DEF Update
  <2> QED
    BY <2>1, <1>2, <1>3
<1>4. CASE ~(acc.visible = "unknown" \/ reach = "healthy" \/ reach = acc.visible)
  <2>1. a = Demote(acc, reach)
    BY <1>4 DEF Update
  <2>2. CASE acc = Accept(samples[2])
    <3>1. acc.pending = samples[2] /\ acc.count = 0 /\ acc.visible = samples[2]
      BY <2>2 DEF Accept
    <3>2. reach # acc.pending /\ reach # samples[2]
      BY <3>1, <1>4
    <3>3. a = [acc EXCEPT !.pending = reach, !.count = 1]
      BY <2>1, <3>2 DEF Demote
    <3>4. a = [visible |-> acc.visible, pending |-> reach, count |-> 1]
      BY <3>3 DEF Accumulator
    <3> QED
      BY <3>2, <3>4, <1>4 DEF Accumulator
  <2>3. CASE acc = [visible |-> acc.visible, pending |-> samples[2], count |-> 1]
    <3>1. acc.pending = samples[2] /\ acc.count = 1
      BY <2>3
    <3>2. CASE reach = samples[2]
      <4>1. a = Accept(reach)
        BY <2>1, <3>1, <3>2 DEF Demote
      <4> QED
        BY <4>1, <1>2, <3>2
    <3>3. CASE reach # samples[2]
      <4>1. a = [acc EXCEPT !.pending = reach, !.count = 1]
        BY <2>1, <3>1, <3>3 DEF Demote
      <4>2. a = [visible |-> acc.visible, pending |-> reach, count |-> 1]
        BY <4>1 DEF Accumulator
      <4> QED
        BY <4>2, <3>3, <1>4 DEF Accumulator
    <3> QED
      BY <3>2, <3>3
  <2> QED
    BY <2>2, <2>3 DEF AccInv
<1> QED
  BY <1>3, <1>4

\* What a commit writes, and that it keeps the accumulator's invariant.
LEMMA CommitEffect ==
  ASSUME TypeOK, AccInv, NEW fields \in ProbeFields, NEW reach \in Reach \ {"unknown"},
         Commit(fields, reach)
  PROVE  /\ slot' \in ClusterState
         /\ slot'.probe = fields /\ slot'.usage = slot.usage
         /\ acc' \in Accumulator /\ samples' = <<samples[2], reach>>
         /\ samples' \in Reach \X Reach
         /\ AccInv'
         /\ slot'.reach # slot.reach /\ slot.reach # "unknown" /\ reach # "healthy"
              => samples[2] = reach
<1>1. acc \in Accumulator /\ samples \in Reach \X Reach /\ slot \in ClusterState
  BY DEF TypeOK, Accumulator
<1>2. acc' = Update(acc, reach) /\ samples' = <<samples[2], reach>>
  BY DEF Commit
<1>3. /\ acc' \in Accumulator
      /\ \/ acc' = Accept(reach)
         \/ /\ acc' = [visible |-> acc.visible, pending |-> reach, count |-> 1]
            /\ acc.visible \notin {"unknown", reach}
            /\ samples[2] # reach
      /\ acc'.visible # acc.visible /\ acc.visible # "unknown" /\ reach # "healthy"
           => samples[2] = reach
  BY <1>1, <1>2, UpdateKeepsAcc
<1>4. acc'.visible \in Reach
  BY <1>3 DEF Accumulator
<1>5. slot' = [slot EXCEPT !.reach = acc'.visible, !.probe = fields]
  BY DEF Commit, ApplyProbe
<1>6. /\ slot' \in ClusterState /\ slot'.reach = acc'.visible
      /\ slot'.probe = fields /\ slot'.usage = slot.usage
  BY <1>1, <1>4, <1>5 DEF ClusterState
<1>7. samples' \in Reach \X Reach /\ samples'[1] = samples[2] /\ samples'[2] = reach
  BY <1>1, <1>2
<1>8. AccInv'
  BY <1>3, <1>6, <1>7 DEF AccInv, Accept
<1> QED
  BY <1>2, <1>3, <1>6, <1>7, <1>8 DEF AccInv

-----------------------------------------------------------------------------
LEMMA InitInv == Init => IndInv
<1> SUFFICES ASSUME Init PROVE IndInv
  OBVIOUS
<1> USE DEF Init
<1>1. TypeOK
  <2>1. heard \in Heard
    <3>1. NewProbeFields.signal \in [Signals -> Measure]
      BY DEF NewProbeFields, Measure
    <3>2. 0 \in Measure /\ Unknown \in Measure
      BY MaxCountAssumption DEF Measure
    <3> QED
      BY <3>1, <3>2 DEF Heard
  <2>2. acc \in [visible : Reach, pending : Reach, count : 0..1]
    BY DEF NewAccumulator, Reach
  <2>3. seen \in Reach /\ scoped \in BOOLEAN /\ samples \in Reach \X Reach
    BY DEF Reach
  <2> QED
    BY <2>1, <2>2, <2>3, SeedType DEF TypeOK, Heard
<1>2. MetricsCurrent
  BY DEF MetricsCurrent, Seed
<1>3. AccInv
  BY DEF AccInv, Accept, NewAccumulator, Seed
<1>4. CountsInv
  BY DEF CountsInv, Seed, NewProbeFields
<1>5. VerdictInv
  BY DEF VerdictInv
<1> QED
  BY <1>1, <1>2, <1>3, <1>4, <1>5 DEF IndInv

\* Each of the steps below that ends a round: the three ways to commit.
LEMMA CommitKeeps ==
  ASSUME IndInv, NEW fields \in ProbeFields, NEW reach \in Reach \ {"unknown"},
         Commit(fields, reach), heard' \in Heard, heard'.usage = heard.usage,
         abandoned' \subseteq {"nodes", "pods"},
         fields.health = heard'.health, fields.signal = heard'.signal,
         fields.total = heard'.total
  PROVE  IndInv'
<1>1. TypeOK /\ AccInv /\ MetricsCurrent
  BY DEF IndInv
<1>2. /\ slot' \in ClusterState
      /\ slot'.probe = fields /\ slot'.usage = slot.usage
      /\ acc' \in Accumulator /\ samples' \in Reach \X Reach
      /\ AccInv'
  BY <1>1, CommitEffect
<1>3. /\ ppc' = "idle" /\ prev' = Seed /\ pf' = NewProbeFields /\ seen' = "unknown"
      /\ scoped' = FALSE /\ scopes' = scopes /\ mpc' = mpc
  BY DEF Commit, EndRound
<1>4. TypeOK'
  BY <1>1, <1>2, <1>3, SeedType DEF TypeOK, Accumulator, Heard, Reach
<1>5. MetricsCurrent'
  BY <1>1, <1>2 DEF MetricsCurrent
<1>6. CountsInv'
  BY <1>2, <1>3 DEF CountsInv
<1>7. VerdictInv'
  BY <1>3 DEF VerdictInv
<1> QED
  BY <1>2, <1>4, <1>5, <1>6, <1>7 DEF IndInv

\* What every outcome of the node list has to show.
LEMMA NodesKeep ==
  ASSUME IndInv, AfterNodes, pf' \in ProbeFields, heard' \in Heard, seen' \in Reach,
         heard'.usage = heard.usage, heard'.signal = heard.signal,
         heard'.total = heard.total, pf'.health = heard'.health, pf'.total = pf.total,
         \/ abandoned' = {} /\ seen' = "healthy" /\ (scoped' \/ pf'.nodes > 0)
         \/ abandoned' = {} /\ seen' = "degraded"
         \/ abandoned' = {"nodes"} /\ seen' = NodesReach'
  PROVE  IndInv'
<1> USE DEF AfterNodes
<1>0. TypeOK /\ MetricsCurrent /\ AccInv /\ CountsInv
  BY DEF IndInv
<1>1. TypeOK'
  BY <1>0 DEF TypeOK, Heard
<1>2. MetricsCurrent' /\ AccInv'
  BY <1>0 DEF MetricsCurrent, AccInv
<1>3. CountsInv'
  BY <1>0 DEF CountsInv
<1>4. VerdictInv'
  BY DEF VerdictInv
<1> QED
  BY <1>1, <1>2, <1>3, <1>4 DEF IndInv

\* Every step of the two loops keeps the invariant.
LEMMA StepInv == IndInv /\ [Next]_vars => IndInv'
<1> SUFFICES ASSUME IndInv, [Next]_vars PROVE IndInv'
  OBVIOUS
<1>0. TypeOK /\ MetricsCurrent /\ AccInv /\ CountsInv /\ VerdictInv
  BY DEF IndInv
<1>a. /\ slot \in ClusterState /\ prev \in ClusterState /\ pf \in ProbeFields
      /\ heard \in Heard /\ seen \in Reach
  BY <1>0 DEF TypeOK, Heard
<1>b. slot.probe \in ProbeFields /\ prev.probe \in ProbeFields
  BY <1>a DEF ClusterState
<1>1. CASE Begin
  <2> USE <1>1 DEF Begin
  <2>1. TypeOK'
    BY <1>0, <1>a, SeedType DEF TypeOK
  <2>2. MetricsCurrent' /\ AccInv'
    BY <1>0 DEF MetricsCurrent, AccInv
  <2>3. CountsInv'
    BY <1>0 DEF CountsInv, NewProbeFields
  <2>4. VerdictInv'
    BY DEF VerdictInv
  <2> QED
    BY <2>1, <2>2, <2>3, <2>4 DEF IndInv
<1>2. ASSUME NEW reach \in {"authFailed", "unreachable", "degraded"}, Abandon(reach)
      PROVE  IndInv'
  <2> USE <1>2 DEF Abandon
  <2>1. CarryHealth \in ProbeFields
    BY <1>a, <1>b DEF CarryHealth, ProbeFields
  <2>2. /\ CarryHealth.health = prev.probe.health /\ CarryHealth.signal = prev.probe.signal
        /\ CarryHealth.total = prev.probe.total
    BY <1>a DEF CarryHealth, ProbeFields
  <2>3. /\ CarryHealth.health = heard.health /\ CarryHealth.signal = heard.signal
        /\ CarryHealth.total = heard.total
    BY <1>0, <2>2 DEF CountsInv
  <2>4. abandoned' \subseteq {"nodes", "pods"} /\ heard' = heard
    BY <1>0 DEF TypeOK
  <2>5. reach \in Reach \ {"unknown"}
    BY DEF Reach
  <2> QED
    BY <1>a, <2>1, <2>3, <2>4, <2>5, CommitKeeps
<1>3. CASE Version
  <2> USE <1>3 DEF Version
  <2>1. pf' \in ProbeFields /\ pf'.health = pf.health /\ pf'.total = pf.total
    BY <1>a DEF ProbeFields
  <2>2. TypeOK'
    BY <1>0, <2>1 DEF TypeOK
  <2>3. MetricsCurrent' /\ AccInv'
    BY <1>0 DEF MetricsCurrent, AccInv
  <2>4. CountsInv'
    BY <1>0, <2>1 DEF CountsInv
  <2>5. VerdictInv'
    BY <1>0 DEF VerdictInv
  <2> QED
    BY <2>2, <2>3, <2>4, <2>5 DEF IndInv
<1>4. CASE ResolveScope
  <2> USE <1>4 DEF ResolveScope
  <2>1. TypeOK'
    BY <1>0, HintAssumption DEF TypeOK
  <2>2. MetricsCurrent' /\ AccInv'
    BY <1>0 DEF MetricsCurrent, AccInv
  <2>3. CountsInv'
    BY <1>0 DEF CountsInv
  <2>4. VerdictInv'
    BY <1>0 DEF VerdictInv
  <2> QED
    BY <2>1, <2>2, <2>3, <2>4 DEF IndInv
<1>5. ASSUME NEW n \in 0..MaxCount, NEW pressured \in 0..MaxCount, NEW allReady \in BOOLEAN,
             Nodes(n, pressured, allReady)
      PROVE  IndInv'
  <2> USE <1>5 DEF Nodes
  <2>1. n \in Measure /\ pressured \in Measure
    BY DEF Measure
  <2>2. /\ pf' \in ProbeFields /\ pf'.health = pressured /\ pf'.total = pf.total
        /\ pf'.nodes = n
    BY <1>a, <2>1 DEF ProbeFields
  <2>3. /\ heard' \in Heard /\ heard'.usage = heard.usage /\ heard'.health = pressured
        /\ heard'.signal = heard.signal /\ heard'.total = heard.total
    BY <1>a, <2>1 DEF Heard
  <2>4. abandoned' = {} /\ seen' \in {"healthy", "degraded"} /\ (seen' = "healthy" => n > 0)
    BY <1>0 DEF VerdictInv, AfterNodes
  <2> QED
    BY <2>2, <2>3, <2>4, NodesKeep DEF Reach
<1>6. CASE NodesFailed
  <2> USE <1>6 DEF NodesFailed
  <2>1. Unknown \in Measure /\ pf.health = Unknown
    BY <1>0 DEF Measure, CountsInv, AfterNodes
  <2>2. pf' \in ProbeFields /\ pf'.health = Unknown /\ pf'.total = pf.total
    BY <1>a, <2>1 DEF ProbeFields
  <2>3. /\ heard' \in Heard /\ heard'.usage = heard.usage /\ heard'.health = Unknown
        /\ heard'.signal = heard.signal /\ heard'.total = heard.total
    BY <1>a, <2>1 DEF Heard
  <2>4. abandoned' = {} /\ seen' = "degraded"
    BY <1>0 DEF VerdictInv, AfterNodes
  <2> QED
    BY <2>2, <2>3, <2>4, NodesKeep DEF Reach
<1>7. CASE NodesTimeout
  <2> USE <1>7 DEF NodesTimeout
  <2>1. /\ pf' \in ProbeFields /\ pf'.health = prev.probe.health /\ pf'.total = pf.total
    BY <1>a, <1>b DEF ProbeFields, Measure
  <2>2. prev.probe.health = heard.health
    BY <1>0 DEF CountsInv, AfterNodes
  <2>3. abandoned' = {"nodes"} /\ seen' = NodesReach /\ NodesReach' = NodesReach
    BY DEF AfterNodes, NodesReach
  <2>4. seen' \in Reach
    BY <2>3, <1>a DEF NodesReach, Answering, Reach
  <2> QED
    BY <1>a, <2>1, <2>2, <2>3, <2>4, NodesKeep
<1>8. CASE NodesSkipped
  <2> USE <1>8 DEF NodesSkipped
  <2>1. Unknown \in Measure /\ pf.health = Unknown
    BY <1>0 DEF Measure, CountsInv, AfterNodes
  <2>2. pf' \in ProbeFields /\ pf'.health = Unknown /\ pf'.total = pf.total
    BY <1>a, <2>1 DEF ProbeFields
  <2>3. /\ heard' \in Heard /\ heard'.usage = heard.usage /\ heard'.health = Unknown
        /\ heard'.signal = heard.signal /\ heard'.total = heard.total
    BY <1>a, <2>1 DEF Heard
  <2>4. abandoned' = {} /\ seen' = "healthy" /\ scoped'
    BY <1>0 DEF VerdictInv, AfterNodes
  <2> QED
    BY <2>2, <2>3, <2>4, NodesKeep DEF Reach
<1>9. ASSUME NEW outcome \in [Signals -> Measure \cup {Abandoned}], WorkloadHealth(outcome)
      PROVE  IndInv'
  <2> USE <1>9 DEF WorkloadHealth
  <2> DEFINE news == [s \in Signals |-> IF outcome[s] = Abandoned THEN prev.probe.signal[s]
                                        ELSE outcome[s]]
  <2>1. prev.probe.signal = heard.signal /\ pf.health = heard.health
    BY <1>0 DEF CountsInv
  <2>2. news \in [Signals -> Measure]
    BY <1>b DEF ProbeFields
  <2>3. pf' = [pf EXCEPT !.signal = news] /\ heard' = [heard EXCEPT !.signal = news]
    BY <2>1
  <2> HIDE DEF news
  <2>4. /\ pf' \in ProbeFields /\ pf'.signal = news /\ pf'.health = pf.health
        /\ pf'.total = pf.total /\ pf'.nodes = pf.nodes
    BY <1>a, <2>2, <2>3 DEF ProbeFields
  <2>5. /\ heard' \in Heard /\ heard'.signal = news /\ heard'.health = heard.health
        /\ heard'.total = heard.total /\ heard'.usage = heard.usage
    BY <1>a, <2>2, <2>3 DEF Heard
  <2>6. TypeOK'
    BY <1>0, <2>4, <2>5 DEF TypeOK, Heard
  <2>7. MetricsCurrent' /\ AccInv'
    BY <1>0, <2>5 DEF MetricsCurrent, AccInv
  <2>8. CountsInv'
    BY <1>0, <2>1, <2>4, <2>5 DEF CountsInv
  <2>9. VerdictInv'
    BY <1>0, <2>4 DEF VerdictInv, NodesReach
  <2> QED
    BY <2>6, <2>7, <2>8, <2>9 DEF IndInv
<1>10. ASSUME NEW n \in Measure, PodsVisible(n)
       PROVE  IndInv'
  <2> USE <1>10 DEF PodsVisible
  <2> DEFINE fields == [pf EXCEPT !.total = n]
  <2>1. /\ fields \in ProbeFields /\ fields.health = pf.health /\ fields.signal = pf.signal
        /\ fields.total = n
    BY <1>a DEF ProbeFields
  <2>2. /\ heard' \in Heard /\ heard'.usage = heard.usage /\ heard'.health = heard.health
        /\ heard'.signal = heard.signal /\ heard'.total = n
    BY <1>a DEF Heard
  <2>3. Commit(fields, seen) /\ seen \in Reach \ {"unknown"}
    BY <1>0 DEF VerdictInv, NodesReach, Answering, Reach
  <2>4. pf.health = heard.health /\ pf.signal = heard.signal /\ abandoned' \subseteq {"nodes", "pods"}
    BY <1>0 DEF CountsInv, TypeOK
  <2> HIDE DEF fields
  <2> QED
    BY <2>1, <2>2, <2>3, <2>4, CommitKeeps
<1>11. CASE PodsFailed
  <2> USE <1>11 DEF PodsFailed
  <2>1. /\ heard' \in Heard /\ heard'.usage = heard.usage /\ heard'.health = heard.health
        /\ heard'.signal = heard.signal /\ heard'.total = Unknown
    BY <1>a DEF Heard, Measure
  <2>2. /\ pf.health = heard.health /\ pf.signal = heard.signal /\ pf.total = Unknown
        /\ abandoned' \subseteq {"nodes", "pods"}
    BY <1>0 DEF CountsInv, TypeOK
  <2>3. "degraded" \in Reach \ {"unknown"}
    BY DEF Reach
  <2> QED
    BY <1>a, <2>1, <2>2, <2>3, CommitKeeps
<1>12. CASE PodsTimeout
  <2> USE <1>12 DEF PodsTimeout
  <2> DEFINE fields == [pf EXCEPT !.total = prev.probe.total]
  <2>1. /\ fields \in ProbeFields /\ fields.health = pf.health /\ fields.signal = pf.signal
        /\ fields.total = prev.probe.total
    BY <1>a, <1>b DEF ProbeFields
  <2>2. /\ pf.health = heard.health /\ pf.signal = heard.signal
        /\ prev.probe.total = heard.total
        /\ abandoned' \subseteq {"nodes", "pods"}
    BY <1>0 DEF CountsInv, TypeOK
  <2>3. Commit(fields, PodsReach) /\ PodsReach \in Reach \ {"unknown"}
    BY <1>0 DEF VerdictInv, NodesReach, PodsReach, Answering, Reach
  <2> HIDE DEF fields
  <2> QED
    BY <1>a, <2>1, <2>2, <2>3, CommitKeeps
<1>13. CASE Wake \/ Poll
  <2> USE <1>13 DEF Wake, Poll, round
  <2>1. TypeOK'
    BY <1>0 DEF TypeOK
  <2>2. MetricsCurrent' /\ AccInv' /\ CountsInv' /\ VerdictInv'
    BY <1>0 DEF MetricsCurrent, AccInv, CountsInv, VerdictInv, NodesReach
  <2> QED
    BY <2>1, <2>2 DEF IndInv
<1>14. ASSUME NEW u \in Measure, ApplyMetrics(u)
       PROVE  IndInv'
  <2> USE <1>14 DEF ApplyMetrics, round
  <2>1. /\ slot' \in ClusterState /\ slot'.usage = u /\ slot'.reach = slot.reach
        /\ slot'.probe = slot.probe
    BY <1>a DEF ClusterState
  <2>2. /\ heard' \in Heard /\ heard'.usage = u /\ heard'.health = heard.health
        /\ heard'.signal = heard.signal /\ heard'.total = heard.total
    BY <1>a DEF Heard
  <2>3. TypeOK'
    BY <1>0, <2>1, <2>2 DEF TypeOK, Heard
  <2>4. MetricsCurrent'
    BY <2>1, <2>2 DEF MetricsCurrent
  <2>5. AccInv'
    BY <1>0, <2>1 DEF AccInv
  <2>6. CountsInv'
    BY <1>0, <2>1, <2>2 DEF CountsInv
  <2>7. VerdictInv'
    BY <1>0 DEF VerdictInv, NodesReach
  <2> QED
    BY <2>3, <2>4, <2>5, <2>6, <2>7 DEF IndInv
<1>15. CASE UNCHANGED vars
  <2>1. TypeOK'
    BY <1>0, <1>15 DEF TypeOK, vars, round
  <2>2. MetricsCurrent' /\ AccInv' /\ CountsInv' /\ VerdictInv'
    BY <1>0, <1>15 DEF MetricsCurrent, AccInv, CountsInv, VerdictInv, NodesReach, vars, round
  <2> QED
    BY <2>1, <2>2 DEF IndInv
<1> QED
  BY <1>1, <1>2, <1>3, <1>4, <1>5, <1>6, <1>7, <1>8, <1>9, <1>10, <1>11, <1>12, <1>13,
     <1>14, <1>15 DEF Next, Probe, Metrics

-----------------------------------------------------------------------------
(* The theorems.                                                           *)

\* The strengthened invariant holds in every reachable state.
THEOREM Invariance == Spec => []IndInv
<1>1. Init => IndInv
  BY InitInv
<1>2. IndInv /\ [Next]_vars => IndInv'
  BY StepInv
<1> QED
  BY <1>1, <1>2, PTL DEF Spec

\* Slot, accumulator and round state keep their types.
THEOREM TypeCorrect == Spec => []TypeOK
<1>1. IndInv => TypeOK
  BY DEF IndInv
<1> QED
  BY <1>1, Invariance, PTL

\* The slot always shows the newest answer of the metrics server, however
\* long the probe round that commits beside it took, and health counts always
\* are the last conclusive answers.
THEOREM SlotIsKept == Spec => []SlotKept
<1>1. IndInv => SlotKept
  BY DEF IndInv, CountsInv, LastKnownKept, SlotKept
<1> QED
  BY <1>1, Invariance, PTL

\* A state seen in two rounds running is the one shown.
THEOREM LastingStateShown == Spec => []TwoSamplesDecide
<1>1. IndInv => TwoSamplesDecide
  <2> SUFFICES ASSUME IndInv, samples[1] = samples[2] PROVE slot.reach = samples[2]
    BY DEF TwoSamplesDecide
  <2>1. AccInv
    BY DEF IndInv
  <2> QED
    BY <2>1 DEF AccInv, Accept
<1> QED
  BY <1>1, Invariance, PTL

\* Only a step that commits changes what is shown.
LEMMA ShownByCommit ==
  ASSUME IndInv, [Next]_vars, slot'.reach # slot.reach
  PROVE  \/ \E reach \in {"authFailed", "unreachable", "degraded"} : Abandon(reach)
         \/ \E n \in Measure : PodsVisible(n)
         \/ PodsFailed \/ PodsTimeout
<1>1. slot \in ClusterState
  BY DEF IndInv, TypeOK
<1>2. slot' # slot
  OBVIOUS
<1>3. ASSUME NEW u \in Measure, ApplyMetrics(u)
      PROVE  FALSE
  <2>1. slot' = [slot EXCEPT !.usage = u]
    BY <1>3 DEF ApplyMetrics
  <2> QED
    BY <1>1, <2>1 DEF ClusterState
<1>4. ~(Begin \/ Version \/ ResolveScope \/ Wake \/ Poll)
  BY <1>2 DEF Begin, Version, ResolveScope, Wake, Poll
<1>5. ~AfterNodes
  BY <1>2 DEF AfterNodes
<1>6. \A outcome \in [Signals -> Measure \cup {Abandoned}] : ~WorkloadHealth(outcome)
  BY <1>2 DEF WorkloadHealth
<1>7. Next
  BY <1>2 DEF vars
<1> QED
  BY <1>3, <1>4, <1>5, <1>6, <1>7
     DEF Next, Probe, Metrics, Nodes, NodesFailed, NodesTimeout, NodesSkipped

\* What those steps commit.
LEMMA CommitSample ==
  ASSUME IndInv, [Next]_vars, slot'.reach # slot.reach
  PROVE  \E fields \in ProbeFields, reach \in Reach \ {"unknown"} : Commit(fields, reach)
<1>0. /\ prev \in ClusterState /\ pf \in ProbeFields /\ VerdictInv
      /\ prev.probe \in ProbeFields
  BY DEF IndInv, TypeOK, ClusterState
<1>1. ASSUME NEW reach \in {"authFailed", "unreachable", "degraded"}, Abandon(reach)
      PROVE  Commit(CarryHealth, reach) /\ CarryHealth \in ProbeFields /\ reach \in Reach \ {"unknown"}
  BY <1>0, <1>1 DEF Abandon, CarryHealth, ProbeFields, Reach
<1>2. ASSUME NEW n \in Measure, PodsVisible(n)
      PROVE  \E fields \in ProbeFields, reach \in Reach \ {"unknown"} : Commit(fields, reach)
  <2>1. [pf EXCEPT !.total = n] \in ProbeFields
    BY <1>0 DEF ProbeFields
  <2>2. seen \in Reach \ {"unknown"}
    BY <1>0, <1>2 DEF PodsVisible, VerdictInv, NodesReach, Answering, Reach
  <2>3. Commit([pf EXCEPT !.total = n], seen)
    BY <1>2 DEF PodsVisible
  <2> QED
    BY <2>1, <2>2, <2>3
<1>3. CASE PodsFailed
  BY <1>0, <1>3 DEF PodsFailed, Reach
<1>4. CASE PodsTimeout
  <2>1. [pf EXCEPT !.total = prev.probe.total] \in ProbeFields
    BY <1>0 DEF ProbeFields
  <2>2. PodsReach \in Reach \ {"unknown"}
    BY <1>0, <1>4 DEF PodsTimeout, PodsReach, VerdictInv, NodesReach, Answering, Reach
  <2>3. Commit([pf EXCEPT !.total = prev.probe.total], PodsReach)
    BY <1>4 DEF PodsTimeout
  <2> QED
    BY <2>1, <2>2, <2>3
<1> QED
  BY ShownByCommit, <1>1, <1>2, <1>3, <1>4

\* Once a cluster is known, a single bad round is never shown.
THEOREM BlipsHidden == Spec => BlipHidden
<1>1. ASSUME IndInv, [Next]_vars,
             slot'.reach # slot.reach, slot.reach # "unknown", slot'.reach # "healthy"
      PROVE  samples' = <<slot'.reach, slot'.reach>>
  <2>1. PICK fields \in ProbeFields, reach \in Reach \ {"unknown"} : Commit(fields, reach)
    BY <1>1, CommitSample
  <2>2. TypeOK /\ AccInv
    BY <1>1 DEF IndInv
  <2>3. /\ AccInv' /\ samples' = <<samples[2], reach>>
        /\ acc' \in Accumulator
        /\ reach # "healthy" => samples[2] = reach
    BY <1>1, <2>1, <2>2, CommitEffect
  <2>4. acc' = Update(acc, reach)
    BY <2>1 DEF Commit
  <2>5. samples'[2] = reach /\ samples'[1] = samples[2]
    BY <2>3
  <2>6. CASE acc' = Accept(reach)
    <3>1. slot'.reach = reach
      BY <2>3, <2>6 DEF AccInv, Accept
    <3> QED
      BY <1>1, <2>3, <3>1
  <2>7. CASE acc' # Accept(reach)
    <3>1. reach # "healthy"
      BY <2>4, <2>7 DEF Update
    <3>2. samples'[1] = samples'[2]
      BY <2>3, <2>5, <3>1
    <3> QED
      BY <2>3, <2>5, <2>7, <3>2 DEF AccInv
  <2> QED
    BY <2>6, <2>7
<1>2. IndInv /\ [Next]_vars =>
        [slot'.reach # slot.reach /\ slot.reach # "unknown" /\ slot'.reach # "healthy"
           => samples' = <<slot'.reach, slot'.reach>>]_vars
  BY <1>1
<1> QED
  BY <1>2, Invariance, PTL DEF Spec, BlipHidden

\* A degraded cluster turns Healthy only on a round in which nothing was
\* given up and the nodes, where they may be listed, were there.
THEOREM HealthIsEarned == Spec => HealthEarned
<1>1. ASSUME IndInv, [Next]_vars, slot.reach = "degraded", slot'.reach = "healthy"
      PROVE  abandoned' = {} /\ (scoped \/ pf.nodes > 0)
  <2>0. /\ TypeOK /\ AccInv /\ CountsInv /\ VerdictInv
        /\ prev \in ClusterState /\ pf \in ProbeFields /\ prev.probe \in ProbeFields
    BY <1>1 DEF IndInv, TypeOK, ClusterState
  <2>1. ASSUME NEW fields \in ProbeFields, NEW reach \in Reach \ {"unknown"}, Commit(fields, reach)
        PROVE  reach = "healthy"
    <3>1. AccInv' /\ samples' = <<samples[2], reach>>
      BY <2>0, <2>1, CommitEffect
    <3>2. samples'[2] = reach
      BY <3>1
    <3>3. acc' = Update(acc, reach) /\ acc.visible = "degraded" /\ acc'.visible = "healthy"
      BY <1>1, <2>0, <2>1, <3>1 DEF AccInv, Commit
    <3>4. CASE acc' = Accept(reach)
      BY <3>3, <3>4 DEF Accept
    <3>5. CASE acc' # Accept(reach)
      <4>1. acc' = [acc EXCEPT !.pending = reach,
                      !.count = IF reach = acc.pending THEN acc.count + 1 ELSE 1]
        BY <3>3, <3>5 DEF Update, Demote
      <4>2. acc \in Accumulator
        BY <2>0 DEF TypeOK, Accumulator
      <4>3. acc'.visible = acc.visible
        BY <4>1, <4>2 DEF Accumulator
      <4> QED
        BY <3>3, <4>3
    <3> QED
      BY <3>4, <3>5
  <2>2. ASSUME NEW reach \in {"authFailed", "unreachable", "degraded"}, Abandon(reach)
        PROVE  FALSE
    <3>1. Commit(CarryHealth, reach) /\ CarryHealth \in ProbeFields /\ reach \in Reach \ {"unknown"}
      BY <2>0, <2>2 DEF Abandon, CarryHealth, ProbeFields, Reach
    <3> QED
      BY <2>1, <3>1
  <2>3. ~PodsFailed
    <3>1. "degraded" \in Reach \ {"unknown"}
      BY DEF Reach
    <3> QED
      BY <2>0, <2>1, <3>1 DEF PodsFailed
  <2>4. ASSUME PodsTimeout PROVE FALSE
    <3>1. [pf EXCEPT !.total = prev.probe.total] \in ProbeFields
      BY <2>0 DEF ProbeFields
    <3>2. prev.reach = "degraded"
      BY <1>1, <2>0, <2>4 DEF PodsTimeout, CountsInv
    <3>3. PodsReach = "degraded" /\ "degraded" \in Reach \ {"unknown"}
      BY <3>2 DEF PodsReach, Reach
    <3>4. Commit([pf EXCEPT !.total = prev.probe.total], PodsReach)
      BY <2>4 DEF PodsTimeout
    <3> QED
      BY <2>1, <3>1, <3>3, <3>4
  <2>5. PICK n \in Measure : PodsVisible(n)
    BY <1>1, <2>2, <2>3, <2>4, ShownByCommit
  <2>6. [pf EXCEPT !.total = n] \in ProbeFields
    BY <2>0 DEF ProbeFields
  <2>7. ppc = "pods" /\ abandoned' = abandoned /\ Commit([pf EXCEPT !.total = n], seen)
    BY <2>5 DEF PodsVisible
  <2>8. seen \in Reach \ {"unknown"}
    BY <2>0, <2>7 DEF VerdictInv, NodesReach, Answering, Reach
  <2>9. seen = "healthy"
    BY <2>1, <2>6, <2>7, <2>8
  <2>10. NodesReach = "degraded"
    BY <1>1, <2>0, <2>7 DEF CountsInv, NodesReach, Answering
  <2> QED
    BY <2>0, <2>7, <2>9, <2>10 DEF VerdictInv
<1>2. IndInv /\ [Next]_vars =>
        [slot.reach = "degraded" /\ slot'.reach = "healthy"
           => abandoned' = {} /\ (scoped \/ pf.nodes > 0)]_vars
  BY <1>1
<1> QED
  BY <1>2, Invariance, PTL DEF Spec, HealthEarned

\* A round whose checks were all given up leaves what is shown, and does not
\* bring a change nearer.
THEOREM TimeoutsFindNothing == Spec => TimeoutNoFinding
<1>1. ASSUME IndInv, PodsTimeout, "nodes" \in abandoned, slot.reach \in Answering
      PROVE  slot'.reach = slot.reach /\ acc'.count = 0
  <2>1. ppc = "pods" /\ prev.reach = slot.reach /\ seen = NodesReach /\ slot.reach = acc.visible
    BY <1>1 DEF IndInv, CountsInv, VerdictInv, AccInv, PodsTimeout
  <2>2. PodsReach = slot.reach
    BY <1>1, <2>1 DEF PodsReach, NodesReach
  <2>3. acc' = Accept(slot.reach)
    BY <1>1, <2>1, <2>2 DEF PodsTimeout, Commit, Update
  <2>4. slot' = [slot EXCEPT !.reach = slot.reach, !.probe = [pf EXCEPT !.total = prev.probe.total]]
    BY <1>1, <2>3 DEF PodsTimeout, Commit, ApplyProbe, Accept
  <2>5. slot \in ClusterState
    BY <1>1 DEF IndInv, TypeOK
  <2> QED
    BY <2>3, <2>4, <2>5 DEF Accept, ClusterState
<1>2. IndInv /\ [Next]_vars =>
        [PodsTimeout /\ "nodes" \in abandoned /\ slot.reach \in Answering
           => slot'.reach = slot.reach /\ acc'.count = 0]_vars
  BY <1>1
<1> QED
  BY <1>2, Invariance, PTL DEF Spec, TimeoutNoFinding


-----------------------------------------------------------------------------
(* The network poll.                                                       *)

\* Min is that one.
LEMMA MinOfSet ==
  ASSUME NEW S \in SUBSET Nat, S # {}
  PROVE  Min(S) \in S /\ \A x \in S : Min(S) <= x
BY LeastExists DEF Min

\* The function a fold over finite sets takes its sum from.
SumIter(f, S) ==
  CHOOSE iter : iter = [s \in SUBSET S |->
    IF s = {} THEN 0 ELSE f[CHOOSE x \in s : TRUE] + iter[s \ {CHOOSE x \in s : TRUE}]]

SumStep(f, iter, s) ==
  IF s = {} THEN 0 ELSE f[CHOOSE x \in s : TRUE] + iter[s \ {CHOOSE x \in s : TRUE}]

\* What a sum takes out of a finite set leaves one with an element less.
LEMMA OneLess ==
  ASSUME NEW S, IsFiniteSet(S), NEW s \in SUBSET S, s # {}
  PROVE  /\ (CHOOSE x \in s : TRUE) \in s
         /\ s \ {CHOOSE x \in s : TRUE} \in SUBSET S
         /\ Cardinality(s) \in Nat
         /\ Cardinality(s \ {CHOOSE x \in s : TRUE}) = Cardinality(s) - 1
<1>1. IsFiniteSet(s) /\ Cardinality(s) \in Nat
  BY FS_Subset, FS_CardinalityType
<1>2. PICK p \in s : p = (CHOOSE x \in s : TRUE)
  OBVIOUS
<1>3. Cardinality(s \ {p}) = Cardinality(s) - 1
  BY <1>1, FS_RemoveElement
<1> QED BY <1>1, <1>2, <1>3

\* The recursion of a sum over a finite set has a solution.
LEMMA SumIsDefined ==
  ASSUME NEW D, NEW f \in [D -> Nat], NEW S \in SUBSET D, IsFiniteSet(S)
  PROVE  \A s \in SUBSET S : SumIter(f, S)[s] = SumStep(f, SumIter(f, S), s)
<1> DEFINE Upto(k) == {s \in SUBSET S : Cardinality(s) <= k}
           G == {k \in Nat : \E g \in [Upto(k) -> Nat] : \A s \in Upto(k) : g[s] = SumStep(f, g, s)}
<1>1. \A s \in SUBSET S : IsFiniteSet(s) /\ Cardinality(s) \in Nat
  BY FS_Subset, FS_CardinalityType
<1>2. ASSUME NEW s \in SUBSET S, s # {}
      PROVE  /\ f[CHOOSE x \in s : TRUE] \in Nat /\ s \ {CHOOSE x \in s : TRUE} \in SUBSET S
             /\ Cardinality(s \ {CHOOSE x \in s : TRUE}) = Cardinality(s) - 1
  BY <1>2, OneLess
<1>3. 0 \in G
  <2>1. \A s \in Upto(0) : s = {}
    BY <1>1, FS_EmptySet
  <2>2. [s \in Upto(0) |-> 0] \in [Upto(0) -> Nat]
    OBVIOUS
  <2>3. \A s \in Upto(0) : [t \in Upto(0) |-> 0][s] = SumStep(f, [t \in Upto(0) |-> 0], s)
    BY <2>1 DEF SumStep
  <2> QED BY <2>2, <2>3
<1>4. ASSUME NEW k \in Nat, k \in G PROVE k + 1 \in G
  <2>1. PICK g \in [Upto(k) -> Nat] : \A s \in Upto(k) : g[s] = SumStep(f, g, s)
    BY <1>4
  <2> DEFINE h == [s \in Upto(k + 1) |-> SumStep(f, g, s)]
  <2>2. \A s \in Upto(k + 1) : s # {} => s \ {CHOOSE x \in s : TRUE} \in Upto(k)
    BY <1>1, <1>2
  <2>3. \A s \in Upto(k + 1) : SumStep(f, g, s) \in Nat
    BY <1>2, <2>2 DEF SumStep
  <2>4. h \in [Upto(k + 1) -> Nat]
    BY <2>3
  <2>5. Upto(k) \subseteq Upto(k + 1)
    BY <1>1
  <2>6. \A s \in Upto(k) : h[s] = g[s]
    BY <2>1, <2>5
  <2>7. \A s \in Upto(k + 1) : h[s] = SumStep(f, h, s)
    <3> SUFFICES ASSUME NEW s \in Upto(k + 1) PROVE SumStep(f, g, s) = SumStep(f, h, s)
      OBVIOUS
    <3> HIDE DEF h
    <3> QED BY <2>2, <2>6 DEF SumStep
  <2> HIDE DEF h, Upto
  <2> QED BY <2>4, <2>7
<1>5. Cardinality(S) \in G
  <2> HIDE DEF G
  <2> QED BY <1>1, <1>3, <1>4, CountUp
<1>6. Upto(Cardinality(S)) = SUBSET S
  BY <1>1, FS_Subset
<1>7. PICK g \in [SUBSET S -> Nat] : \A s \in SUBSET S : g[s] = SumStep(f, g, s)
  BY <1>5, <1>6
<1>8. g = [s \in SUBSET S |-> SumStep(f, g, s)]
  BY <1>7
<1>9. SumIter(f, S) = [s \in SUBSET S |-> SumStep(f, SumIter(f, S), s)]
  BY <1>8 DEF SumIter, SumStep
<1> QED BY <1>9

\* The sum is the recursion of the fold.
LEMMA SumUnfolds == ASSUME NEW f, NEW S PROVE SumOf(f, S) = SumIter(f, S)[S]
BY DEF SumOf, MapThenSumSet, MapThenFoldSet, SumIter

\* A sum is not more than one whose terms are not less.
LEMMA SumBelow ==
  ASSUME NEW D, IsFiniteSet(D), NEW f \in [D -> Nat], NEW g \in [D -> Nat], NEW S \in SUBSET D,
         \A x \in S : f[x] <= g[x]
  PROVE  SumOf(f, S) \in Nat /\ SumOf(g, S) \in Nat /\ SumOf(f, S) <= SumOf(g, S)
<1>1. IsFiniteSet(S) /\ \A s \in SUBSET S : IsFiniteSet(s) /\ Cardinality(s) \in Nat
  BY FS_Subset, FS_CardinalityType
<1>2. PICK F, H : F = SumIter(f, S) /\ H = SumIter(g, S)
  OBVIOUS
<1>3. \A s \in SUBSET S : F[s] = SumStep(f, F, s) /\ H[s] = SumStep(g, H, s)
  BY <1>1, <1>2, SumIsDefined
<1> DEFINE Good(s) == F[s] \in Nat /\ H[s] \in Nat /\ F[s] <= H[s]
           G == {k \in Nat : \A s \in SUBSET S : Cardinality(s) <= k => Good(s)}
<1>8. Good({})
  BY <1>3 DEF SumStep
<1>4. 0 \in G
  BY <1>1, <1>8, FS_EmptySet
<1>5. ASSUME NEW k \in Nat, k \in G PROVE k + 1 \in G
  <2> SUFFICES ASSUME NEW s \in SUBSET S, Cardinality(s) <= k + 1 PROVE Good(s)
    OBVIOUS
  <2>1. CASE s = {}
    BY <1>8, <2>1
  <2>2. CASE s # {}
    <3>1. PICK p \in s : p = (CHOOSE x \in s : TRUE)
      BY <2>2
    <3>2. s \ {p} \in SUBSET S /\ Cardinality(s \ {p}) <= k
      BY <1>1, <2>2, <3>1, OneLess
    <3>3. Good(s \ {p})
      BY <1>5, <3>2
    <3>4. F[s] = f[p] + F[s \ {p}] /\ H[s] = g[p] + H[s \ {p}]
      BY <1>3, <2>2, <3>1 DEF SumStep
    <3>5. f[p] \in Nat /\ g[p] \in Nat /\ f[p] <= g[p]
      OBVIOUS
    <3> QED BY <3>3, <3>4, <3>5
  <2> QED BY <2>1, <2>2
<1>6. Cardinality(S) \in G
  <2> HIDE DEF G
  <2> QED BY <1>1, <1>4, <1>5, CountUp
<1>7. Good(S)
  BY <1>1, <1>6
<1> QED BY <1>2, <1>7, SumUnfolds

\* A quotient is not more than what is divided.
LEMMA QuotientBound ==
  ASSUME NEW a \in Nat, NEW d \in Nat, d # 0
  PROVE  a \div d \in Nat /\ a \div d <= a
OBVIOUS

-----------------------------------------------------------------------------
(* The poller.                                                             *)

\* The nodes are the numbers from 1, and there are finitely many.
LEMMA NetFacts ==
  /\ IsFiniteSet(NetNodes) /\ Cardinality(NetNodes) \in Nat /\ NetNodes = 1..Cardinality(NetNodes)
  /\ NetNodes \subseteq Nat \ {0} /\ Workers \in Nat \ {0} /\ MaxAge \in Nat \ {0}
BY NetworkAssumption, FS_CardinalityType

\* A sample has a count, and one that was taken a time.
LEMMA SampleFacts ==
  ASSUME NEW s \in Samples
  PROVE  s.n \in Nat /\ (s # NoSampleYet => s.at \in Nat) /\ (s = NoSampleYet => s.at = -1)
BY DEF Samples, NoSampleYet, Never

\* The rate of a node is of what passed between its two samples.
LEMMA RateFacts ==
  ASSUME NetInv, NEW n \in NetNodes
  PROVE  Rate(n) \in Nat /\ (scrapeRound.cur[n] # NoSampleYet => Rate(n) <= scrapeRound.most[n])
<1>1. PICK c \in Samples, p \in Samples, m \in Nat :
        c = scrapeRound.cur[n] /\ p = prevSamples[n] /\ m = scrapeRound.most[n]
  BY DEF NetInv, NetTypeOK, RoundType
<1>2. c # NoSampleYet /\ p # NoSampleYet => c.n - p.n <= m
  BY <1>1 DEF NetInv, SamplesInv
<1>3. c.n \in Nat /\ p.n \in Nat /\ (c # NoSampleYet => c.at \in Nat) /\ (p # NoSampleYet => p.at \in Nat)
      /\ (c = NoSampleYet => c.at = -1)
  BY SampleFacts
<1>4. CASE p = NoSampleYet \/ c.at - p.at <= 0
  <2>1. Rate(n) = 0
    BY <1>1, <1>4 DEF Rate
  <2> QED BY <1>1, <2>1
<1>5. CASE ~(p = NoSampleYet \/ c.at - p.at <= 0)
  <2>1. c # NoSampleYet
    BY <1>3, <1>5
  <2>2. PICK d \in Nat \ {0} : d = c.at - p.at
    BY <1>3, <1>5, <2>1
  <2>3. Rate(n) = IF c.n < p.n THEN 0 ELSE (c.n - p.n) \div d
    BY <1>1, <1>5, <2>2 DEF Rate, ClampRate
  <2>4. CASE c.n < p.n
    BY <1>1, <2>3, <2>4
  <2>5. CASE ~(c.n < p.n)
    <3>1. PICK a \in Nat : a = c.n - p.n
      BY <1>3, <2>5
    <3>2. a \div d \in Nat /\ a \div d <= a
      BY QuotientBound
    <3>3. Rate(n) = a \div d /\ a <= m
      BY <1>2, <1>5, <2>1, <2>3, <2>5, <3>1
    <3> QED BY <1>1, <3>2, <3>3
  <2> QED BY <2>4, <2>5
<1> QED BY <1>4, <1>5

\* The oldest of some scraped samples has a time.
LEMMA OldestFacts ==
  ASSUME NetInv, NEW S \in SUBSET Scraped, S # {}
  PROVE  Oldest(S) \in Nat
<1>1. \A n \in S : scrapeRound.cur[n] \in Samples /\ scrapeRound.cur[n] # NoSampleYet
  BY DEF NetInv, NetTypeOK, RoundType, Scraped
<1>2. \A n \in S : scrapeRound.cur[n].at \in Nat
  BY <1>1, SampleFacts
<1> DEFINE T == {scrapeRound.cur[n].at : n \in S}
<1>3. T \in SUBSET Nat /\ T # {}
  BY <1>2
<1> HIDE DEF T
<1>4. Min(T) \in T
  BY <1>3, MinOfSet
<1> QED BY <1>3, <1>4 DEF Oldest, T

\* The rate of scraped nodes is at most the most that passed on them.
LEMMA RateOfHonest ==
  ASSUME NetInv, NEW S \in SUBSET Scraped
  PROVE  /\ RateOf(S) \in Rates /\ RateOf(S).rx <= RateOf(S).most
         /\ RateOf(S).at = IF S = {} THEN Never ELSE Oldest(S)
<1>1. CASE S = {}
  BY <1>1 DEF RateOf, NoRate, Rates, Moments, Never
<1>2. CASE S # {}
  <2> DEFINE f == [n \in NetNodes |-> Rate(n)]
  <2>1. f \in [NetNodes -> Nat] /\ scrapeRound.most \in [NetNodes -> Nat]
    BY RateFacts DEF NetInv, NetTypeOK, RoundType
  <2>2. S \subseteq NetNodes /\ \A n \in S : f[n] <= scrapeRound.most[n]
    BY RateFacts DEF Scraped
  <2>3. RateOf(S) = [rx |-> SumOf(f, S), most |-> SumOf(scrapeRound.most, S), at |-> Oldest(S), has |-> TRUE]
    BY <1>2 DEF RateOf
  <2> HIDE DEF f
  <2>4. /\ SumOf(f, S) \in Nat /\ SumOf(scrapeRound.most, S) \in Nat
        /\ SumOf(f, S) <= SumOf(scrapeRound.most, S)
    BY <2>1, <2>2, NetFacts, SumBelow
  <2>5. Oldest(S) \in Nat
    BY <1>2, OldestFacts
  <2> QED BY <1>2, <2>3, <2>4, <2>5 DEF Rates, Moments
<1> QED BY <1>1, <1>2

\* What a round sends is honest, and as old as its oldest sample.
LEMMA SnapshotHonest ==
  ASSUME NetInv
  PROVE  /\ Snapshot \in SnapshotType
         /\ HonestRates({Snapshot.total} \cup {Snapshot.rows[p] : p \in NetPods})
         /\ Snapshot.total.at \in {Never, Snapshot.at}
<1>1. Scraped \subseteq NetNodes /\ netClock \in Nat
  BY DEF Scraped, NetInv, NetTypeOK
<1>2. PICK at \in Nat : at = IF Scraped = {} THEN netClock ELSE Oldest(Scraped)
  BY <1>1, OldestFacts
<1>3. PICK k \in Nat : k = Cardinality(Scraped)
  BY <1>1, NetFacts, FS_Subset, FS_CardinalityType
<1>4. PICK total \in Rates : /\ total = RateOf(Scraped) /\ total.rx <= total.most
                             /\ total.at = IF Scraped = {} THEN Never ELSE Oldest(Scraped)
  BY RateOfHonest
<1>5. PICK rw \in [NetPods -> Rates] :
        /\ rw = [p \in NetPods |-> RateOf({n \in Scraped : p \in PodsOf[n]})]
        /\ \A p \in NetPods : rw[p].rx <= rw[p].most
  <2>1. \A p \in NetPods : /\ RateOf({n \in Scraped : p \in PodsOf[n]}) \in Rates
                           /\ RateOf({n \in Scraped : p \in PodsOf[n]}).rx
                                <= RateOf({n \in Scraped : p \in PodsOf[n]}).most
    BY RateOfHonest
  <2> DEFINE rw == [p \in NetPods |-> RateOf({n \in Scraped : p \in PodsOf[n]})]
  <2>2. rw \in [NetPods -> Rates]
    BY <2>1
  <2>3. \A p \in NetPods : rw[p].rx <= rw[p].most
    BY <2>1
  <2> QED BY <2>2, <2>3
<1>6. PICK ok \in BOOLEAN : ok = (Scraped = scrapeRound.listed)
  OBVIOUS
<1>7. Snapshot = [at |-> at, ok |-> ok, scraped |-> k, rows |-> rw, total |-> total]
  BY <1>2, <1>3, <1>4, <1>5, <1>6 DEF Snapshot
<1>8. total.at \in {Never, at}
  BY <1>2, <1>4
<1> QED BY <1>4, <1>5, <1>7, <1>8 DEF SnapshotType, HonestRates

\* send adds an honest snapshot or none.
LEMMA SendKeeps ==
  ASSUME NetInv, NEW snap \in SnapshotType, SendSnapshot(snap),
         HonestRates({snap.total} \cup {snap.rows[p] : p \in NetPods}),
         snap.total.at \in {Never, snap.at}
  PROVE  out' \in Seq(SnapshotType) /\ OutHonest'
<1>1. out \in Seq(SnapshotType) /\ OutHonest
  BY DEF NetInv, NetTypeOK
<1>2. CASE out' = out
  BY <1>1, <1>2 DEF OutHonest, HonestRates
<1>3. CASE out' = Append(out, snap)
  <2>1. \A i \in DOMAIN out' : (i \in DOMAIN out /\ out'[i] = out[i]) \/ out'[i] = snap
    BY <1>1, <1>3
  <2> QED BY <1>1, <1>3, <2>1 DEF OutHonest, HonestRates
<1> QED BY <1>2, <1>3 DEF SendSnapshot

\* Steps of nodes and poller that leave cursor and UI alone.
LEMMA PollerMoves ==
  ASSUME NetInv, UNCHANGED <<net, netTick, nextNode, waited>>,
         netClock' \in Nat, netClock' >= netClock,
         bytes' \in [NetNodes -> Nat], carried' \in [NetNodes -> Nat],
         prevSamples' \in [NetNodes -> Samples], scrapeRound' \in RoundType,
         SamplesInv', out' \in Seq(SnapshotType), OutHonest'
  PROVE  NetInv'
<1>1. NetTypeOK /\ DeadlineInv /\ CursorInv /\ HonestRates({net.total} \cup {net.rows[p] : p \in NetPods})
  BY DEF NetInv
<1>2. NetTypeOK'
  BY <1>1 DEF NetTypeOK
<1>3. DeadlineInv' /\ HonestRates({net.total} \cup {net.rows[p] : p \in NetPods})'
  BY <1>1 DEF DeadlineInv, HonestRates
<1>4. CursorInv'
  BY <1>1 DEF CursorInv
<1> QED BY <1>2, <1>3, <1>4 DEF NetInv

\* Snapshots that nobody touches stay what they are.
LEMMA OutUnchanged == ASSUME NetInv, UNCHANGED out PROVE out' \in Seq(SnapshotType) /\ OutHonest'
BY DEF NetInv, NetTypeOK, OutHonest, HonestRates

\* Traffic adds to the counter and to the most there was.
LEMMA TrafficKeeps == ASSUME NetInv, NEW n \in NetNodes, Traffic(n) PROVE NetInv'
<1>1. /\ bytes' = [bytes EXCEPT ![n] = @ + 1] /\ carried' = [carried EXCEPT ![n] = @ + 1]
      /\ UNCHANGED <<netClock, rounds, prevSamples, nextNode, scrapeRound, waited, out, net, netTick>>
  BY DEF Traffic
<1>2. NetTypeOK /\ SamplesInv
  BY DEF NetInv
<1>3. /\ bytes' \in [NetNodes -> Nat] /\ carried' \in [NetNodes -> Nat]
      /\ \A m \in NetNodes : \/ bytes'[m] = bytes[m] /\ carried'[m] = carried[m]
                             \/ bytes'[m] = bytes[m] + 1 /\ carried'[m] = carried[m] + 1
  BY <1>1, <1>2 DEF NetTypeOK
<1>4. SamplesInv'
  <2> SUFFICES ASSUME NEW m \in NetNodes
               PROVE  LET cur == scrapeRound.cur[m]
                          before == prevSamples[m]
                      IN  /\ cur = NoSampleYet /\ before # NoSampleYet => bytes'[m] - before.n <= carried'[m]
                          /\ cur # NoSampleYet =>
                               /\ bytes'[m] - cur.n <= carried'[m]
                               /\ before # NoSampleYet => cur.n - before.n <= scrapeRound.most[m]
                               /\ scrapeRound.on /\ m \notin scrapeRound.queue
    BY <1>1 DEF SamplesInv
  <2>1. scrapeRound.cur[m] \in Samples /\ prevSamples[m] \in Samples
    BY <1>2 DEF NetTypeOK, RoundType
  <2>2. scrapeRound.cur[m].n \in Nat /\ prevSamples[m].n \in Nat /\ bytes[m] \in Nat /\ carried[m] \in Nat
    BY <1>2, <2>1, SampleFacts DEF NetTypeOK
  <2> QED BY <1>2, <1>3, <2>2 DEF SamplesInv
<1> QED BY <1>1, <1>2, <1>3, <1>4, OutUnchanged, PollerMoves DEF NetTypeOK

\* A counter that starts again is behind its samples, whose difference counts as nothing.
LEMMA RestartCountersKeeps == ASSUME NetInv, NEW n \in NetNodes, RestartCounters(n) PROVE NetInv'
<1>1. /\ bytes' = [bytes EXCEPT ![n] = 0]
      /\ UNCHANGED <<netClock, carried, prevSamples, nextNode, scrapeRound, waited, out, net, netTick>>
  BY DEF RestartCounters
<1>2. NetTypeOK /\ SamplesInv
  BY DEF NetInv
<1>3. /\ bytes' \in [NetNodes -> Nat] /\ \A m \in NetNodes : bytes'[m] <= bytes[m]
  BY <1>1, <1>2 DEF NetTypeOK
<1>4. SamplesInv'
  <2> SUFFICES ASSUME NEW m \in NetNodes
               PROVE  LET cur == scrapeRound.cur[m]
                          before == prevSamples[m]
                      IN  /\ cur = NoSampleYet /\ before # NoSampleYet => bytes'[m] - before.n <= carried[m]
                          /\ cur # NoSampleYet =>
                               /\ bytes'[m] - cur.n <= carried[m]
                               /\ before # NoSampleYet => cur.n - before.n <= scrapeRound.most[m]
                               /\ scrapeRound.on /\ m \notin scrapeRound.queue
    BY <1>1 DEF SamplesInv
  <2>1. scrapeRound.cur[m] \in Samples /\ prevSamples[m] \in Samples
    BY <1>2 DEF NetTypeOK, RoundType
  <2>2. /\ scrapeRound.cur[m].n \in Nat /\ prevSamples[m].n \in Nat
        /\ bytes[m] \in Nat /\ bytes'[m] \in Nat /\ carried[m] \in Nat
    BY <1>2, <1>3, <2>1, SampleFacts DEF NetTypeOK
  <2> QED BY <1>2, <1>3, <2>2 DEF SamplesInv
<1> QED BY <1>1, <1>2, <1>3, <1>4, OutUnchanged, PollerMoves DEF NetTypeOK

\* Time leaves the samples in the past.
LEMMA TimePassesKeeps == ASSUME NetInv, TimePasses PROVE NetInv'
<1>1. /\ netClock' = netClock + 1
      /\ UNCHANGED <<bytes, carried, prevSamples, nextNode, scrapeRound, waited, out, net, netTick>>
  BY DEF TimePasses
<1>2. NetTypeOK /\ SamplesInv
  BY DEF NetInv
<1>3. SamplesInv'
  BY <1>1, <1>2 DEF SamplesInv
<1> QED BY <1>1, <1>2, <1>3, OutUnchanged, PollerMoves DEF NetTypeOK

\* A round that cannot list the nodes sends a snapshot without rates.
LEMMA ListFailsKeeps == ASSUME NetInv, ListFails PROVE NetInv'
<1>1. NetTypeOK /\ SamplesInv
  BY DEF NetInv
<1>2. PICK snap \in SnapshotType :
        /\ SendSnapshot(snap) /\ HonestRates({snap.total} \cup {snap.rows[p] : p \in NetPods})
        /\ snap.total.at \in {Never, snap.at}
  <2> DEFINE snap == [at |-> netClock, ok |-> FALSE, scraped |-> 0,
                      rows |-> [p \in NetPods |-> NoRate], total |-> NoRate]
  <2>1. NoRate \in Rates /\ NoRate.rx = 0 /\ NoRate.most = 0 /\ NoRate.at = Never
    BY DEF NoRate, Rates, Moments
  <2>2. snap \in SnapshotType /\ SendSnapshot(snap)
    BY <1>1, <2>1 DEF SnapshotType, NetTypeOK, ListFails
  <2>3. HonestRates({snap.total} \cup {snap.rows[p] : p \in NetPods}) /\ snap.total.at = Never
    BY <2>1 DEF HonestRates
  <2> QED BY <2>2, <2>3
<1>3. out' \in Seq(SnapshotType) /\ OutHonest'
  BY <1>2, SendKeeps
<1>4. UNCHANGED <<netClock, bytes, carried, prevSamples, nextNode, scrapeRound, waited, net, netTick>>
  BY DEF ListFails
<1>5. SamplesInv'
  BY <1>1, <1>4 DEF SamplesInv
<1> QED BY <1>1, <1>3, <1>4, <1>5, PollerMoves DEF NetTypeOK

\* A scrape takes the counter as it is.
LEMMA ScrapeKeeps == ASSUME NetInv, NEW n \in NetNodes, NEW ok \in BOOLEAN, Scrape(n, ok) PROVE NetInv'
<1>1. NetTypeOK /\ SamplesInv
  BY DEF NetInv
<1>2. /\ scrapeRound.on /\ n \in scrapeRound.queue
      /\ UNCHANGED <<netClock, bytes, prevSamples, nextNode, waited, out, net, netTick>>
  BY DEF Scrape, FirstFew
<1>3. scrapeRound.cur[n] = NoSampleYet
  BY <1>1, <1>2 DEF SamplesInv
<1>4. PICK c \in Samples, m \in Nat, k \in Nat :
        /\ scrapeRound' = [scrapeRound EXCEPT !.queue = @ \ {n}, !.cur[n] = c, !.most[n] = m]
        /\ carried' = [carried EXCEPT ![n] = k]
        /\ \/ c = [n |-> bytes[n], at |-> netClock] /\ m = carried[n] /\ k = 0
           \/ c = NoSampleYet /\ k = carried[n]
  <2>1. CASE ok = TRUE
    <3>1. [n |-> bytes[n], at |-> netClock] \in Samples /\ carried[n] \in Nat
      BY <1>1 DEF NetTypeOK, Samples
    <3> QED BY <2>1, <3>1 DEF Scrape
  <2>2. CASE ok = FALSE
    <3>1. scrapeRound.cur[n] \in Samples /\ scrapeRound.most[n] \in Nat /\ carried[n] \in Nat
      BY <1>1 DEF NetTypeOK, RoundType
    <3>2. carried' = [carried EXCEPT ![n] = carried[n]]
      BY <1>1, <2>2 DEF Scrape, NetTypeOK
    <3>3. scrapeRound' = [scrapeRound EXCEPT !.queue = @ \ {n}, !.cur[n] = scrapeRound.cur[n],
                                             !.most[n] = scrapeRound.most[n]]
      BY <2>2 DEF Scrape
    <3> QED BY <1>3, <3>1, <3>2, <3>3
  <2> QED BY <2>1, <2>2
<1>5. /\ scrapeRound' \in RoundType /\ carried' \in [NetNodes -> Nat]
      /\ scrapeRound'.on /\ scrapeRound'.queue = scrapeRound.queue \ {n}
      /\ scrapeRound'.cur[n] = c /\ scrapeRound'.most[n] = m /\ carried'[n] = k
      /\ \A x \in NetNodes \ {n} : /\ scrapeRound'.cur[x] = scrapeRound.cur[x]
                                   /\ scrapeRound'.most[x] = scrapeRound.most[x]
                                   /\ carried'[x] = carried[x]
  BY <1>1, <1>2, <1>4 DEF NetTypeOK, RoundType
<1>6. SamplesInv'
  <2> SUFFICES ASSUME NEW x \in NetNodes
               PROVE  LET cur == scrapeRound'.cur[x]
                          before == prevSamples[x]
                      IN  /\ cur = NoSampleYet /\ before # NoSampleYet => bytes[x] - before.n <= carried'[x]
                          /\ cur # NoSampleYet =>
                               /\ bytes[x] - cur.n <= carried'[x]
                               /\ before # NoSampleYet => cur.n - before.n <= scrapeRound'.most[x]
                               /\ scrapeRound'.on /\ x \notin scrapeRound'.queue
    BY <1>2 DEF SamplesInv
  <2>1. CASE x # n
    BY <1>1, <1>5, <2>1 DEF SamplesInv
  <2>2. CASE x = n /\ c = NoSampleYet
    <3>1. [n |-> bytes[n], at |-> netClock].at # NoSampleYet.at
      BY <1>1 DEF NetTypeOK, NoSampleYet, Never
    <3>2. k = carried[n]
      BY <1>4, <2>2, <3>1
    <3>3. prevSamples[n] # NoSampleYet => bytes[n] - prevSamples[n].n <= carried[n]
      BY <1>1, <1>3 DEF SamplesInv
    <3> QED BY <1>5, <2>2, <3>2, <3>3
  <2>3. CASE x = n /\ c # NoSampleYet
    <3>1. c.n = bytes[n] /\ m = carried[n] /\ k = 0 /\ bytes[n] \in Nat
      BY <1>1, <1>4, <2>3 DEF NetTypeOK
    <3>2. prevSamples[n] # NoSampleYet => bytes[n] - prevSamples[n].n <= carried[n]
      BY <1>1, <1>3 DEF SamplesInv
    <3> QED BY <1>2, <1>5, <2>3, <3>1, <3>2
  <2> QED BY <2>1, <2>2, <2>3
<1> QED BY <1>1, <1>2, <1>5, <1>6, OutUnchanged, PollerMoves DEF NetTypeOK

\* Between rounds nothing is sampled.
LEMMA NoRoundFacts ==
  /\ NoRound \in RoundType /\ NoRound.on = FALSE
  /\ \A n \in NetNodes : NoRound.cur[n] = NoSampleYet
BY DEF NoRound, RoundType, Samples

\* The end of a round sends its rates and keeps its samples for the next.
LEMMA EndScrapesKeeps == ASSUME NetInv, EndScrapes PROVE NetInv'
<1>1. NetTypeOK /\ SamplesInv
  BY DEF NetInv
<1>2. /\ SendSnapshot(Snapshot) /\ prevSamples' = [n \in NetNodes |-> Kept(n)] /\ scrapeRound' = NoRound
      /\ UNCHANGED <<netClock, bytes, carried, nextNode, waited, net, netTick>>
  BY DEF EndScrapes
<1>3. out' \in Seq(SnapshotType) /\ OutHonest'
  BY <1>2, SendKeeps, SnapshotHonest
<1>4. \A n \in NetNodes :
        /\ prevSamples'[n] \in Samples
        /\ prevSamples'[n] # NoSampleYet => bytes[n] - prevSamples'[n].n <= carried[n]
  <2> SUFFICES ASSUME NEW n \in NetNodes
               PROVE  Kept(n) \in Samples /\ (Kept(n) # NoSampleYet => bytes[n] - Kept(n).n <= carried[n])
    BY <1>2
  <2>1. CASE n \in Scraped
    BY <1>1, <2>1 DEF Kept, Scraped, SamplesInv, NetTypeOK, RoundType
  <2>2. CASE n \notin Scraped
    <3>1. scrapeRound.cur[n] = NoSampleYet
      BY <2>2 DEF Scraped
    <3>2. Kept(n) \in {prevSamples[n], NoSampleYet}
      BY <2>2 DEF Kept
    <3>3. prevSamples[n] \in Samples /\ NoSampleYet \in Samples
      BY <1>1 DEF NetTypeOK, Samples
    <3> QED BY <1>1, <3>1, <3>2, <3>3 DEF SamplesInv
  <2> QED BY <2>1, <2>2
<1>5. prevSamples' \in [NetNodes -> Samples]
  BY <1>2, <1>4
<1>6. SamplesInv'
  BY <1>2, <1>4, NoRoundFacts DEF SamplesInv
<1> QED BY <1>1, <1>2, <1>3, <1>5, <1>6, NoRoundFacts, PollerMoves DEF NetTypeOK

-----------------------------------------------------------------------------
(* The cursor.                                                             *)

\* Around the sorted nodes each has a place of its own.
LEMMA TurnFacts ==
  ASSUME NEW start \in NetNodes \cup {0}, NEW m \in NetNodes, NEW n \in NetNodes
  PROVE  Turn(n, start) \in Nat /\ (m # n => Turn(m, start) # Turn(n, start))
<1>1. PICK N \in Nat : N = Cardinality(NetNodes) /\ NetNodes = 1..N
  BY NetFacts
<1>2. m \in 1..N /\ n \in 1..N /\ start \in 0..N
  <2>1. m \in 1..N /\ n \in 1..N /\ start \in (1..N) \cup {0}
    BY <1>1, Zenon
  <2> QED BY <2>1
<1>3. /\ Turn(m, start) = IF m >= start THEN m - start ELSE m + N - start
      /\ Turn(n, start) = IF n >= start THEN n - start ELSE n + N - start
  BY <1>1 DEF Turn
<1>4. m \in Nat /\ n \in Nat /\ start \in Nat /\ start <= N /\ m >= 1 /\ n >= 1 /\ m <= N /\ n <= N
  BY <1>2
<1>5. Turn(n, start) \in Nat
  BY <1>3, <1>4
<1>6. m # n => Turn(m, start) # Turn(n, start)
  BY <1>3, <1>4
<1> QED BY <1>5, <1>6

\* In turn, every place in the queue is one node's.
LEMMA BeforeFacts ==
  ASSUME NEW start \in NetNodes \cup {0}, NEW ready \in SUBSET NetNodes
  PROVE  /\ Cardinality(ready) \in Nat
         /\ \A n \in ready : Before(n, ready, start) \in 0..(Cardinality(ready) - 1)
         /\ \A m, n \in ready : Turn(m, start) < Turn(n, start)
                                  => Before(m, ready, start) < Before(n, ready, start)
         /\ \A k \in 0..(Cardinality(ready) - 1) : \E n \in ready : Before(n, ready, start) = k
<1> DEFINE Below(n) == {m \in ready : Turn(m, start) < Turn(n, start)}
<1>1. \A S \in SUBSET ready : IsFiniteSet(S) /\ Cardinality(S) \in Nat
  BY NetFacts, FS_Subset, FS_CardinalityType
<1>2. ASSUME NEW S \in SUBSET ready, NEW T \in SUBSET ready, NEW x \in T \ S, S \subseteq T
      PROVE  Cardinality(S) < Cardinality(T)
  <2>1. S \cup {x} \in SUBSET T /\ IsFiniteSet(T) /\ IsFiniteSet(S)
    BY <1>1, <1>2
  <2>2. Cardinality(S \cup {x}) = Cardinality(S) + 1
    BY <2>1, FS_AddElement
  <2>3. Cardinality(S \cup {x}) <= Cardinality(T)
    BY <2>1, FS_Subset
  <2> QED BY <1>1, <2>2, <2>3
<1>3. \A n \in ready : Before(n, ready, start) = Cardinality(Below(n))
  BY DEF Before
<1>7. \A n \in ready : Turn(n, start) \in Nat
  BY TurnFacts
<1>4. \A n \in ready : Before(n, ready, start) \in 0..(Cardinality(ready) - 1)
  <2> SUFFICES ASSUME NEW n \in ready PROVE Before(n, ready, start) \in 0..(Cardinality(ready) - 1)
    OBVIOUS
  <2>1. Below(n) \in SUBSET ready /\ n \in ready \ Below(n)
    BY <1>7
  <2>2. Cardinality(Below(n)) < Cardinality(ready)
    BY <1>2, <2>1
  <2> QED BY <1>1, <1>3, <2>1, <2>2
<1>5. ASSUME NEW m \in ready, NEW n \in ready, Turn(m, start) < Turn(n, start)
      PROVE  Before(m, ready, start) < Before(n, ready, start)
  <2>1. Below(m) \subseteq Below(n) /\ m \in Below(n) \ Below(m)
    <3>1. \A x \in ready : Turn(x, start) < Turn(m, start) => Turn(x, start) < Turn(n, start)
      BY <1>5, <1>7
    <3>2. ~(Turn(m, start) < Turn(m, start))
      BY <1>7
    <3> QED BY <1>5, <3>1, <3>2
  <2>2. Cardinality(Below(m)) < Cardinality(Below(n))
    BY <1>2, <2>1
  <2> QED BY <1>3, <2>2
<1>6. \A k \in 0..(Cardinality(ready) - 1) : \E n \in ready : Before(n, ready, start) = k
  <2> DEFINE f == [n \in ready |-> Before(n, ready, start)]
             T == 0..(Cardinality(ready) - 1)
  <2>1. \A m, n \in ready : m # n => f[m] # f[n]
    <3> SUFFICES ASSUME NEW m \in ready, NEW n \in ready, m # n PROVE f[m] # f[n]
      OBVIOUS
    <3>1. Turn(m, start) \in Nat /\ Turn(n, start) \in Nat /\ Turn(m, start) # Turn(n, start)
      BY TurnFacts
    <3>2. Turn(m, start) < Turn(n, start) \/ Turn(n, start) < Turn(m, start)
      BY <3>1
    <3> QED BY <1>4, <1>5, <3>2
  <2>2. f \in Injection(ready, T)
    BY <1>4, <2>1 DEF Injection, IsInjective
  <2>3. IsFiniteSet(T) /\ Cardinality(T) = Cardinality(ready)
    BY <1>1, FS_Interval
  <2> HIDE DEF f, T
  <2>4. f \in Surjection(ready, T)
    BY <2>2, <2>3, FS_Injection
  <2> QED BY <2>4 DEF Surjection, f, T
<1> QED BY <1>1, <1>4, <1>5, <1>6

\* A remainder is below its divisor.
LEMMA SmallRemainder == ASSUME NEW a \in Nat, NEW b \in Nat \ {0} PROVE a % b \in 0..(b - 1) /\ (a < b => a % b = a)
OBVIOUS

\* A round starts with the nodes whose turn it is.
LEMMA StartRoundKeeps ==
  ASSUME NetInv, NEW listed \in SUBSET NetNodes, NEW ready \in SUBSET NetNodes,
         NEW late \in BOOLEAN, StartRound(listed, ready, late)
  PROVE  NetInv'
<1>1. NetTypeOK /\ SamplesInv /\ CursorInv /\ DeadlineInv
      /\ HonestRates({net.total} \cup {net.rows[p] : p \in NetPods})
  BY DEF NetInv
<1>2. PICK N \in Nat : N = Cardinality(NetNodes) /\ NetNodes = 1..N
  BY NetFacts
<1> DEFINE queue == IF late THEN {} ELSE ready
<1>3. /\ ~scrapeRound.on
      /\ scrapeRound' = [NoRound EXCEPT !.on = TRUE, !.listed = listed, !.queue = queue, !.start = nextNode]
      /\ nextNode' = IF ready = {} \/ late THEN nextNode
                     ELSE CHOOSE n \in ready : Before(n, ready, nextNode) = Workers % Cardinality(ready)
      /\ waited' = IF late THEN waited
                   ELSE [n \in NetNodes |-> IF n \in ready \ FirstFew(ready, nextNode) THEN waited[n] + 1 ELSE 0]
      /\ UNCHANGED <<netClock, bytes, carried, prevSamples, out, net, netTick>>
  BY DEF StartRound
<1> HIDE DEF queue
<1>4. PICK c \in Nat : c = Cardinality(ready) /\ (ready # {} => c # 0)
  BY NetFacts, FS_Subset, FS_CardinalityType, FS_EmptySet
<1>5. nextNode \in NetNodes \cup {0} /\ \A n \in NetNodes : waited[n] \in Nat
  BY <1>1 DEF NetTypeOK
<1>6. ready # {} /\ ~late => nextNode' \in ready /\ Before(nextNode', ready, nextNode) = Workers % c
  <2>1. ready # {} => \E n \in ready : Before(n, ready, nextNode) = Workers % c
    <3> SUFFICES ASSUME ready # {} PROVE \E n \in ready : Before(n, ready, nextNode) = Workers % c
      OBVIOUS
    <3>1. PICK k \in 0..(c - 1) : k = Workers % c
      BY <1>4, NetFacts, SmallRemainder
    <3>2. \A x \in 0..(c - 1) : \E n \in ready : Before(n, ready, nextNode) = x
      BY <1>4, <1>5, BeforeFacts
    <3> QED BY <3>1, <3>2
  <2> QED BY <1>3, <1>4, <2>1
<1>7. ASSUME NEW n \in ready \ FirstFew(ready, nextNode), ~late
      PROVE  nextNode' \in ready /\ (IF nextNode = 0 THEN 1 + Turn(n, nextNode') < N
                                     ELSE 1 + Turn(n, nextNode') <= Turn(n, nextNode))
  <2>1. PICK w \in Nat \ {0} : w = Workers
    BY NetFacts
  <2>2. Before(n, ready, nextNode) >= w
    BY <1>5, <2>1, BeforeFacts DEF FirstFew
  <2>3. w < c
    BY <1>4, <1>5, <2>2, BeforeFacts
  <2>4. PICK s \in ready : s = nextNode' /\ Before(s, ready, nextNode) = w
    BY <1>4, <1>6, <1>7, <2>1, <2>3, SmallRemainder
  <2>5. ~(Turn(n, nextNode) < Turn(s, nextNode))
    <3>1. Turn(n, nextNode) < Turn(s, nextNode) => Before(n, ready, nextNode) < w
      BY <1>5, <2>4, BeforeFacts
    <3>2. Before(n, ready, nextNode) \in 0..(c - 1)
      BY <1>4, <1>5, BeforeFacts
    <3> QED BY <2>2, <3>1, <3>2
  <2>6. PICK m \in ready : Turn(m, nextNode) < Turn(s, nextNode)
    <3> SUFFICES ASSUME \A m \in ready : ~(Turn(m, nextNode) < Turn(s, nextNode)) PROVE FALSE
      OBVIOUS
    <3>1. {m \in ready : Turn(m, nextNode) < Turn(s, nextNode)} = {}
      OBVIOUS
    <3> QED BY <2>1, <2>4, <3>1, FS_EmptySet DEF Before
  <2>7. n \in 1..N /\ s \in 1..N /\ m \in 1..N /\ nextNode \in 0..N
    <3>1. n \in NetNodes /\ s \in NetNodes /\ m \in NetNodes
      OBVIOUS
    <3>2. n \in 1..N /\ s \in 1..N /\ m \in 1..N /\ nextNode \in (1..N) \cup {0}
      BY <1>2, <1>5, <3>1, Zenon
    <3> QED BY <3>2
  <2>8. IF nextNode = 0 THEN 1 + Turn(n, s) < N ELSE 1 + Turn(n, s) <= Turn(n, nextNode)
    BY <1>2, <2>5, <2>6, <2>7 DEF Turn
  <2> QED BY <2>4, <2>8
<1>8. nextNode' \in NetNodes \cup {0} /\ waited' \in [NetNodes -> Nat]
  <2>1. waited \in [NetNodes -> Nat]
    BY <1>1 DEF NetTypeOK
  <2> QED BY <1>3, <1>5, <1>6, <2>1
<1>9. \A n, s \in NetNodes : Turn(n, s) \in Nat /\ Turn(n, s) < N
  <2> SUFFICES ASSUME NEW n \in NetNodes, NEW s \in NetNodes
               PROVE  Turn(n, s) \in Nat /\ Turn(n, s) < N
    OBVIOUS
  <2>1. n \in 1..N /\ s \in 1..N
    BY <1>2
  <2>2. Turn(n, s) = IF n >= s THEN n - s ELSE n + N - s
    BY <1>2 DEF Turn
  <2> QED BY <2>1, <2>2
<1>10. CursorInv'
  <2> SUFFICES ASSUME NEW n \in NetNodes
               PROVE  IF nextNode' = 0 THEN waited'[n] = 0 ELSE waited'[n] + Turn(n, nextNode') < N
    BY <1>2 DEF CursorInv
  <2>3. CASE late
    BY <1>1, <1>2, <1>3, <2>3 DEF CursorInv
  <2>1. CASE ~late /\ n \in ready \ FirstFew(ready, nextNode)
    <3>1. waited'[n] = waited[n] + 1 /\ nextNode' \in NetNodes /\ nextNode' # 0
      BY <1>2, <1>3, <1>7, <2>1
    <3>2. IF nextNode = 0 THEN waited[n] = 0 ELSE waited[n] + Turn(n, nextNode) < N
      BY <1>1, <1>2 DEF CursorInv
    <3>3. Turn(n, nextNode') \in Nat /\ waited[n] \in Nat /\ (nextNode # 0 => Turn(n, nextNode) \in Nat)
      BY <1>5, <1>9, <3>1
    <3> QED BY <1>7, <2>1, <3>1, <3>2, <3>3
  <2>2. CASE ~late /\ ~(n \in ready \ FirstFew(ready, nextNode))
    <3>1. waited'[n] = 0
      BY <1>3, <2>2
    <3> QED BY <1>8, <1>9, <3>1
  <2> QED BY <2>1, <2>2, <2>3
<1>11. scrapeRound' \in RoundType /\ \A n \in NetNodes : scrapeRound'.cur[n] = NoSampleYet
  <2>1. queue \in SUBSET NetNodes
    BY DEF queue
  <2> QED BY <1>3, <1>5, <2>1, NoRoundFacts DEF RoundType
<1>12. NetTypeOK' /\ SamplesInv' /\ OutHonest'
  <2>1. NetTypeOK'
    BY <1>1, <1>3, <1>8, <1>11 DEF NetTypeOK
  <2>2. SamplesInv'
    <3>1. \A n \in NetNodes : scrapeRound.cur[n] = NoSampleYet
      BY <1>1, <1>3 DEF SamplesInv
    <3> QED BY <1>1, <1>3, <1>11, <3>1 DEF SamplesInv
  <2> QED BY <1>3, <2>1, <2>2, OutUnchanged
<1>13. DeadlineInv' /\ HonestRates({net.total} \cup {net.rows[p] : p \in NetPods})'
  BY <1>1, <1>3 DEF DeadlineInv, HonestRates
<1> QED BY <1>10, <1>12, <1>13 DEF NetInv

-----------------------------------------------------------------------------
(* The UI.                                                                 *)

\* The deadline kept is that of the first shown rate to expire.
LEMMA DeadlineFacts ==
  ASSUME NEW rws \in [NetPods -> Rates], NEW total \in Rates,
         \A r \in {total} \cup {rws[p] : p \in NetPods} : r.has => r.at # Never
  PROVE  /\ Deadline(Shown(rws, total)) \in Moments
         /\ \A r \in {total} \cup {rws[p] : p \in NetPods} :
              r.has => /\ Deadline(Shown(rws, total)) # Never
                       /\ Deadline(Shown(rws, total)) <= r.at + MaxAge
<1> DEFINE D == Deadline(Shown(rws, total))
<1>1. \A r \in {total} \cup {rws[p] : p \in NetPods} : r \in Rates /\ (r.has => r.at \in Nat)
  BY DEF Rates, Moments
<1>2. PICK S \in SUBSET Nat : S = Shown(rws, total)
  BY <1>1 DEF Shown
<1>3. \A r \in {total} \cup {rws[p] : p \in NetPods} : r.has => r.at \in S
  BY <1>2 DEF Shown
<1>4. PICK a \in Nat \ {0} : a = MaxAge
  BY NetFacts
<1>5. CASE S = {}
  <2>1. D = Never
    BY <1>2, <1>5 DEF Deadline
  <2> QED BY <1>3, <1>5, <2>1 DEF Moments
<1>6. CASE S # {}
  <2>1. PICK m \in Nat : m = Min(S) /\ \A x \in S : m <= x
    BY <1>6, MinOfSet
  <2>2. D = m + a
    BY <1>2, <1>4, <1>6, <2>1 DEF Deadline
  <2>3. D \in Nat /\ D # Never
    BY <2>2 DEF Never
  <2>4. \A r \in {total} \cup {rws[p] : p \in NetPods} : r.has => D <= r.at + a
    BY <1>1, <1>3, <2>1, <2>2
  <2> QED BY <1>4, <2>3, <2>4 DEF Moments
<1> QED BY <1>5, <1>6

\* What the UI needs to keep of the rates it shows.
LEMMA RatesShown ==
  ASSUME NetInv, UNCHANGED <<netClock, bytes, carried, prevSamples, nextNode, scrapeRound, waited>>,
         out' \in Seq(SnapshotType), OutHonest', netTick' \in 0..netClock,
         NEW rws \in [NetPods -> Rates], NEW total \in Rates, NEW ex \in Moments,
         NEW sn \in Moments, NEW pu \in Moments,
         net' = [rows |-> rws, total |-> total, snapshotAt |-> sn, expires |-> ex, pushed |-> pu],
         \A r \in {total} \cup {rws[p] : p \in NetPods} :
           /\ r.rx <= r.most
           /\ r.has => /\ r.at # Never /\ netTick' - r.at < MaxAge
                       /\ ex # Never /\ ex <= r.at + MaxAge
  PROVE  NetInv'
<1>1. NetTypeOK /\ SamplesInv /\ CursorInv
  BY DEF NetInv
<1>2. net'.rows = rws /\ net'.total = total /\ net'.expires = ex /\ net' \in NetType
  BY DEF NetType
<1>3. NetTypeOK'
  BY <1>1, <1>2 DEF NetTypeOK
<1>4. SamplesInv' /\ CursorInv'
  BY <1>1 DEF SamplesInv, CursorInv
<1>5. DeadlineInv'
  BY <1>2 DEF DeadlineInv
<1>6. HonestRates({net.total} \cup {net.rows[p] : p \in NetPods})'
  BY <1>2 DEF HonestRates
<1> QED BY <1>3, <1>4, <1>5, <1>6 DEF NetInv

\* What the screen shows, as one record with the facts of its rates.
LEMMA NetState ==
  ASSUME NetInv
  PROVE  \E rws \in [NetPods -> Rates], total \in Rates, ex \in Moments, sn \in Moments, pu \in Moments :
           /\ net = [rows |-> rws, total |-> total, snapshotAt |-> sn, expires |-> ex, pushed |-> pu]
           /\ \A r \in {total} \cup {rws[p] : p \in NetPods} :
                /\ r.rx <= r.most
                /\ r.has => /\ r.at # Never /\ netTick - r.at < MaxAge
                            /\ ex # Never /\ ex <= r.at + MaxAge
<1>1. net \in NetType
  BY DEF NetInv, NetTypeOK
<1>2. \A r \in {net.total} \cup {net.rows[p] : p \in NetPods} :
        /\ r.rx <= r.most
        /\ r.has => /\ r.at # Never /\ netTick - r.at < MaxAge
                    /\ net.expires # Never /\ net.expires <= r.at + MaxAge
  BY DEF NetInv, DeadlineInv, HonestRates
<1>3. /\ net = [rows |-> net.rows, total |-> net.total, snapshotAt |-> net.snapshotAt,
                expires |-> net.expires, pushed |-> net.pushed]
      /\ net.rows \in [NetPods -> Rates] /\ net.total \in Rates
      /\ net.snapshotAt \in Moments /\ net.expires \in Moments /\ net.pushed \in Moments
  BY <1>1 DEF NetType
<1> QED BY <1>2, <1>3

\* A rate with another mark keeps its values.
LEMMA Remarked ==
  ASSUME NEW r \in Rates, NEW b \in BOOLEAN
  PROVE  /\ [r EXCEPT !.has = b] \in Rates
         /\ [r EXCEPT !.has = b].rx = r.rx /\ [r EXCEPT !.has = b].most = r.most
         /\ [r EXCEPT !.has = b].at = r.at /\ ([r EXCEPT !.has = b].has <=> b)
BY DEF Rates

\* A rate keeps its amount when its time and mark are replaced.
LEMMA RemarkedAt ==
  ASSUME NEW r \in Rates, NEW b \in BOOLEAN, NEW at \in Moments
  PROVE  /\ [r EXCEPT !.at = at, !.has = b] \in Rates
         /\ [r EXCEPT !.at = at, !.has = b].rx = r.rx /\ [r EXCEPT !.at = at, !.has = b].most = r.most
         /\ [r EXCEPT !.at = at, !.has = b].at = at /\ ([r EXCEPT !.at = at, !.has = b].has <=> b)
BY DEF Rates

\* The tick of the screen drops the rates that are too old.
LEMMA ProbeTickKeeps == ASSUME NetInv, ProbeTick PROVE NetInv'
<1> DEFINE keep(r) == [r EXCEPT !.has = @ /\ Fresh(r.at, netClock)]
<1>1. /\ netTick' = netClock /\ netClock \in Nat
      /\ UNCHANGED <<netClock, bytes, carried, prevSamples, nextNode, scrapeRound, waited, out>>
  BY DEF ProbeTick, NetInv, NetTypeOK
<1>2. PICK rws \in [NetPods -> Rates], total \in Rates, ex \in Moments, sn \in Moments, pu \in Moments :
        /\ net = [rows |-> rws, total |-> total, snapshotAt |-> sn, expires |-> ex, pushed |-> pu]
        /\ \A r \in {total} \cup {rws[p] : p \in NetPods} :
             /\ r.rx <= r.most
             /\ r.has => /\ r.at # Never /\ netTick - r.at < MaxAge
                         /\ ex # Never /\ ex <= r.at + MaxAge
  BY NetState
<1>3. \A r \in {total} \cup {rws[p] : p \in NetPods} : r \in Rates
  OBVIOUS
<1>4. out' \in Seq(SnapshotType) /\ OutHonest' /\ netTick' \in 0..netClock
  BY <1>1, OutUnchanged
<1>5. PICK a \in Nat : a = MaxAge
  BY NetFacts
<1>6. CASE ex = Never \/ netClock < ex
  <2>1. net' = net
    BY <1>2, <1>6 DEF ProbeTick
  <2>2. \A r \in {total} \cup {rws[p] : p \in NetPods} : r.has => netTick' - r.at < MaxAge
    <3> SUFFICES ASSUME NEW r \in {total} \cup {rws[p] : p \in NetPods}, r.has
                 PROVE  netClock - r.at < a
      BY <1>1, <1>5
    <3>1. r.at \in Nat /\ ex \in Nat /\ netClock < ex /\ ex <= r.at + a
      BY <1>2, <1>3, <1>5, <1>6 DEF Rates, Moments
    <3> QED BY <1>1, <3>1
  <2> QED BY <1>1, <1>2, <1>4, <2>1, <2>2, RatesShown
<1>7. CASE ~(ex = Never \/ netClock < ex)
  <2>1. \A r \in {total} \cup {rws[p] : p \in NetPods} :
          /\ keep(r) \in Rates /\ keep(r).rx = r.rx /\ keep(r).most = r.most /\ keep(r).at = r.at
          /\ keep(r).has => r.has /\ Fresh(r.at, netClock)
    <3> SUFFICES ASSUME NEW r \in Rates
                 PROVE  /\ keep(r) \in Rates /\ keep(r).rx = r.rx /\ keep(r).most = r.most /\ keep(r).at = r.at
                        /\ keep(r).has => r.has /\ Fresh(r.at, netClock)
      BY <1>3
    <3>1. PICK b \in BOOLEAN : b = (r.has /\ Fresh(r.at, netClock))
      OBVIOUS
    <3>2. keep(r) = [r EXCEPT !.has = b]
      BY <3>1
    <3> HIDE DEF keep
    <3> QED BY <3>1, <3>2, Remarked
  <2>2. PICK rws2 \in [NetPods -> Rates] : rws2 = [p \in NetPods |-> keep(rws[p])]
    <3>1. \A p \in NetPods : keep(rws[p]) \in Rates
      BY <2>1
    <3> HIDE DEF keep
    <3> QED BY <3>1
  <2>3. PICK total2 \in Rates : total2 = keep(total)
    BY <2>1
  <2>4. net' = [net EXCEPT !.rows = rws2, !.total = total2, !.expires = Deadline(Shown(rws2, total2))]
    BY <1>2, <1>7, <2>2, <2>3 DEF ProbeTick
  <2>5. \A q \in {total2} \cup {rws2[p] : p \in NetPods} :
          q.rx <= q.most /\ (q.has => q.at # Never /\ netTick' - q.at < MaxAge)
    <3> HIDE DEF keep
    <3> SUFFICES ASSUME NEW q \in {total2} \cup {rws2[p] : p \in NetPods}
                 PROVE  q.rx <= q.most /\ (q.has => q.at # Never /\ netClock - q.at < MaxAge)
      BY <1>1
    <3>1. PICK r \in {total} \cup {rws[p] : p \in NetPods} : q = keep(r)
      BY <2>2, <2>3
    <3> QED BY <1>2, <2>1, <3>1 DEF Fresh
  <2> HIDE DEF keep
  <2>6. PICK ex2 \in Moments :
          /\ ex2 = Deadline(Shown(rws2, total2))
          /\ \A r \in {total2} \cup {rws2[p] : p \in NetPods} : r.has => ex2 # Never /\ ex2 <= r.at + MaxAge
    BY <2>5, DeadlineFacts
  <2>7. net' = [rows |-> rws2, total |-> total2, snapshotAt |-> sn, expires |-> ex2, pushed |-> pu]
    BY <1>2, <2>4, <2>6
  <2> QED BY <1>1, <1>4, <2>5, <2>6, <2>7, RatesShown
<1> QED BY <1>6, <1>7

\* The snapshot that arrives is honest, and so are those behind it.
LEMMA HeadOfOut ==
  ASSUME NetInv, out # <<>>
  PROVE  /\ Head(out) \in SnapshotType /\ Tail(out) \in Seq(SnapshotType)
         /\ HonestRates({Head(out).total} \cup {Head(out).rows[p] : p \in NetPods})
         /\ Head(out).total.at \in {Never, Head(out).at}
         /\ \A i \in DOMAIN Tail(out) : i + 1 \in DOMAIN out /\ Tail(out)[i] = out[i + 1]
<1>1. out \in Seq(SnapshotType) /\ OutHonest
  BY DEF NetInv, NetTypeOK
<1>2. 1 \in DOMAIN out /\ Head(out) = out[1]
  BY <1>1
<1>3. Head(out) \in SnapshotType /\ Tail(out) \in Seq(SnapshotType)
  BY <1>1
<1>4. \A i \in DOMAIN Tail(out) : i + 1 \in DOMAIN out /\ Tail(out)[i] = out[i + 1]
  BY <1>1
<1> QED BY SMTT(30), <1>1, <1>2, <1>3, <1>4 DEF OutHonest

\* One that is neither old nor empty replaces the rates.
LEMMA SnapshotReplaces ==
  ASSUME ApplySnapshot, ~(Head(out).at < net.snapshotAt), ~(~Head(out).ok /\ Head(out).scraped = 0)
  PROVE  LET snap == Head(out)
             fresh(r) == [r EXCEPT !.has = Fresh(r.at, netClock)]
             r == [p \in NetPods |-> fresh(snap.rows[p])]
             t == [fresh(snap.total) EXCEPT !.at = IF @ = Never THEN snap.at ELSE @,
                                            !.has = Fresh(snap.at, netClock)]
         IN  net' = [rows |-> r, total |-> t, snapshotAt |-> snap.at, expires |-> Deadline(Shown(r, t)),
                     pushed |-> IF snap.ok /\ t.has THEN Max({net.pushed, t.at}) ELSE net.pushed]
BY DEF ApplySnapshot

\* A snapshot that arrives is ignored, clears the rates or replaces them.
LEMMA ApplySnapshotKeeps == ASSUME NetInv, ApplySnapshot PROVE NetInv'
<1> DEFINE fresh(r) == [r EXCEPT !.has = Fresh(r.at, netClock)]
<1>1. /\ out # <<>> /\ out' = Tail(out) /\ netClock \in Nat /\ netTick \in 0..netClock
      /\ UNCHANGED <<netClock, bytes, carried, prevSamples, nextNode, scrapeRound, waited, netTick>>
  BY DEF ApplySnapshot, NetInv, NetTypeOK
<1>2. PICK rws \in [NetPods -> Rates], total \in Rates, ex \in Moments, sn \in Moments, pu \in Moments :
        /\ net = [rows |-> rws, total |-> total, snapshotAt |-> sn, expires |-> ex, pushed |-> pu]
        /\ \A r \in {total} \cup {rws[p] : p \in NetPods} :
             /\ r.rx <= r.most
             /\ r.has => /\ r.at # Never /\ netTick - r.at < MaxAge
                         /\ ex # Never /\ ex <= r.at + MaxAge
  BY NetState
<1>3. PICK snap \in SnapshotType :
        /\ snap = Head(out) /\ HonestRates({snap.total} \cup {snap.rows[p] : p \in NetPods})
        /\ snap.total.at \in {Never, snap.at}
  BY <1>1, HeadOfOut
<1>4. out' \in Seq(SnapshotType) /\ OutHonest'
  BY <1>1, HeadOfOut DEF OutHonest, HonestRates, NetInv
<1>5. /\ snap.at \in Nat /\ snap.at \in Moments /\ snap.at # Never
      /\ snap.total \in Rates /\ snap.rows \in [NetPods -> Rates]
  BY DEF SnapshotType, Moments, Never
<1>6. CASE snap.at < sn
  <2>1. net' = net
    BY <1>2, <1>3, <1>6 DEF ApplySnapshot
  <2> QED BY <1>1, <1>2, <1>4, <2>1, RatesShown
<1>7. CASE ~(snap.at < sn) /\ ~snap.ok /\ snap.scraped = 0
  <2>1. net' = [net EXCEPT !.rows = [p \in NetPods |-> [@[p] EXCEPT !.has = FALSE]],
                           !.total.has = FALSE, !.snapshotAt = snap.at, !.expires = Never]
    BY <1>2, <1>3, <1>7 DEF ApplySnapshot
  <2>2. PICK rws2 \in [NetPods -> Rates] :
          /\ rws2 = [p \in NetPods |-> [rws[p] EXCEPT !.has = FALSE]]
          /\ \A p \in NetPods : rws2[p].rx <= rws2[p].most /\ ~rws2[p].has
    <3>1. \A p \in NetPods : /\ [rws[p] EXCEPT !.has = FALSE] \in Rates
                             /\ [rws[p] EXCEPT !.has = FALSE].rx <= [rws[p] EXCEPT !.has = FALSE].most
                             /\ ~[rws[p] EXCEPT !.has = FALSE].has
      BY <1>2, Remarked
    <3> DEFINE rws2 == [p \in NetPods |-> [rws[p] EXCEPT !.has = FALSE]]
    <3>2. rws2 \in [NetPods -> Rates]
      BY <3>1
    <3>3. \A p \in NetPods : rws2[p].rx <= rws2[p].most /\ ~rws2[p].has
      BY <3>1
    <3> QED BY <3>2, <3>3
  <2>3. PICK total2 \in Rates : /\ total2 = [total EXCEPT !.has = FALSE]
                                /\ total2.rx <= total2.most /\ ~total2.has
    BY <1>2, Remarked
  <2>4. net' = [rows |-> rws2, total |-> total2, snapshotAt |-> snap.at, expires |-> Never, pushed |-> pu]
    BY <1>2, <2>1, <2>2, <2>3
  <2>5. \A r \in {total2} \cup {rws2[p] : p \in NetPods} : r.rx <= r.most /\ ~r.has
    BY <2>2, <2>3
  <2>6. Never \in Moments
    BY DEF Moments
  <2> QED BY <1>1, <1>4, <1>5, <2>4, <2>5, <2>6, RatesShown
<1>8. CASE ~(snap.at < sn) /\ ~(~snap.ok /\ snap.scraped = 0)
  <2>1. \A r \in Rates : /\ fresh(r) \in Rates /\ fresh(r).rx = r.rx /\ fresh(r).most = r.most
                         /\ fresh(r).at = r.at /\ (fresh(r).has => Fresh(r.at, netClock))
    <3> SUFFICES ASSUME NEW r \in Rates
                 PROVE  /\ fresh(r) \in Rates /\ fresh(r).rx = r.rx /\ fresh(r).most = r.most
                        /\ fresh(r).at = r.at /\ (fresh(r).has => Fresh(r.at, netClock))
      OBVIOUS
    <3>1. PICK b \in BOOLEAN : b = Fresh(r.at, netClock)
      BY DEF Fresh
    <3>2. fresh(r) = [r EXCEPT !.has = b]
      BY <3>1
    <3> HIDE DEF fresh
    <3> QED BY <3>1, <3>2, Remarked
  <2>2. PICK rws2 \in [NetPods -> Rates] : rws2 = [p \in NetPods |-> fresh(snap.rows[p])]
    <3> HIDE DEF fresh
    <3> QED BY <1>5, <2>1
  <2>3. PICK total2 \in Rates :
          /\ total2 = [fresh(snap.total) EXCEPT !.at = IF @ = Never THEN snap.at ELSE @,
                                                !.has = Fresh(snap.at, netClock)]
          /\ total2.rx = snap.total.rx /\ total2.most = snap.total.most /\ total2.at = snap.at
          /\ total2.has => Fresh(snap.at, netClock)
    <3>1. PICK b \in BOOLEAN : b = Fresh(snap.at, netClock)
      BY DEF Fresh
    <3>2. PICK f \in Rates : f = fresh(snap.total) /\ f.rx = snap.total.rx /\ f.most = snap.total.most
                             /\ f.at = snap.total.at
      BY <1>5, <2>1
    <3> HIDE DEF fresh
    <3>3. (IF f.at = Never THEN snap.at ELSE f.at) = snap.at
      BY <1>3, <3>2
    <3>4. [fresh(snap.total) EXCEPT !.at = IF @ = Never THEN snap.at ELSE @, !.has = Fresh(snap.at, netClock)]
            = [f EXCEPT !.at = snap.at, !.has = b]
      BY <3>1, <3>2, <3>3
    <3>a. PICK z \in Moments : z = snap.at
      BY <1>5
    <3> DEFINE e == [f EXCEPT !.at = z, !.has = b]
    <3>b. e \in Rates /\ e.rx = f.rx /\ e.most = f.most /\ e.at = z /\ (e.has <=> b)
      <4>1. e \in Rates BY DEF Rates
      <4>2. e.rx = f.rx /\ e.most = f.most BY DEF Rates
      <4>3. e.at = z /\ (e.has <=> b) BY DEF Rates
      <4> QED BY <4>1, <4>2, <4>3
    <3>5. e \in Rates /\ e.rx = f.rx /\ e.most = f.most /\ e.at = snap.at /\ (e.has <=> b)
      BY <3>a, <3>b
    <3>6. e = [fresh(snap.total) EXCEPT !.at = IF @ = Never THEN snap.at ELSE @, !.has = Fresh(snap.at, netClock)]
      BY <3>4, <3>a
    <3> HIDE DEF e
    <3>7. e.has => Fresh(snap.at, netClock)
      BY <3>1, <3>5
    <3> QED BY <3>2, <3>5, <3>6, <3>7
  <2>4. net' = [rows |-> rws2, total |-> total2, snapshotAt |-> snap.at,
                expires |-> Deadline(Shown(rws2, total2)),
                pushed |-> IF snap.ok /\ total2.has THEN Max({net.pushed, total2.at}) ELSE net.pushed]
    <3> DEFINE r == [p \in NetPods |-> fresh(snap.rows[p])]
               t == [fresh(snap.total) EXCEPT !.at = IF @ = Never THEN snap.at ELSE @,
                                              !.has = Fresh(snap.at, netClock)]
    <3>1. net.snapshotAt = sn
      BY <1>2
    <3>2. net' = [rows |-> r, total |-> t, snapshotAt |-> snap.at, expires |-> Deadline(Shown(r, t)),
                  pushed |-> IF snap.ok /\ t.has THEN Max({net.pushed, t.at}) ELSE net.pushed]
      BY <1>3, <1>8, <3>1, SnapshotReplaces
    <3>3. r = rws2 /\ t = total2
      BY <2>2, <2>3
    <3> HIDE DEF r, t
    <3> QED BY <3>2, <3>3
  <2>5. \A q \in {total2} \cup {rws2[p] : p \in NetPods} :
          q.rx <= q.most /\ (q.has => q.at # Never /\ netTick' - q.at < MaxAge)
    <3> HIDE DEF fresh
    <3> SUFFICES ASSUME NEW q \in {total2} \cup {rws2[p] : p \in NetPods}
                 PROVE  q.rx <= q.most /\ (q.has => q.at # Never /\ Fresh(q.at, netClock))
      <4>1. PICK a \in Nat, t \in Nat : a = MaxAge /\ t = netTick /\ t <= netClock
        BY <1>1, NetFacts
      <4>2. \A x \in Nat : Fresh(x, netClock) => t - x < a
        BY <1>1, <4>1 DEF Fresh
      <4>3. \A q2 \in {total2} \cup {rws2[p] : p \in NetPods} : q2.at # Never => q2.at \in Nat
        BY DEF Rates, Moments
      <4> QED BY <1>1, <4>1, <4>2, <4>3
    <3>1. CASE q = total2
      BY <1>3, <1>5, <2>3, <3>1 DEF HonestRates
    <3>2. CASE q # total2
      <4>1. PICK p \in NetPods : q = fresh(snap.rows[p])
        BY <2>2, <3>2
      <4>2. snap.rows[p] \in Rates /\ snap.rows[p].rx <= snap.rows[p].most
        BY <1>3, <1>5 DEF HonestRates
      <4> QED BY <2>1, <4>1, <4>2 DEF Fresh
    <3> QED BY <3>1, <3>2
  <2> HIDE DEF fresh
  <2>6. PICK ex2 \in Moments :
          /\ ex2 = Deadline(Shown(rws2, total2))
          /\ \A r \in {total2} \cup {rws2[p] : p \in NetPods} : r.has => ex2 # Never /\ ex2 <= r.at + MaxAge
    BY <2>5, DeadlineFacts
  <2>7. PICK pu2 \in Moments :
          pu2 = IF snap.ok /\ total2.has THEN Max({net.pushed, total2.at}) ELSE net.pushed
    <3>1. net.pushed = pu /\ total2.at = snap.at
      BY <1>2, <2>3
    <3>2. Max({pu, snap.at}) \in Moments
      <4>1. \E x \in {pu, snap.at} : \A y \in {pu, snap.at} : x >= y
        BY <1>5 DEF Moments, Never
      <4>2. Max({pu, snap.at}) \in {pu, snap.at}
        BY <4>1 DEF Max
      <4> QED BY <1>5, <4>2
    <3> QED BY <3>1, <3>2
  <2> QED BY <1>1, <1>4, <1>5, <2>4, <2>5, <2>6, <2>7, RatesShown
<1> QED BY <1>6, <1>7, <1>8

\* The invariant holds before the first round.
LEMMA NetInitially == NetInit => NetInv
<1> SUFFICES ASSUME NetInit PROVE NetInv
  OBVIOUS
<1>1. NoRate \in Rates /\ NoRate.rx = 0 /\ NoRate.most = 0 /\ ~NoRate.has
  BY DEF NoRate, Rates, Moments
<1>2. NoSampleYet \in Samples
  BY DEF Samples
<1>3. NetTypeOK
  <2>1. net \in NetType
    BY <1>1 DEF NetInit, NetType, Moments
  <2> QED BY <1>2, <2>1, NoRoundFacts DEF NetInit, NetTypeOK
<1>4. SamplesInv
  BY NoRoundFacts DEF NetInit, SamplesInv
<1>5. OutHonest /\ CursorInv
  BY DEF NetInit, OutHonest, CursorInv
<1>6. \A r \in {net.total} \cup {net.rows[p] : p \in NetPods} : r = NoRate
  BY DEF NetInit
<1>7. DeadlineInv /\ HonestRates({net.total} \cup {net.rows[p] : p \in NetPods})
  BY <1>1, <1>6 DEF DeadlineInv, HonestRates
<1> QED BY <1>3, <1>4, <1>5, <1>7 DEF NetInv

\* Every step keeps the invariant.
LEMMA NetStep == ASSUME NetInv, [NetNext]_netVars PROVE NetInv'
<1>1. ASSUME NEW n \in NetNodes, Traffic(n) \/ RestartCounters(n) \/ \E ok \in BOOLEAN : Scrape(n, ok)
      PROVE  NetInv'
  BY <1>1, TrafficKeeps, RestartCountersKeeps, ScrapeKeeps
<1>2. ASSUME NEW listed \in SUBSET NetNodes, NEW ready \in SUBSET NetNodes,
             NEW late \in BOOLEAN, StartRound(listed, ready, late)
      PROVE  NetInv'
  BY <1>2, StartRoundKeeps
<1>3. CASE ListFails \/ EndScrapes \/ ApplySnapshot \/ ProbeTick \/ TimePasses
  BY <1>3, ListFailsKeeps, EndScrapesKeeps, ApplySnapshotKeeps, ProbeTickKeeps, TimePassesKeeps
<1>4. CASE UNCHANGED netVars
  <2>1. UNCHANGED <<netClock, bytes, carried, prevSamples, nextNode, scrapeRound, waited, out, net, netTick>>
    BY <1>4 DEF netVars
  <2>2. NetTypeOK /\ SamplesInv
    BY DEF NetInv
  <2>3. SamplesInv'
    BY <2>1, <2>2 DEF SamplesInv
  <2> QED BY <2>1, <2>2, <2>3, OutUnchanged, PollerMoves DEF NetTypeOK
<1> QED BY <1>1, <1>2, <1>3, <1>4 DEF NetNext

\* networkRates, scrapeNodes and the UI's expiry keep account: of what passed on
\* a node since its last sample, of how near the cursor is to each node that was
\* passed over, and of a deadline no later than the end of any rate shown.
THEOREM NetInvariance == NetSpec => []NetInv
<1>1. NetInv /\ [NetNext]_netVars => NetInv'
  BY NetStep
<1> QED BY <1>1, NetInitially, PTL DEF NetSpec

\* No rate is shown that is more than what passed between two samples of each
\* node, or too old, and no node waits for its scrape for ever, whatever nodes,
\* pods, workers and restarts there are.
THEOREM NetworkIsTruthful == NetSpec => []NetworkTruthful
<1>1. NetInv => NetworkTruthful
  <2> SUFFICES ASSUME NetInv PROVE NetworkTruthful
    OBVIOUS
  <2>1. \A r \in {net.total} \cup {net.rows[p] : p \in NetPods} : r \in Rates
    BY DEF NetInv, NetTypeOK, NetType
  <2>2. RatesHonest
    BY <2>1 DEF RatesHonest, NetInv, HonestRates, Rates
  <2>3. NothingStaleShown
    BY DEF NothingStaleShown, NetInv, DeadlineInv
  <2>4. NoNodeStarved
    <3> SUFFICES ASSUME NEW n \in NetNodes PROVE waited[n] < Cardinality(NetNodes)
      BY DEF NoNodeStarved
    <3>1. PICK N \in Nat : N = Cardinality(NetNodes) /\ N # 0
      BY NetFacts, FS_EmptySet
    <3>2. waited[n] \in Nat /\ nextNode \in NetNodes \cup {0}
      BY DEF NetInv, NetTypeOK
    <3>3. Turn(n, nextNode) \in Nat
      BY <3>2, TurnFacts
    <3>4. IF nextNode = 0 THEN waited[n] = 0 ELSE waited[n] + Turn(n, nextNode) < N
      BY <3>1 DEF NetInv, CursorInv
    <3> QED BY <3>1, <3>2, <3>3, <3>4
  <2> QED BY <2>2, <2>3, <2>4 DEF NetworkTruthful
<1> QED BY <1>1, NetInvariance, PTL

-----------------------------------------------------------------------------
(* The trust list.                                                         *)

\* The content of a file that is there may be put on the list.
LEMMA HashesAreContents == ASSUME TrustTypeOK, NEW S \in SUBSET Files PROVE HashesOf(S) \subseteq Contents
BY DEF TrustTypeOK, HashesOf, NoFile

\* A program that has ended is one.
LEMMA NoProgType == ASSUME prog' = NoProg PROVE prog' \in ProgType'
BY DEF NoProg, ProgType

\* The invariant holds before the first start.
LEMMA TrustInitially == TrustInit => TrustInv
BY TrustAssumption DEF TrustInit, TrustInv, TrustTypeOK, ListKept, CarriedInv, NoProg, ProgType, NoFile

\* A step of the program that ends it leaves nothing to carry.
LEMMA EndKeeps ==
  ASSUME TrustInv, prog' = NoProg, UNCHANGED <<content, list, blessed>>, tmp' \in {{}, tmp}
  PROVE  TrustInv'
<1>1. prog' \in ProgType' /\ prog'.pc = "off"
  BY NoProgType DEF NoProg
<1>2. TrustTypeOK'
  BY <1>1 DEF TrustTypeOK, TrustInv
<1> QED BY <1>1, <1>2 DEF TrustInv, CarriedInv, ListKept

\* A step of the program that only moves it on carries what it carried.
LEMMA MoveKeeps ==
  ASSUME TrustInv, prog' \in ProgType', prog.pc # "off", prog'.hashes = prog.hashes, prog'.lost = prog.lost,
         prog'.pc # "renaming", UNCHANGED <<content, list, blessed>>, tmp' \in {{}, tmp}
  PROVE  TrustInv'
<1>1. TrustTypeOK'
  BY DEF TrustTypeOK, TrustInv
<1> QED BY <1>1 DEF TrustInv, CarriedInv, ListKept

\* Every step keeps the invariant; <1>12 is those of others.
LEMMA TrustStep == ASSUME TrustInv, [TrustNext]_trustVars PROVE TrustInv'
<1> USE DEF TrustInv
<1>1. ASSUME LaunchNormal PROVE TrustInv'
  <2>1. LoadedHashes \subseteq Contents /\ blessed \subseteq LoadedHashes
    BY <1>1 DEF LaunchNormal, LoadedHashes, FailsClosed, TrustTypeOK, CarriedInv, ListKept
  <2>2. prog' = [NoProg EXCEPT !.pc = "discovering", !.hashes = LoadedHashes]
        /\ UNCHANGED <<content, list, tmp, blessed>>
    BY <1>1 DEF LaunchNormal
  <2>3. prog' \in ProgType' /\ prog'.pc = "discovering" /\ prog'.hashes = LoadedHashes
    BY <2>1, <2>2 DEF NoProg, ProgType
  <2>4. TrustTypeOK'
    BY <2>2, <2>3 DEF TrustTypeOK
  <2> QED BY <2>1, <2>2, <2>3, <2>4 DEF CarriedInv, ListKept
<1>2. ASSUME LaunchTrust PROVE TrustInv'
  <2> DEFINE lost == list.there /\ ~list.readable
             hashes == LoadedHashes \cup HashesOf(Present)
  <2>1. hashes \subseteq Contents /\ (~lost => blessed \subseteq hashes)
    <3>1. LoadedHashes \subseteq Contents /\ (~lost => blessed \subseteq LoadedHashes)
      BY DEF LoadedHashes, TrustTypeOK, CarriedInv, ListKept
    <3>2. HashesOf(Present) \subseteq Contents
      BY HashesAreContents DEF Present
    <3> QED BY <3>1, <3>2
  <2>2. prog' = [NoProg EXCEPT !.pc = "saving", !.trust = TRUE, !.lost = lost, !.hashes = hashes]
        /\ UNCHANGED <<content, list, tmp, blessed>>
    BY <1>2 DEF LaunchTrust
  <2>0. lost \in BOOLEAN
    BY DEF TrustTypeOK
  <2> HIDE DEF lost, hashes
  <2>3. prog' \in ProgType' /\ prog'.pc = "saving" /\ prog'.hashes = hashes /\ (prog'.lost <=> lost)
    BY <2>0, <2>1, <2>2 DEF NoProg, ProgType
  <2>4. TrustTypeOK'
    BY <2>2, <2>3 DEF TrustTypeOK
  <2> QED BY <2>1, <2>2, <2>3, <2>4 DEF CarriedInv, ListKept
<1>3. ASSUME DiscoverTrusted PROVE TrustInv'
  <2>1. UNCHANGED <<content, list, tmp, blessed>> /\ prog.pc = "discovering" /\ prog \in ProgType
    BY <1>3 DEF DiscoverTrusted, TrustTypeOK
  <2>2. \/ prog' = NoProg
        \/ prog' = [prog EXCEPT !.pc = "loading", !.files = Present]
        \/ \E S \in SUBSET Files : prog' = [prog EXCEPT !.pc = "asking", !.files = S]
    BY <1>3 DEF DiscoverTrusted, Present
  <2>3. CASE prog' = NoProg
    BY <2>1, <2>3, EndKeeps
  <2>4. CASE prog' # NoProg
    <3>1. PICK S \in SUBSET Files, pc \in {"loading", "asking"} : prog' = [prog EXCEPT !.pc = pc, !.files = S]
      BY <2>2, <2>4 DEF Present
    <3>2. prog' \in ProgType' /\ prog'.pc = pc /\ prog'.hashes = prog.hashes /\ prog'.lost = prog.lost
      BY <2>1, <3>1 DEF ProgType
    <3> QED BY <2>1, <3>2, MoveKeeps
  <2> QED BY <2>3, <2>4
<1>4. ASSUME NEW yes \in BOOLEAN, AnswerPrompt(yes) PROVE TrustInv'
  <2>1. UNCHANGED <<content, list, tmp, blessed>> /\ prog.pc = "asking" /\ prog \in ProgType
    BY <1>4 DEF AnswerPrompt, TrustTypeOK
  <2>2. CASE yes
    <3>1. PICK h \in SUBSET Contents : h = prog.hashes \cup HashesOf(prog.files)
      BY <2>1, HashesAreContents DEF ProgType
    <3>2. prog' = [prog EXCEPT !.pc = "saving", !.hashes = h]
      BY <1>4, <2>2, <3>1 DEF AnswerPrompt
    <3>3. prog' \in ProgType' /\ prog'.pc = "saving" /\ prog'.hashes = h /\ prog'.lost = prog.lost
      BY <2>1, <3>2 DEF ProgType
    <3>4. TrustTypeOK'
      BY <2>1, <3>3 DEF TrustTypeOK
    <3> QED BY <2>1, <3>1, <3>3, <3>4 DEF CarriedInv, ListKept
  <2>3. CASE ~yes
    BY <1>4, <2>1, <2>3, EndKeeps DEF AnswerPrompt, Ends
  <2> QED BY <2>2, <2>3
<1>5. ASSUME BeginSave PROVE TrustInv'
  <2>1. tmp' = {} /\ UNCHANGED <<content, list, blessed>> /\ prog.pc = "saving" /\ prog \in ProgType
        /\ prog' = [prog EXCEPT !.pc = "writing"]
    BY <1>5 DEF BeginSave, OpenTmp, TrustTypeOK
  <2>2. prog' \in ProgType' /\ prog'.pc = "writing" /\ prog'.hashes = prog.hashes /\ prog'.lost = prog.lost
    BY <2>1 DEF ProgType
  <2> QED BY <2>1, <2>2, MoveKeeps
<1>6. ASSUME WriteTmp PROVE TrustInv'
  <2>1. tmp' = prog.hashes /\ UNCHANGED <<content, list, blessed>> /\ prog.pc = "writing" /\ prog \in ProgType
        /\ prog' = [prog EXCEPT !.pc = "renaming"]
    BY <1>6 DEF WriteTmp, TrustTypeOK
  <2>2. prog' \in ProgType' /\ prog'.hashes = prog.hashes /\ prog'.lost = prog.lost
        /\ prog.hashes \subseteq Contents
    BY <2>1 DEF ProgType
  <2>3. TrustTypeOK'
    BY <2>1, <2>2 DEF TrustTypeOK
  <2> QED BY <2>1, <2>2, <2>3 DEF CarriedInv, ListKept
<1>7. ASSUME SaveFails PROVE TrustInv'
  BY <1>7, EndKeeps DEF SaveFails, Ends
<1>8. ASSUME RenameTmp PROVE TrustInv'
  <2>1. /\ prog.pc = "renaming" /\ prog \in ProgType /\ tmp = prog.hashes /\ tmp \subseteq Contents
        /\ list' = [there |-> TRUE, readable |-> TRUE, hashes |-> tmp] /\ tmp' = {}
        /\ blessed' = IF prog.lost THEN tmp ELSE blessed \cup tmp
        /\ content' = content
    BY <1>8 DEF RenameTmp, TrustTypeOK, CarriedInv
  <2>2. blessed' \subseteq tmp
    BY <2>1 DEF CarriedInv
  <2>3. prog' = NoProg \/ prog' = [prog EXCEPT !.pc = "rediscovering"]
    BY <1>8 DEF RenameTmp, Ends
  <2>4. prog' \in ProgType' /\ prog'.pc # "renaming" /\ (prog'.pc # "off" => prog'.hashes = tmp)
    <3>1. CASE prog' = NoProg
      BY <3>1, NoProgType DEF NoProg
    <3>2. CASE prog' = [prog EXCEPT !.pc = "rediscovering"]
      BY <2>1, <3>2 DEF ProgType
    <3> QED BY <2>3, <3>1, <3>2
  <2>5. TrustTypeOK'
    BY <2>1, <2>4 DEF TrustTypeOK
  <2> QED BY <2>1, <2>2, <2>4, <2>5 DEF CarriedInv, ListKept
<1>9. ASSUME Rediscover PROVE TrustInv'
  <2>1. UNCHANGED <<content, list, tmp, blessed>> /\ prog.pc = "rediscovering" /\ prog \in ProgType
    BY <1>9 DEF Rediscover, TrustTypeOK
  <2>2. CASE prog' = NoProg
    BY <2>1, <2>2, EndKeeps
  <2>3. CASE prog' # NoProg
    <3>1. PICK S \in SUBSET Files : prog' = [prog EXCEPT !.pc = "loading", !.files = S]
      BY <1>9, <2>3 DEF Rediscover, Present
    <3>2. prog' \in ProgType' /\ prog'.pc = "loading" /\ prog'.hashes = prog.hashes /\ prog'.lost = prog.lost
      BY <2>1, <3>1 DEF ProgType
    <3> QED BY <2>1, <3>2, MoveKeeps
  <2> QED BY <2>2, <2>3
<1>10. ASSUME LoadContexts PROVE TrustInv'
  <2>1. UNCHANGED <<content, list, tmp, blessed>> /\ prog.pc = "loading" /\ prog \in ProgType
    BY <1>10 DEF LoadContexts, TrustTypeOK
  <2>2. CASE prog' = NoProg
    BY <2>1, <2>2, EndKeeps
  <2>3. CASE prog' # NoProg
    <3>1. PICK refs : prog' = [prog EXCEPT !.pc = "started", !.refs = refs, !.names = NamesOf(refs)]
      BY <1>10, <2>3 DEF LoadContexts
    <3>2. prog' \in ProgType' /\ prog'.pc = "started" /\ prog'.hashes = prog.hashes /\ prog'.lost = prog.lost
      BY <2>1, <3>1 DEF ProgType
    <3> QED BY <2>1, <3>2, MoveKeeps
  <2> QED BY <2>2, <2>3
<1>11. ASSUME EndOrCrash PROVE TrustInv'
  BY <1>11, EndKeeps DEF EndOrCrash, Ends
<1>12. ASSUME UNCHANGED <<tmp, prog>>, content' \in [Files -> Contents \cup {NoFile}],
              list' \in [there : BOOLEAN, readable : BOOLEAN, hashes : SUBSET Contents],
              \/ blessed' = blessed /\ list'.there = list.there /\ list'.hashes = list.hashes
              \/ blessed' = {}
       PROVE  TrustInv'
  <2>1. prog' \in ProgType'
    BY <1>12 DEF TrustTypeOK, ProgType
  <2>2. TrustTypeOK'
    BY <1>12, <2>1 DEF TrustTypeOK
  <2> QED BY <1>12, <2>2 DEF CarriedInv, ListKept
<1>13. ASSUME NEW f \in Files, NEW c \in Contents \cup {NoFile}, EditKubeconfig(f, c) PROVE TrustInv'
  BY <1>12, <1>13 DEF EditKubeconfig, TrustTypeOK
<1>14. ASSUME RemoveList PROVE TrustInv'
  BY <1>12, <1>14 DEF RemoveList, TrustTypeOK
<1>15. ASSUME NEW on \in BOOLEAN, SetReadable(on) PROVE TrustInv'
  BY <1>12, <1>15 DEF SetReadable, TrustTypeOK
<1>16. ASSUME UNCHANGED trustVars PROVE TrustInv'
  BY <1>12, <1>16 DEF trustVars, TrustTypeOK
<1> QED
  BY <1>1, <1>2, <1>3, <1>4, <1>5, <1>6, <1>7, <1>8, <1>9, <1>10, <1>11, <1>13, <1>14, <1>15, <1>16
     DEF TrustNext

\* A start carries every hash on the list until it renames what it wrote.
THEOREM TrustInvariance == TrustSpec => []TrustInv
BY TrustInitially, TrustStep, PTL DEF TrustSpec

\* Only removing the list, or -trust on one it cannot read, takes a hash from
\* it, whatever fails, is killed or edited in between.
THEOREM TrustIsKept == TrustSpec => []ListKept
BY TrustInvariance, PTL DEF TrustInv

-----------------------------------------------------------------------------
(* The names of the contexts.  Each is given when those before it are      *)
(* known; one that has to differ finds a free number, as there are more    *)
(* numbers than names in use.                                              *)

\* What there can be references to: a raw name and a file.
RefSet == (DOMAIN NameOf) \X Files

\* No more references than names and files make, and the numbers are enough.
LEMMA RefFacts ==
  ASSUME NEW S \in SUBSET Files
  PROVE  /\ RefsOf(S) \in Seq(RefSet)
         /\ 2 * Len(RefsOf(S)) + 1 < Len(Suffix)
<1> DEFINE refs == {r \in (DOMAIN NameOf) \X S : content[r[2]] # NoFile /\ r[1] \in ContextsOf[content[r[2]]]}
           R == RefBefore(refs)
<1>1. /\ IsFiniteSet(Files) /\ Files \subseteq Nat /\ DOMAIN NameOf = 1..Len(NameOf) /\ Len(NameOf) \in Nat
      /\ Len(Suffix) \in Nat /\ Len(Suffix) >= 2 * Len(NameOf) * Cardinality(Files) + 2
  <2>1. NameOf \in Seq(Seq(STRING)) /\ Suffix \in Seq(STRING)
    BY TrustAssumption
  <2> QED BY <2>1, TrustAssumption
<1>2. IsFiniteSet(1..Len(NameOf)) /\ Cardinality(1..Len(NameOf)) = Len(NameOf)
  <2>1. 1 \in Int /\ Len(NameOf) \in Int
    BY <1>1
  <2>2. /\ IsFiniteSet(1..Len(NameOf))
        /\ Cardinality(1..Len(NameOf)) = IF 1 > Len(NameOf) THEN 0 ELSE Len(NameOf) - 1 + 1
    BY <2>1, FS_Interval
  <2> QED BY <1>1, <2>2
<1>3. IsFiniteSet(RefSet) /\ Cardinality(RefSet) = Len(NameOf) * Cardinality(Files)
  BY <1>1, <1>2, FS_Product DEF RefSet
<1>4. refs \in SUBSET RefSet
  BY DEF RefSet
<1>5. IsFiniteSet(refs) /\ Cardinality(refs) <= Len(NameOf) * Cardinality(Files) /\ Cardinality(refs) \in Nat
  <2>1. IsFiniteSet(refs) /\ Cardinality(refs) <= Cardinality(RefSet)
    BY <1>3, <1>4, FS_Subset
  <2> QED BY <1>3, <2>1, FS_CardinalityType
<1>6. \A r \in refs : r[1] \in Nat /\ r[2] \in Nat /\ r = <<r[1], r[2]>>
  <2>1. refs \subseteq (1..Len(NameOf)) \X Files
    BY <1>1
  <2> HIDE DEF refs
  <2>2. \A r \in (1..Len(NameOf)) \X Files : r[1] \in 1..Len(NameOf) /\ r[2] \in Files /\ r = <<r[1], r[2]>>
    OBVIOUS
  <2>3. 1..Len(NameOf) \subseteq Nat /\ Files \subseteq Nat
    BY <1>1
  <2> QED BY <2>1, <2>2, <2>3
<1> HIDE DEF refs
<1>7. Orders(R, refs)
  <2>1. \A x, y \in refs : <<x, y>> \in R <=> x[1] < y[1] \/ (x[1] = y[1] /\ x[2] < y[2])
    BY DEF RefBefore
  <2>2. \A x, y \in refs : x # y => x[1] # y[1] \/ x[2] # y[2]
    BY <1>6
  <2> HIDE DEF R
  <2>3. \A x \in refs : <<x, x>> \notin R
    BY <1>6, <2>1
  <2>4. \A x, y, z \in refs : <<x, y>> \in R /\ <<y, z>> \in R => <<x, z>> \in R
    BY <1>6, <2>1
  <2>5. \A x, y \in refs : x # y => <<x, y>> \in R \/ <<y, x>> \in R
    BY <1>6, <2>1, <2>2
  <2> QED BY <2>3, <2>4, <2>5 DEF Orders
<1>8. InSequence(refs, R) \in Seq(refs) /\ Len(InSequence(refs, R)) = Cardinality(refs)
  BY <1>5, <1>7, SequenceLists DEF Lists
<1>9. RefsOf(S) = InSequence(refs, R)
  BY DEF RefsOf, refs
<1>10. InSequence(refs, R) \in Seq(RefSet)
  BY <1>4, <1>8
<1>11. Cardinality(Files) \in Nat
  BY <1>1, FS_CardinalityType
<1>12. 2 * Cardinality(refs) + 1 < Len(Suffix)
  <2>1. PICK k \in Nat : k = Len(NameOf) * Cardinality(Files)
    BY <1>1, <1>11
  <2>2. 2 * Len(NameOf) * Cardinality(Files) = 2 * k
    BY <1>1, <1>11, <2>1
  <2>3. Cardinality(refs) <= k /\ Len(Suffix) >= 2 * k + 2
    BY <1>1, <1>5, <2>1, <2>2
  <2> QED BY <1>1, <1>5, <2>3
<1> QED BY <1>8, <1>9, <1>10, <1>12

\* What m places hold.
Held(h, m) == {h[x] : x \in 1..m}

\* Fewer names than numbered labels leave one free.
LEMMA SomeFree ==
  ASSUME NEW m \in Nat, NEW h,
         NEW p \in Nat, m + 1 < p, NEW g, \A i, j \in 2..p : g[i] = g[j] => i = j
  PROVE  \E n \in 2..p : g[n] \notin Held(h, m)
<1> DEFINE T == Held(h, m)
<1> SUFFICES ASSUME \A n \in 2..p : g[n] \in T PROVE FALSE
  OBVIOUS
<1>1. IsFiniteSet(1..m) /\ Cardinality(1..m) = m
  <2>1. /\ IsFiniteSet(1..m)
        /\ Cardinality(1..m) = IF 1 > m THEN 0 ELSE m - 1 + 1
    BY FS_Interval
  <2> QED BY <2>1
<1>2. IsFiniteSet(2..p) /\ Cardinality(2..p) = p - 1
  <2>1. 2 \in Int /\ p \in Int
    OBVIOUS
  <2>2. /\ IsFiniteSet(2..p)
        /\ Cardinality(2..p) = IF 2 > p THEN 0 ELSE p - 2 + 1
    BY <2>1, FS_Interval
  <2> QED BY <2>2
<1>3. IsFiniteSet(T) /\ Cardinality(T) <= m /\ Cardinality(T) \in Nat
  <2> DEFINE f == [x \in 1..m |-> h[x]]
  <2>1. f \in Surjection(1..m, T)
    BY DEF Surjection, Held
  <2> HIDE DEF f, T
  <2>2. IsFiniteSet(T) /\ Cardinality(T) <= Cardinality(1..m)
    BY <1>1, <2>1, FS_Surjection
  <2> QED BY <1>1, <2>2, FS_CardinalityType
<1> DEFINE e == [n \in 2..p |-> g[n]]
<1>4. e \in [2..p -> T] /\ \A i, j \in 2..p : e[i] = e[j] => i = j
  OBVIOUS
<1> HIDE DEF e, T
<1>5. Cardinality(T) < Cardinality(2..p)
  BY <1>2, <1>3
<1>6. \E x, y \in 2..p : x # y /\ e[x] = e[y]
  BY <1>2, <1>3, <1>4, <1>5, FS_PigeonHole
<1> QED BY <1>4, <1>6

\* Labels with different numbers differ.
LEMMA NumbersDiffer ==
  ASSUME NEW r \in RefSet, NEW i \in 2..Len(Suffix), NEW j \in 2..Len(Suffix), Numbered(r, i) = Numbered(r, j)
  PROVE  i = j
<1>1. NameOf \in Seq(Seq(STRING)) /\ Suffix \in Seq(STRING) /\ Tails \in [Files -> Seq(STRING)]
  BY TrustAssumption
<1>2. r[1] \in DOMAIN NameOf /\ r[2] \in Files
  BY DEF RefSet
<1>3. NameOf[r[1]] \in Seq(STRING)
  BY <1>1, <1>2
<1>4. PICK t : t = Tails[r[2]][Len(Tails[r[2]])]
  OBVIOUS
<1>5. PICK base : base = Append(NameOf[r[1]], t)
  OBVIOUS
<1>6. \E S : base \in Seq(S) /\ \A k \in 1..Len(Suffix) : Suffix[k] \in S
  <2>1. NameOf[r[1]] \in Seq(STRING \cup {t}) /\ t \in STRING \cup {t}
    BY <1>3
  <2>2. base \in Seq(STRING \cup {t})
    BY <1>5, <2>1
  <2> QED BY <1>1, <2>2, SMTT(30)
<1>7. PICK S : base \in Seq(S) /\ \A k \in 1..Len(Suffix) : Suffix[k] \in S
  BY <1>6
<1>8. i \in 1..Len(Suffix) /\ j \in 1..Len(Suffix)
  OBVIOUS
<1>9. Append(base, Suffix[i]) = Append(base, Suffix[j])
  BY <1>4, <1>5 DEF Numbered, Label
<1>10. Suffix[i] = Suffix[j]
  BY <1>7, <1>8, <1>9
<1>11. DOMAIN Suffix = 1..Len(Suffix)
  BY <1>1
<1> QED BY <1>8, <1>10, <1>11, TrustAssumption

\* A name of its own is given to a reference of a shared one.
LEMMA NameForFacts ==
  ASSUME NEW refs \in Seq(RefSet), NEW i \in DOMAIN refs,
         NEW m \in Nat, NEW h, m + 1 < Len(Suffix)
  PROVE  IF Shared(refs, i) THEN NameFor(refs, i, Held(h, m)) \notin Held(h, m)
         ELSE NameFor(refs, i, Held(h, m)) = NameOf[refs[i][1]]
<1> DEFINE T == Held(h, m)
<1> HIDE DEF T
<1> SUFFICES IF Shared(refs, i) THEN NameFor(refs, i, T) \notin T ELSE NameFor(refs, i, T) = NameOf[refs[i][1]]
  BY DEF T
<1>1. CASE ~Shared(refs, i)
  BY <1>1 DEF NameFor
<1>2. CASE Shared(refs, i)
  <2> DEFINE candidates == Candidates(refs, i)
             good == {k \in DOMAIN candidates : Times(refs, candidates[k]) = 1 /\ candidates[k] \notin T}
             free == {n \in 2..Len(Suffix) : Numbered(refs[i], n) \notin T}
  <2>1. refs[i] \in RefSet /\ refs[i][2] \in Files
    BY DEF RefSet
  <2>2. Len(Suffix) \in Nat
    BY TrustAssumption
  <2>3. CASE good # {}
    <3>1. DOMAIN candidates = DOMAIN Tails[refs[i][2]]
      BY <1>2 DEF Candidates
    <3>2. DOMAIN Tails[refs[i][2]] \subseteq Nat
      <4>1. Tails \in [Files -> Seq(STRING)]
        BY TrustAssumption
      <4>2. Tails[refs[i][2]] \in Seq(STRING)
        BY <2>1, <4>1
      <4> QED BY <4>2
    <3>3. good \in SUBSET Nat
      BY <3>1, <3>2
    <3>4. \E k \in good : \A x \in good : k <= x
      <4> HIDE DEF good
      <4> QED BY <2>3, <3>3, LeastExists
    <3>5. (CHOOSE k \in good : \A x \in good : k <= x) \in good
      <4> HIDE DEF good
      <4> QED BY <3>4
    <3>6. NameFor(refs, i, T) = candidates[CHOOSE k \in good : \A x \in good : k <= x]
      BY <1>2, <2>3 DEF NameFor
    <3>7. \A k \in good : candidates[k] \notin T
      OBVIOUS
    <3> HIDE DEF good, candidates
    <3> QED BY <1>2, <3>5, <3>6, <3>7
  <2>4. CASE good = {}
    <3>1. \E n \in 2..Len(Suffix) : Numbered(refs[i], n) \notin T
      <4> DEFINE g == [n \in 2..Len(Suffix) |-> Numbered(refs[i], n)]
      <4>1. \A x, y \in 2..Len(Suffix) : g[x] = g[y] => x = y
        BY <2>1, NumbersDiffer
      <4>2. \A n \in 2..Len(Suffix) : g[n] = Numbered(refs[i], n)
        OBVIOUS
      <4> HIDE DEF g
      <4>3. \E n \in 2..Len(Suffix) : g[n] \notin T
        BY <2>2, <4>1, SomeFree DEF T
      <4> QED BY <4>2, <4>3
    <3>2. free \in SUBSET Nat /\ free # {}
      BY <2>2, <3>1
    <3>3. \A n \in free : Numbered(refs[i], n) \notin T
      OBVIOUS
    <3>4. NameFor(refs, i, T) = Numbered(refs[i], CHOOSE n \in free : \A x \in free : n <= x)
      BY <1>2, <2>4 DEF NameFor
    <3> HIDE DEF free
    <3>5. (CHOOSE n \in free : \A x \in free : n <= x) \in free
      BY <3>2, LeastExists
    <3> QED BY <1>2, <3>3, <3>4, <3>5
  <2> QED BY <2>3, <2>4
<1> QED BY <1>1, <1>2

\* The names in use when the i-th is given.
Taken(refs, f, i) == Reserved(refs) \cup {f[k] : k \in 1..(i - 1)}

\* Each name is the one for its place, after those before it.
LEMMA NamesAreGiven ==
  ASSUME NEW refs \in Seq(RefSet)
  PROVE  \A i \in DOMAIN refs : NamesOf(refs)[i] = NameFor(refs, i, Taken(refs, NamesOf(refs), i))
<1> DEFINE Given(f, n) == f = [i \in 1..n |-> NameFor(refs, i, Taken(refs, f, i))]
           G == {n \in Nat : \E f : Given(f, n)}
<1>1. 0 \in G
  <2>1. Given([i \in 1..0 |-> 0], 0)
    OBVIOUS
  <2> HIDE DEF Given
  <2> QED BY <2>1
<1>2. ASSUME NEW n \in Nat, n \in G PROVE n + 1 \in G
  <2>1. PICK f : Given(f, n)
    BY <1>2
  <2> DEFINE g == [i \in 1..(n + 1) |-> NameFor(refs, i, Taken(refs, f, i))]
  <2>2. \A k \in 1..n : f[k] = g[k]
    BY <2>1
  <2>3. ASSUME NEW i \in 1..(n + 1) PROVE Taken(refs, f, i) = Taken(refs, g, i)
    <3>1. \A k \in 1..(i - 1) : k \in 1..n
      OBVIOUS
    <3>2. \A k \in 1..(i - 1) : f[k] = g[k]
      BY <2>2, <3>1
    <3> HIDE DEF g
    <3> QED BY <3>2 DEF Taken
  <2>4. Given(g, n + 1)
    BY <2>3
  <2> HIDE DEF g, Given
  <2> QED BY <2>4
<1>3. DOMAIN refs = 1..Len(refs) /\ Len(refs) \in Nat
  OBVIOUS
<1>4. Len(refs) \in G
  <2> HIDE DEF G
  <2> QED BY <1>1, <1>2, <1>3, CountUp
<1>5. \E f : Given(f, Len(refs))
  BY <1>4
<1>6. \E f : f = [i \in DOMAIN refs |-> NameFor(refs, i, Reserved(refs) \cup {f[k] : k \in 1..(i - 1)})]
  BY <1>3, <1>5 DEF Taken
<1>7. NamesOf(refs) = [i \in DOMAIN refs |->
         NameFor(refs, i, Reserved(refs) \cup {NamesOf(refs)[k] : k \in 1..(i - 1)})]
  BY <1>6 DEF NamesOf
<1> QED BY <1>7 DEF Taken

\* No two references have one name, and none has the raw name of another.
LEMMA NamesDiffer ==
  ASSUME NEW refs \in Seq(RefSet), 2 * Len(refs) + 1 < Len(Suffix),
         NEW i \in DOMAIN refs, NEW j \in DOMAIN refs, i # j
  PROVE  /\ NamesOf(refs)[i] # NamesOf(refs)[j]
         /\ NamesOf(refs)[i] = NameOf[refs[j][1]] => refs[i][1] = refs[j][1]
<1> DEFINE f == NamesOf(refs)
<1>1. DOMAIN refs = 1..Len(refs) /\ Len(refs) \in Nat
  OBVIOUS
<1>2. ASSUME NEW k \in DOMAIN refs
      PROVE  IF Shared(refs, k) THEN f[k] \notin Taken(refs, f, k) ELSE f[k] = NameOf[refs[k][1]]
  <2>1. f[k] = NameFor(refs, k, Taken(refs, f, k))
    BY NamesAreGiven
  <2> HIDE DEF f
  <2> DEFINE n == Len(refs)
             m == n + k - 1
             h == [x \in 1..m |-> IF x <= n THEN NameOf[refs[x][1]] ELSE f[x - n]]
             T == Taken(refs, f, k)
  <2>2. k \in 1..n /\ n \in Nat /\ Len(Suffix) \in Nat
    BY <1>1, TrustAssumption
  <2>3. m \in Nat /\ m + 1 < Len(Suffix)
    BY <2>2
  <2>4. T = Held(h, m)
    <3>1. ASSUME NEW y \in T PROVE \E x \in 1..m : h[x] = y
      <4>1. CASE y \in Reserved(refs)
        <5>1. PICK x \in 1..n : y = NameOf[refs[x][1]]
          BY <1>1, <4>1 DEF Reserved
        <5>2. x \in 1..m /\ x <= n
          BY <2>2
        <5> QED BY <5>1, <5>2
      <4>2. CASE y \notin Reserved(refs)
        <5>1. PICK x \in 1..(k - 1) : y = f[x]
          BY <3>1, <4>2 DEF Taken
        <5>2. x + n \in 1..m /\ ~(x + n <= n) /\ (x + n) - n = x
          BY <2>2
        <5> QED BY <5>1, <5>2
      <4> QED BY <4>1, <4>2
    <3>2. ASSUME NEW x \in 1..m PROVE h[x] \in T
      <4>1. CASE x <= n
        <5>1. x \in DOMAIN refs
          BY <1>1, <2>2, <4>1
        <5> QED BY <4>1, <5>1 DEF Taken, Reserved
      <4>2. CASE ~(x <= n)
        <5>1. x - n \in 1..(k - 1)
          BY <2>2, <4>2
        <5>2. h[x] = f[x - n]
          BY <4>2
        <5> HIDE DEF h
        <5> QED BY <5>1, <5>2 DEF Taken
      <4> QED BY <4>1, <4>2
    <3> HIDE DEF h, T, m
    <3> QED BY <3>1, <3>2 DEF Held
  <2> HIDE DEF h, T, m, n
  <2>5. IF Shared(refs, k) THEN NameFor(refs, k, T) \notin T ELSE NameFor(refs, k, T) = NameOf[refs[k][1]]
    BY <2>3, <2>4, NameForFacts
  <2> QED BY <2>1, <2>5 DEF T
<1> HIDE DEF f
<1>3. \A k \in DOMAIN refs : refs[k][1] \in DOMAIN NameOf
  BY DEF RefSet
<1>4. \A k \in DOMAIN refs : NameOf[refs[k][1]] \in Reserved(refs)
  BY DEF Reserved
<1>5. \A k, l \in DOMAIN refs : k < l => f[k] \in Taken(refs, f, l)
  <2> SUFFICES ASSUME NEW k \in DOMAIN refs, NEW l \in DOMAIN refs, k < l PROVE f[k] \in Taken(refs, f, l)
    OBVIOUS
  <2>1. k \in 1..(l - 1)
    BY <1>1
  <2> QED BY <2>1 DEF Taken
<1>6. \A k \in DOMAIN refs : Reserved(refs) \subseteq Taken(refs, f, k)
  BY DEF Taken
<1>7. ASSUME NEW k \in DOMAIN refs, NEW l \in DOMAIN refs, k # l, f[k] = NameOf[refs[l][1]]
      PROVE  ~Shared(refs, k) /\ refs[k][1] = refs[l][1]
  <2>1. ~Shared(refs, k)
    BY <1>2, <1>4, <1>6, <1>7
  <2>2. NameOf[refs[k][1]] = NameOf[refs[l][1]]
    BY <1>2, <1>7, <2>1
  <2> QED BY <1>3, <2>1, <2>2, TrustAssumption
<1>8. ASSUME NEW k \in DOMAIN refs, NEW l \in DOMAIN refs, k < l
      PROVE  f[k] # f[l]
  <2>1. CASE Shared(refs, l)
    BY <1>2, <1>5, <1>8, <2>1
  <2>2. CASE ~Shared(refs, l)
    <3>1. f[l] = NameOf[refs[l][1]] /\ k # l
      BY <1>1, <1>2, <1>8, <2>2
    <3>2. f[k] = f[l] => refs[k][1] = refs[l][1]
      BY <1>7, <3>1
    <3>3. refs[k][1] # refs[l][1]
      BY <2>2, <3>1 DEF Shared
    <3> QED BY <3>2, <3>3
  <2> QED BY <2>1, <2>2
<1>9. i < j \/ j < i
  BY <1>1
<1> QED BY <1>7, <1>8, <1>9 DEF f

\* A start's names are distinct when it has them, and nothing changes them.
LEMMA NamesStep == ASSUME TrustInv, NamesDistinct, [TrustNext]_trustVars PROVE NamesDistinct'
<1>1. CASE LoadContexts
  <2>1. prog \in ProgType
    BY DEF TrustInv, TrustTypeOK
  <2>2. prog.files \in SUBSET Files
    BY <2>1 DEF ProgType
  <2> DEFINE refs == RefsOf(prog.files)
  <2>3. prog' = NoProg \/ prog' = [prog EXCEPT !.pc = "started", !.refs = refs, !.names = NamesOf(refs)]
    BY <1>1 DEF LoadContexts
  <2>4. refs \in Seq(RefSet) /\ 2 * Len(refs) + 1 < Len(Suffix)
    BY <2>2, RefFacts
  <2> HIDE DEF refs
  <2>5. CASE prog' = NoProg
    BY <2>5 DEF NamesDistinct, NoProg
  <2>6. CASE prog' # NoProg
    <3>1. prog'.refs = refs /\ prog'.names = NamesOf(refs)
      BY <2>1, <2>3, <2>6 DEF ProgType
    <3> QED BY <2>4, <3>1, NamesDiffer DEF NamesDistinct
  <2> QED BY <2>5, <2>6
<1>2. ASSUME prog'.pc # "started" \/ prog' = prog PROVE NamesDistinct'
  BY <1>2 DEF NamesDistinct
<1>3. prog \in ProgType /\ prog = [pc |-> prog.pc, trust |-> prog.trust, hashes |-> prog.hashes,
                                   lost |-> prog.lost, files |-> prog.files, refs |-> prog.refs, names |-> prog.names]
  BY DEF TrustInv, TrustTypeOK, ProgType
<1>4. NoProg.pc # "started"
  BY DEF NoProg
<1>5. CASE LaunchNormal \/ LaunchTrust
  BY <1>2, <1>5 DEF LaunchNormal, LaunchTrust, NoProg
<1>6. CASE DiscoverTrusted
  BY <1>2, <1>3, <1>4, <1>6 DEF DiscoverTrusted
<1>7. ASSUME NEW yes \in BOOLEAN, AnswerPrompt(yes) PROVE NamesDistinct'
  BY <1>2, <1>3, <1>4, <1>7 DEF AnswerPrompt, Ends
<1>8. CASE BeginSave \/ WriteTmp
  BY <1>2, <1>3, <1>8 DEF BeginSave, WriteTmp
<1>9. CASE SaveFails \/ EndOrCrash
  BY <1>2, <1>4, <1>9 DEF SaveFails, EndOrCrash, Ends
<1>10. CASE RenameTmp
  BY <1>2, <1>3, <1>4, <1>10 DEF RenameTmp, Ends
<1>11. CASE Rediscover
  BY <1>2, <1>3, <1>4, <1>11 DEF Rediscover
<1>12. CASE RemoveList \/ UNCHANGED trustVars
  BY <1>2, <1>12 DEF RemoveList, trustVars
<1>13. ASSUME NEW f \in Files, NEW c \in Contents \cup {NoFile}, EditKubeconfig(f, c) PROVE NamesDistinct'
  BY <1>2, <1>13 DEF EditKubeconfig
<1>14. ASSUME NEW on \in BOOLEAN, SetReadable(on) PROVE NamesDistinct'
  BY <1>2, <1>14 DEF SetReadable
<1> QED
  BY <1>1, <1>5, <1>6, <1>7, <1>8, <1>9, <1>10, <1>11, <1>12, <1>13, <1>14 DEF TrustNext

\* No two contexts of a start have one name, and none goes by the raw name of
\* another, for any files, contexts and paths.
THEOREM NamesAreDistinct == TrustSpec => []NamesDistinct
<1>1. TrustInit => NamesDistinct
  BY DEF TrustInit, NamesDistinct, NoProg
<1> QED BY <1>1, NamesStep, TrustInvariance, PTL DEF TrustSpec
=============================================================================
