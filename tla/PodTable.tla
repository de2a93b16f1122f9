------------------------------ MODULE PodTable ------------------------------
(***************************************************************************)
(* The pod table of the UI and what is derived from it                     *)
(* (internal/ui/pod.go, network.go, table_cache.go, clusterdash_cache.go   *)
(* and app.go).                                                            *)
(*                                                                         *)
(* Rows are changed by three writers: pod events of the watch, and the     *)
(* snapshots of the metrics and of the network poller, which know a pod by *)
(* its name alone.  A metrics snapshot may come before the first event of  *)
(* a pod it has a sample of; the sample waits.  A rate expires on its row. *)
(* The sorted order, the count of matching rows, the phase counts and the  *)
(* dashboard's order are kept between draws and repaired, not recomputed.  *)
(***************************************************************************)
EXTENDS Integers, Sequences, FiniteSets, Ordered

CONSTANTS Uids,           \* pods, as numbers in the order of their uids
          Place,          \* each pod's namespace and name, numbered in their order
                          \* (dashboardNameLess has the name first: another numbering)
          NsOf,           \* the namespace of each place
          Created,        \* when each pod was created
          SortKeys,       \* of "name", "status", "restarts", "cpu", "mem" and "net"
          Restarts,       \* restart counts
          Readings,       \* of the metrics-server: pairs of cpu and memory
          Rates,          \* of the network poller; one direction
          MetricAge,      \* 2 * FocusedInterval
          NetworkAge,     \* networkMaxAge
          MaxClock,       \* bound on time
          MaxTableEvents  \* bound on messages and keys

ASSUME PodTableAssumption ==
  /\ Uids \subseteq Nat \ {0} /\ IsFiniteSet(Uids) /\ Place \in [Uids -> Nat \ {0}] /\ Created \in [Uids -> Nat]
  /\ Readings \subseteq Nat \X Nat /\ Rates \subseteq Nat /\ Restarts \subseteq Nat
  /\ MetricAge \in Nat /\ NetworkAge \in Nat /\ MaxClock \in Nat /\ MaxTableEvents \in Nat

Places == {Place[u] : u \in Uids}
Namespaces == {NsOf[p] : p \in Places}
All == 0  \* every namespace; also: no row under the cursor
Unread == -1

VARIABLES
  podRows,   \* m.pods
  waitingSamples,   \* m.podMetricCache and m.focusedMetrics.at
  networkAt,        \* m.networkSnapshotAt
  order,     \* m.tables.orders[ViewPods]
  phaseCache, dashOrder, \* m.tables.phases and m.tables.dashboardPods
  shown,     \* sortKey, sortDesc and m.namespace
  cursor,
  tableClock, tableEvents

tableVars == <<podRows, waitingSamples, networkAt, order, phaseCache, dashOrder, shown, cursor, tableClock, tableEvents>>
caches == <<order, phaseCache, dashOrder>>

NoSample == [cpu |-> Unread, mem |-> Unread, at |-> 0]
NoRate == [net |-> Unread, at |-> 0]
NoRow == [uid |-> 0, phase |-> 0, restarts |-> 0, sample |-> NoSample, rate |-> NoRate]
NoPending == [at |-> Unread, samples |-> [p \in Places |-> NoSample]]
NoOrder == [valid |-> FALSE, key |-> <<>>, uids |-> <<>>, dirty |-> {}, counted |-> <<>>, count |-> 0]
NoCache == [valid |-> FALSE, ns |-> All, size |-> 0, got |-> <<>>]

TableInit ==
  /\ podRows = [u \in Uids |-> NoRow] /\ waitingSamples = NoPending /\ networkAt = 0
  /\ order = NoOrder /\ phaseCache = NoCache /\ dashOrder = NoCache
  /\ shown = [by |-> "name", desc |-> FALSE, ns |-> All]
  /\ cursor = 0 /\ tableClock = 0 /\ tableEvents = 0

-----------------------------------------------------------------------------
(* The order of the rows.                                                  *)

Present(rows) == {u \in Uids : rows[u] # NoRow}
Size == Cardinality(Present(podRows))

\* matchesNames, for the namespace; the text of the filter narrows the same way.
Visible(u, ns) == ns = All \/ NsOf[Place[u]] = ns

Field(r, key) ==
  CASE key = "status" -> r.phase [] key = "restarts" -> r.restarts
    [] key = "cpu" -> r.sample.cpu [] key = "mem" -> r.sample.mem [] key = "net" -> r.rate.net
    [] OTHER -> 0

\* lessBy: ties fall to namespace and name, then to the uid.
LessBy(a, b, key) ==
  LET pa == IF a.uid = 0 THEN 0 ELSE Place[a.uid]
      pb == IF b.uid = 0 THEN 0 ELSE Place[b.uid]
  IN  \/ Field(a, key) < Field(b, key)
      \/ /\ Field(a, key) = Field(b, key)
         /\ pa < pb \/ (pa = pb /\ a.uid < b.uid)

\* lessPodUID, for the table shown as sh.
LessUid(rs, a, b, sh) == IF sh.desc THEN LessBy(rs[b], rs[a], sh.by) ELSE LessBy(rs[a], rs[b], sh.by)

\* The pods of S that have a row in the namespace.
RowsIn(rs, S, ns) == {u \in S \cap Present(rs) : Visible(u, ns)}

\* sortedPodUIDs
RowOrder(rs, S, sh) == {p \in S \X S : LessUid(rs, p[1], p[2], sh)}
SortedUids(rs, S, sh) == InSequence(RowsIn(rs, S, sh.ns), RowOrder(rs, S, sh))

\* tableKey
TableKey(sh) == <<sh, Size>>

\* mergePodOrder: the changed rows go between the others.
Merge(uids, changed, sh) ==
  LET merge[p \in (1..(Len(uids) + 1)) \X (1..(Len(changed) + 1))] ==
        LET i == p[1]
            j == p[2]
        IN  IF i > Len(uids) THEN SubSeq(changed, j, Len(changed))
            ELSE IF uids[i] \in order.dirty THEN merge[<<i + 1, j>>]
            ELSE IF j <= Len(changed) /\ LessUid(podRows, changed[j], uids[i], sh)
            THEN <<changed[j]>> \o merge[<<i, j + 1>>]
            ELSE <<uids[i]>> \o merge[<<i + 1, j>>]
  IN  merge[<<1, 1>>]

Merged(sh) == Merge(order.uids, SortedUids(podRows, order.dirty, sh), sh)

\* tableUIDs: the cached order when it is current, repaired when only rows
\* changed, built again otherwise.
TableUids(sh) ==
  IF order.valid /\ order.key = TableKey(sh) /\ order.dirty = {} THEN order.uids
  ELSE IF order.valid /\ order.key[1] = sh /\ order.dirty # {} THEN Merged(sh)
  ELSE SortedUids(podRows, Uids, sh)

Drawn(sh) ==
  LET uids == TableUids(sh)
  IN  [valid |-> TRUE, key |-> TableKey(sh), uids |-> uids, dirty |-> {},
       counted |-> TableKey(sh), count |-> Len(uids)]

\* tableCount
TableCount ==
  IF shown.ns = All THEN Size
  ELSE IF order.counted = TableKey(shown) THEN order.count
  ELSE Cardinality(RowsIn(podRows, Uids, shown.ns))

\* podPhaseCounts: how many rows are in each of the phases 1 and 2.
PhasesOf(rs) == [ph \in 1..2 |-> Cardinality({u \in Uids : rs[u].phase = ph})]
PhaseCounts ==
  IF phaseCache.valid /\ phaseCache.size = Size THEN phaseCache.got ELSE PhasesOf(podRows)

\* dashboardPodOrder: the pods with a reading, the highest first.  The namespace
\* is the table's (else the watch's, which every row is in).
WithReading(rs, ns) == {u \in RowsIn(rs, Uids, ns) : rs[u].sample.cpu # Unread}
DashLess(rs, S, key) ==
  {p \in S \X S : \/ Field(rs[p[1]], key) > Field(rs[p[2]], key)
                  \/ /\ Field(rs[p[1]], key) = Field(rs[p[2]], key)
                     /\ Place[p[1]] < Place[p[2]] \/ (Place[p[1]] = Place[p[2]] /\ p[1] < p[2])}
DashOf(rs, ns) ==
  [key \in {"cpu", "mem"} |->
     InSequence(WithReading(rs, ns), DashLess(rs, WithReading(rs, ns), key))]
DashOrders ==
  IF dashOrder.valid /\ dashOrder.ns = shown.ns /\ dashOrder.size = Size THEN dashOrder.got
  ELSE DashOf(podRows, shown.ns)

-----------------------------------------------------------------------------
(* What a changed row makes of the caches.                                 *)

\* A wrong Moved: a row counts as moved only when its own key grew.
MovedUp(before, after) ==
  before.uid # after.uid \/ LessBy(before, after, order.key[1].by)

\* The row has another place in the order drawn last.
Moved(before, after) ==
  \/ before.uid # after.uid
  \/ LessBy(before, after, order.key[1].by) \/ LessBy(after, before, order.key[1].by)

\* What the dashboard orders rows by.
Load(row) == <<row.sample.cpu, row.sample.mem>>

\* invalidatePodOrder, for all rows that differ in rows.
Invalidate(rows) ==
  LET changed == {u \in Uids : rows[u] # podRows[u]}
      appeared == {u \in changed : rows[u].uid # podRows[u].uid}
  IN  /\ order' = [order EXCEPT
           !.counted = IF appeared # {} THEN <<>> ELSE @,
           !.dirty = IF order.valid THEN @ \cup {u \in changed : Moved(podRows[u], rows[u])} ELSE @]
      /\ dashOrder' = IF \E u \in changed : u \in appeared \/ Load(rows[u]) # Load(podRows[u])
                      THEN NoCache ELSE dashOrder
      /\ podRows' = rows

TableEvent == tableEvents < MaxTableEvents /\ tableEvents' = tableEvents + 1

\* applyPendingPodMetric: a sample too old, or from before the pod, is dropped.
Pending(u) ==
  LET s == waitingSamples.samples[Place[u]]
  IN  IF /\ s # NoSample
         /\ tableClock - waitingSamples.at <= MetricAge /\ tableClock - s.at <= MetricAge
         /\ s.at >= Created[u]
      THEN s ELSE NoSample

\* updatePod: an added or updated pod.  A row that is there keeps its reading.
PodUpsert(u, phase, restarts) ==
  /\ TableEvent /\ tableClock >= Created[u]
  /\ LET new == podRows[u] = NoRow
     IN  /\ Invalidate([podRows EXCEPT ![u] =
              [uid |-> u, phase |-> phase, restarts |-> restarts, rate |-> podRows[u].rate,
               sample |-> IF new THEN Pending(u) ELSE podRows[u].sample]])
         /\ waitingSamples' = IF new THEN [waitingSamples EXCEPT !.samples[Place[u]] = NoSample] ELSE waitingSamples
         /\ phaseCache' = IF podRows[u].phase # phase THEN NoCache ELSE phaseCache
  /\ UNCHANGED <<networkAt, shown, cursor, tableClock>>

\* updatePod: a deleted pod, whose name's waiting sample goes with it.
PodDelete(u) ==
  /\ TableEvent /\ podRows[u] # NoRow
  /\ Invalidate([podRows EXCEPT ![u] = NoRow])
  /\ waitingSamples' = [waitingSamples EXCEPT !.samples[Place[u]] = NoSample]
  /\ phaseCache' = NoCache
  /\ cursor' = IF cursor = u THEN 0 ELSE cursor
  /\ UNCHANGED <<networkAt, shown, tableClock>>

\* MetricsSnapshotMsg: every row has the reading of its name, or none.
MetricsSnapshot(samples) ==
  /\ TableEvent
  /\ Invalidate([u \in Uids |-> IF podRows[u] = NoRow THEN NoRow
                               ELSE [podRows[u] EXCEPT !.sample = samples[Place[u]]]])
  /\ waitingSamples' = [at |-> tableClock, samples |-> samples]
  /\ UNCHANGED <<phaseCache, networkAt, shown, cursor, tableClock>>

\* networkFresh; a stale rate is none.
FreshRate(rate) ==
  IF rate # NoRate /\ tableClock - rate.at < NetworkAge THEN rate ELSE NoRate

\* Every row that is there has the rate rates gives it.
SetRates(rates) ==
  /\ Invalidate([u \in Uids |-> IF podRows[u] = NoRow THEN NoRow
                               ELSE [podRows[u] EXCEPT !.rate = rates[u]]])
  /\ UNCHANGED <<waitingSamples, phaseCache, shown, cursor, tableClock>>

\* NetworkSnapshotMsg: a snapshot that is not older than the last one.  When no
\* node answered there are no rates in it.
NetworkSnapshot(at, rates) ==
  /\ TableEvent /\ at >= networkAt /\ networkAt' = at
  /\ SetRates([u \in Uids |-> FreshRate(rates[Place[u]])])

\* expireNetwork, on a tick of the UI.
ExpireNetwork ==
  /\ \E u \in Uids : FreshRate(podRows[u].rate) # podRows[u].rate
  /\ SetRates([u \in Uids |-> FreshRate(podRows[u].rate)])
  /\ UNCHANGED <<networkAt, tableEvents>>

-----------------------------------------------------------------------------
(* Keys and draws.  A table that an overlay hides is not drawn.            *)

DrawTable ==
  /\ order' = Drawn(shown) /\ order' # order
  /\ UNCHANGED <<podRows, waitingSamples, networkAt, phaseCache, dashOrder, shown, cursor, tableClock, tableEvents>>

DrawCounts ==
  /\ order' = IF shown.ns = All THEN order
              ELSE [order EXCEPT !.counted = TableKey(shown), !.count = TableCount]
  /\ phaseCache' = [valid |-> TRUE, ns |-> All, size |-> Size, got |-> PhaseCounts]
  /\ dashOrder' = [valid |-> TRUE, ns |-> shown.ns, size |-> Size, got |-> DashOrders]
  /\ caches' # caches
  /\ UNCHANGED <<podRows, waitingSamples, networkAt, shown, cursor, tableClock, tableEvents>>

\* s and S
SetSort(by, desc) ==
  /\ TableEvent /\ shown' = [shown EXCEPT !.by = by, !.desc = desc] /\ shown' # shown
  /\ UNCHANGED <<podRows, waitingSamples, networkAt, caches, cursor, tableClock>>

\* n, 0 and esc.  The cursor is anchored in the rows of the new namespace,
\* which draws the table's order.
SetNamespace(ns) ==
  /\ TableEvent /\ ns # shown.ns
  /\ shown' = [shown EXCEPT !.ns = ns]
  /\ order' = Drawn(shown')
  /\ cursor' = IF \E i \in DOMAIN order'.uids : order'.uids[i] = cursor THEN cursor
               ELSE IF order'.uids = <<>> THEN 0 ELSE order'.uids[1]
  /\ UNCHANGED <<podRows, waitingSamples, networkAt, phaseCache, dashOrder, tableClock>>

\* moveCursor
MoveCursor(delta) ==
  /\ TableEvent
  /\ order' = Drawn(shown)
  /\ LET uids == TableUids(shown)
         at == {i \in DOMAIN uids : uids[i] = cursor}
         want == IF at = {} THEN 1 ELSE (CHOOSE i \in at : TRUE) + delta
     IN  cursor' = IF uids = <<>> THEN 0
                   ELSE uids[IF want < 1 THEN 1 ELSE IF want > Len(uids) THEN Len(uids) ELSE want]
  /\ UNCHANGED <<podRows, waitingSamples, networkAt, phaseCache, dashOrder, shown, tableClock>>

Tick ==
  /\ tableClock < MaxClock /\ tableClock' = tableClock + 1
  /\ UNCHANGED <<podRows, waitingSamples, networkAt, caches, shown, cursor, tableEvents>>

\* A snapshot has a reading of a pod for its name only when the pod was there.
Samples ==
  {s \in [Places -> {NoSample} \cup {[cpu |-> r[1], mem |-> r[2], at |-> t] :
                                     r \in Readings, t \in 0..tableClock}] :
     \A p \in Places : s[p] # NoSample => \E u \in Uids : Place[u] = p /\ Created[u] <= s[p].at}

\* Its rates were measured at the snapshot's time or before.
RatesBy(at) ==
  {s \in [Places -> {NoRate} \cup [net : Rates, at : 0..at]] :
     \A p \in Places : s[p] # NoRate => \E u \in Uids : Place[u] = p /\ Created[u] <= s[p].at}

TableNext ==
  \/ \E u \in Uids : PodDelete(u) \/ \E ph \in 1..2, n \in Restarts : PodUpsert(u, ph, n)
  \/ /\ tableEvents < MaxTableEvents  \* spares TLC the sets when there are no more
     /\ \/ \E s \in Samples : MetricsSnapshot(s)
        \/ \E at \in 0..tableClock : \E rates \in RatesBy(at) : NetworkSnapshot(at, rates)
  \/ ExpireNetwork
  \/ DrawTable \/ DrawCounts \/ Tick
  \/ \E by \in SortKeys, desc \in BOOLEAN : SetSort(by, desc)
  \/ \E ns \in Namespaces \cup {All} : SetNamespace(ns)
  \/ \E delta \in {-1, 1} : MoveCursor(delta)

TableSpec == TableInit /\ [][TableNext]_tableVars

-----------------------------------------------------------------------------
\* Whatever was cached and repaired, the table, its count, the phase counts
\* and the dashboard's orders are those of the rows there are, and the cursor
\* is on a row of the table.
TableExact ==
  /\ LET sorted == SortedUids(podRows, Uids, shown)
     IN  TableUids(shown) = sorted /\ TableCount = Len(sorted)
  /\ PhaseCounts = PhasesOf(podRows) /\ DashOrders = DashOf(podRows, shown.ns)
  /\ cursor # 0 => podRows[cursor] # NoRow /\ Visible(cursor, shown.ns)

\* "metrics-server sample time, used to reject pre-creation samples"
\* (PodMetric.At): no row shows a reading from before its pod was created.
NoPreCreationSample ==
  \A u \in Present(podRows) : podRows[u].sample # NoSample => podRows[u].sample.at >= Created[u]

-----------------------------------------------------------------------------
(* What an induction needs besides.                                        *)

Shows == [by : SortKeys \cup {"name"}, desc : BOOLEAN, ns : Namespaces \cup {All}]
Sample == [cpu : Int, mem : Int, at : Int]
Rate == [net : Int, at : Int]
Row == [uid : Uids \cup {0}, phase : Nat, restarts : Nat, sample : Sample, rate : Rate]

\* The keys, orders and counts that are cached are whatever they are.
TableTypeOK ==
  /\ podRows \in [Uids -> Row] /\ \A u \in Present(podRows) : podRows[u].uid = u
  /\ waitingSamples \in [at : Int, samples : [Places -> Sample]] /\ networkAt \in Nat
  /\ order \in [valid : BOOLEAN, key : {order.key}, uids : {order.uids}, dirty : SUBSET Uids,
                counted : {order.counted}, count : {order.count}]
  /\ phaseCache \in [valid : BOOLEAN, ns : {phaseCache.ns}, size : {phaseCache.size}, got : {phaseCache.got}]
  /\ dashOrder \in [valid : BOOLEAN, ns : {dashOrder.ns}, size : {dashOrder.size}, got : {dashOrder.got}]
  /\ shown \in Shows /\ cursor \in Uids \cup {0} /\ tableClock \in Nat

\* The rows that did not move since order o was drawn are in it as they should
\* be, and no others are that are not marked.
OrderFits(o, rs) ==
  o.valid =>
    /\ o.key[1] \in Shows /\ o.uids \in Seq(Uids)
    /\ \A u \in Uids \ o.dirty : (\E i \in DOMAIN o.uids : o.uids[i] = u) <=> u \in RowsIn(rs, Uids, o.key[1].ns)
    /\ \A i, j \in DOMAIN o.uids :
         i < j /\ o.uids[i] \notin o.dirty /\ o.uids[j] \notin o.dirty
           => LessUid(rs, o.uids[i], o.uids[j], o.key[1])

\* A count is of the rows there are until one appears or goes.
CountFits(o, rs) == o.counted # <<>> => o.count = Cardinality(RowsIn(rs, Uids, o.counted[1].ns))

TableInv ==
  /\ TableTypeOK /\ OrderFits(order, podRows) /\ CountFits(order, podRows)
  /\ phaseCache.valid => phaseCache.got = PhasesOf(podRows)
  /\ dashOrder.valid => dashOrder.got = DashOf(podRows, dashOrder.ns)
  /\ cursor # 0 => cursor \in RowsIn(podRows, Uids, shown.ns)
=============================================================================
