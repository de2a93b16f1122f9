---------------------------- MODULE NetworkPoll ----------------------------
(***************************************************************************)
(* Network rates: the poller that scrapes every kubelet                    *)
(* (internal/cluster/networkpoll.go) and the rows that show what it found  *)
(* (internal/ui/network.go).                                               *)
(*                                                                         *)
(* A round lists the nodes and scrapes the ready ones with a few workers   *)
(* under a deadline; a rate is the difference of two samples of one        *)
(* kubelet's counter, which may have started again between them.  The      *)
(* snapshot goes through a channel that drops when it is full.  A row      *)
(* keeps its rate until its sample is too old, which the UI looks for only *)
(* at a deadline it keeps.                                                 *)
(***************************************************************************)
EXTENDS Integers, Sequences, FiniteSets, FiniteSetsExt

CONSTANTS NetNodes,      \* 1..n in the order of their names
          NetPods,    \* namespace/name of pods
          PodsOf,     \* the pods each node reports; one that moved is on two
          Workers,    \* networkScrapeWorkers
          NetCap,     \* the capacity of p.Out
          MaxAge,     \* networkMaxAge
          MaxNetClock, MaxRounds, MaxTraffic \* bounds on time, rounds and what nodes do

ASSUME NetworkAssumption ==
  /\ IsFiniteSet(NetNodes) /\ NetNodes = 1..Cardinality(NetNodes)
  /\ IsFiniteSet(NetPods) /\ PodsOf \in [NetNodes -> SUBSET NetPods]
  /\ Workers \in Nat \ {0} /\ NetCap \in Nat \ {0} /\ MaxAge \in Nat \ {0}
  /\ MaxNetClock \in Nat /\ MaxRounds \in Nat /\ MaxTraffic \in Nat

Never == -1

VARIABLES
  netClock, rounds, traffic,
  bytes,    \* each kubelet's counter, which each of its pods reports
  carried,  \* history: what really passed on each node since its sample in prev
  prevSamples,     \* p.prev: each node's last sample
  nextNode, \* p.nextNode
  scrapeRound,    \* the round in progress
  waited,   \* history: rounds in a row whose workers began elsewhere, for each ready node
  out,      \* p.Out, and the snapshot the forwarder sends
  net,      \* the UI's rows, and clusterNet...
  netTick   \* when the UI looked for expired rates last

netVars == <<netClock, rounds, traffic, bytes, carried, prevSamples, nextNode, scrapeRound, waited, out, net, netTick>>

NoSampleYet == [n |-> 0, at |-> Never]
NoRound == [on |-> FALSE, listed |-> {}, queue |-> {}, start |-> 0,
            cur |-> [n \in NetNodes |-> NoSampleYet], most |-> [n \in NetNodes |-> 0]]
NoRate == [rx |-> 0, most |-> 0, at |-> Never, has |-> FALSE]

NetInit ==
  /\ netClock = 0 /\ rounds = 0 /\ traffic = 0 /\ netTick = 0
  /\ bytes = [n \in NetNodes |-> 0] /\ carried = [n \in NetNodes |-> 0]
  /\ prevSamples = [n \in NetNodes |-> NoSampleYet] /\ nextNode = 0 /\ scrapeRound = NoRound
  /\ waited = [n \in NetNodes |-> 0]
  /\ out = <<>>
  /\ net = [rows |-> [p \in NetPods |-> NoRate], total |-> NoRate, snapshotAt |-> Never,
            expires |-> Never, pushed |-> Never]

-----------------------------------------------------------------------------
(* The nodes.                                                              *)

NodeEvent == traffic < MaxTraffic /\ traffic' = traffic + 1

Traffic(n) ==
  /\ NodeEvent
  /\ bytes' = [bytes EXCEPT ![n] = @ + 1] /\ carried' = [carried EXCEPT ![n] = @ + 1]
  /\ UNCHANGED <<netClock, rounds, prevSamples, nextNode, scrapeRound, waited, out, net, netTick>>

\* A kubelet or its pods start again.
RestartCounters(n) ==
  /\ NodeEvent /\ bytes[n] > 0 /\ bytes' = [bytes EXCEPT ![n] = 0]
  /\ UNCHANGED <<netClock, rounds, carried, prevSamples, nextNode, scrapeRound, waited, out, net, netTick>>

TimePasses ==
  /\ netClock < MaxNetClock /\ netClock' = netClock + 1
  /\ UNCHANGED <<rounds, traffic, bytes, carried, prevSamples, nextNode, scrapeRound, waited, out, net, netTick>>

-----------------------------------------------------------------------------
(* The poller.                                                             *)

\* send: dropped when the channel is full; the forwarder holds one more.
SendSnapshot(snap) == out' = IF Len(out) <= NetCap THEN Append(out, snap) ELSE out

\* How many names n is past the cursor, around the sorted nodes.
Turn(n, start) == IF n >= start THEN n - start ELSE n + Cardinality(NetNodes) - start

\* How many of the nodes are before n in the order of the jobs.
Before(n, queue, start) == Cardinality({m \in queue : Turn(m, start) < Turn(n, start)})

\* The nodes the workers have taken from the jobs.
FirstFew(queue, start) == {n \in queue : Before(n, queue, start) < Workers}

\* scrapeNodes, up to the start of its workers: the cursor moves past the
\* nodes they take first.  If the listing took the whole deadline (late), the
\* workers take none and the cursor stays.
StartRound(listed, ready, late) ==
  /\ ~scrapeRound.on /\ rounds < MaxRounds /\ ready \subseteq listed
  /\ rounds' = rounds + 1
  /\ scrapeRound' = [NoRound EXCEPT !.on = TRUE, !.listed = listed,
                                    !.queue = IF late THEN {} ELSE ready, !.start = nextNode]
  /\ nextNode' = IF ready = {} \/ late THEN nextNode
                 ELSE CHOOSE n \in ready :
                        Before(n, ready, nextNode) = Workers % Cardinality(ready)
  /\ waited' = IF late THEN waited
               ELSE [n \in NetNodes |->
                       IF n \in ready \ FirstFew(ready, nextNode) THEN waited[n] + 1 ELSE 0]
  /\ UNCHANGED <<netClock, traffic, bytes, carried, prevSamples, out, net, netTick>>

\* The nodes cannot be listed.
ListFails ==
  /\ ~scrapeRound.on /\ rounds < MaxRounds /\ rounds' = rounds + 1
  /\ SendSnapshot([at |-> netClock, ok |-> FALSE, scraped |-> 0,
                   rows |-> [p \in NetPods |-> NoRate], total |-> NoRate])
  /\ UNCHANGED <<netClock, traffic, bytes, carried, prevSamples, nextNode, scrapeRound, waited, net, netTick>>

\* A worker's request is answered, or fails.
Scrape(n, ok) ==
  /\ scrapeRound.on /\ n \in FirstFew(scrapeRound.queue, scrapeRound.start)
  /\ scrapeRound' = [scrapeRound EXCEPT
       !.queue = @ \ {n},
       !.cur[n] = IF ok THEN [n |-> bytes[n], at |-> netClock] ELSE @,
       !.most[n] = IF ok THEN carried[n] ELSE @]
  /\ carried' = IF ok THEN [carried EXCEPT ![n] = 0] ELSE carried
  /\ UNCHANGED <<netClock, rounds, traffic, bytes, prevSamples, nextNode, waited, out, net, netTick>>

Scraped == {n \in NetNodes : scrapeRound.cur[n] # NoSampleYet}

\* clampRate
ClampRate(cur, old, dt) == IF cur < old THEN 0 ELSE (cur - old) \div dt

\* networkRates, for one node: from its own last sample.
Rate(n) ==
  LET dt == scrapeRound.cur[n].at - prevSamples[n].at
  IN  IF prevSamples[n] = NoSampleYet \/ dt <= 0 THEN 0 ELSE ClampRate(scrapeRound.cur[n].n, prevSamples[n].n, dt)

SumOf(f, S) == MapThenSumSet(LAMBDA n : f[n], S)
Oldest(S) == Min({scrapeRound.cur[n].at : n \in S})

\* networkRates, for the pods that nodes S report together.
RateOf(S) ==
  IF S = {} THEN NoRate
  ELSE [rx |-> SumOf([n \in NetNodes |-> Rate(n)], S), most |-> SumOf(scrapeRound.most, S),
        at |-> Oldest(S), has |-> TRUE]

Snapshot ==
  [at |-> IF Scraped = {} THEN netClock ELSE Oldest(Scraped),
   ok |-> Scraped = scrapeRound.listed, scraped |-> Cardinality(Scraped),
   rows |-> [p \in NetPods |-> RateOf({n \in Scraped : p \in PodsOf[n]})],
   total |-> RateOf(Scraped)]

\* What stays of a node's samples: an old one, for a node that is listed still.
Kept(n) ==
  IF n \in Scraped THEN scrapeRound.cur[n] ELSE IF n \in scrapeRound.listed THEN prevSamples[n] ELSE NoSampleYet

\* The workers are done, or the round's deadline ends them.
EndScrapes ==
  /\ scrapeRound.on
  /\ SendSnapshot(Snapshot)
  /\ prevSamples' = [n \in NetNodes |-> Kept(n)]
  /\ scrapeRound' = NoRound
  /\ UNCHANGED <<netClock, rounds, traffic, bytes, carried, nextNode, waited, net, netTick>>

-----------------------------------------------------------------------------
(* The UI.                                                                 *)

Fresh(at, now) == at # Never /\ now - at < MaxAge

\* A wrong Deadline: the last of the rates to expire.
LastDeadline(ats) == IF ats = {} THEN Never ELSE Max(ats) + MaxAge

\* scheduleNetworkExpiry for rates sampled at ats: the first to expire.
Deadline(ats) == IF ats = {} THEN Never ELSE Min(ats) + MaxAge

Shown(rows, total) ==
  {rows[p].at : p \in {q \in NetPods : rows[q].has}} \cup (IF total.has THEN {total.at} ELSE {})

\* applyNetworkSnapshot
ApplySnapshot ==
  /\ out # <<>> /\ out' = Tail(out)
  /\ LET snap == Head(out)
         fresh(r) == [r EXCEPT !.has = Fresh(r.at, netClock)]
         rows == [p \in NetPods |-> fresh(snap.rows[p])]
         total == [fresh(snap.total) EXCEPT !.at = IF @ = Never THEN snap.at ELSE @,
                                            !.has = Fresh(snap.at, netClock)]
     IN  net' = IF snap.at < net.snapshotAt THEN net
                ELSE IF ~snap.ok /\ snap.scraped = 0
                THEN [net EXCEPT !.rows = [p \in NetPods |-> [@[p] EXCEPT !.has = FALSE]],
                                 !.total.has = FALSE, !.snapshotAt = snap.at, !.expires = Never]
                ELSE [rows |-> rows, total |-> total, snapshotAt |-> snap.at,
                      expires |-> Deadline(Shown(rows, total)),
                      pushed |-> IF snap.ok /\ total.has THEN Max({net.pushed, total.at})
                                 ELSE net.pushed]
  /\ UNCHANGED <<netClock, rounds, traffic, bytes, carried, prevSamples, nextNode, scrapeRound, waited, netTick>>

\* ProbeTickMsg: expireNetwork, which looks at the rows only when one is due.
ProbeTick ==
  /\ netTick' = netClock
  /\ LET keep(r) == [r EXCEPT !.has = @ /\ Fresh(r.at, netClock)]
         rows == [p \in NetPods |-> keep(net.rows[p])]
         total == keep(net.total)
     IN  net' = IF net.expires = Never \/ netClock < net.expires THEN net
                ELSE [net EXCEPT !.rows = rows, !.total = total,
                                 !.expires = Deadline(Shown(rows, total))]
  /\ UNCHANGED <<netClock, rounds, traffic, bytes, carried, prevSamples, nextNode, scrapeRound, waited, out>>

NetNext ==
  \/ \E n \in NetNodes : Traffic(n) \/ RestartCounters(n) \/ \E ok \in BOOLEAN : Scrape(n, ok)
  \/ \E listed, ready \in SUBSET NetNodes, late \in BOOLEAN : StartRound(listed, ready, late)
  \/ ListFails \/ EndScrapes \/ ApplySnapshot \/ ProbeTick \/ TimePasses

NetSpec == NetInit /\ [][NetNext]_netVars

-----------------------------------------------------------------------------
\* A rate that is shown is not more than what passed between two samples of
\* each node, and never negative, though counters start again, nodes are
\* missed for rounds, and a pod is reported by two nodes.
RatesHonest ==
  \A r \in {net.total} \cup {net.rows[p] : p \in NetPods} : r.rx >= 0 /\ r.rx <= r.most

\* After every tick of the UI no rate older than the maximum is shown as current.
NothingStaleShown ==
  \A r \in {net.total} \cup {net.rows[p] : p \in NetPods} :
    r.has => netTick - r.at < MaxAge

\* Rounds that run out of time still come around to every node: one that is
\* ready is among the first a round tries before all others were twice.  A round
\* that had no time for any node puts none before another.
NoNodeStarved == \A n \in NetNodes : waited[n] < Cardinality(NetNodes)

NetworkTruthful == RatesHonest /\ NothingStaleShown /\ NoNodeStarved

-----------------------------------------------------------------------------
(* What makes NetworkTruthful inductive.                                   *)

Moments == Nat \cup {Never}
Samples == [n : Nat, at : Nat] \cup {NoSampleYet}
Rates == [rx : Nat, most : Nat, at : Moments, has : BOOLEAN]

RoundType ==
  [on : BOOLEAN, listed : SUBSET NetNodes, queue : SUBSET NetNodes, start : NetNodes \cup {0},
   cur : [NetNodes -> Samples], most : [NetNodes -> Nat]]
SnapshotType ==
  [at : Nat, ok : BOOLEAN, scraped : Nat, rows : [NetPods -> Rates], total : Rates]
NetType ==
  [rows : [NetPods -> Rates], total : Rates, snapshotAt : Moments, expires : Moments, pushed : Moments]

NetTypeOK ==
  /\ netClock \in Nat /\ netTick \in 0..netClock
  /\ bytes \in [NetNodes -> Nat] /\ carried \in [NetNodes -> Nat]
  /\ prevSamples \in [NetNodes -> Samples] /\ scrapeRound \in RoundType
  /\ nextNode \in NetNodes \cup {0} /\ waited \in [NetNodes -> Nat]
  /\ out \in Seq(SnapshotType) /\ net \in NetType

\* carried[n] is what passed since the node's newest sample, and what passed
\* between the two of a round is kept with it; no node is scraped twice in one.
SamplesInv ==
  \A n \in NetNodes :
    LET cur == scrapeRound.cur[n]
        prev == prevSamples[n]
    IN  /\ cur = NoSampleYet /\ prev # NoSampleYet => bytes[n] - prev.n <= carried[n]
        /\ cur # NoSampleYet =>
             /\ bytes[n] - cur.n <= carried[n]
             /\ prev # NoSampleYet => cur.n - prev.n <= scrapeRound.most[n]
             /\ scrapeRound.on /\ n \notin scrapeRound.queue

HonestRates(R) == \A r \in R : r.rx <= r.most

\* A snapshot on its way is honest, and as old as its oldest sample.
OutHonest ==
  \A i \in DOMAIN out :
    /\ HonestRates({out[i].total} \cup {out[i].rows[p] : p \in NetPods})
    /\ out[i].total.at \in {Never, out[i].at}

\* The deadline is not after the end of any rate that is shown.
DeadlineInv ==
  \A r \in {net.total} \cup {net.rows[p] : p \in NetPods} :
    r.has => /\ r.at # Never /\ netTick - r.at < MaxAge
             /\ net.expires # Never /\ net.expires <= r.at + MaxAge

\* However often n was passed over, the cursor has come closer by as much.
CursorInv ==
  \A n \in NetNodes :
    IF nextNode = 0 THEN waited[n] = 0
    ELSE waited[n] + Turn(n, nextNode) < Cardinality(NetNodes)

NetInv ==
  /\ NetTypeOK /\ SamplesInv /\ OutHonest /\ DeadlineInv /\ CursorInv
  /\ HonestRates({net.total} \cup {net.rows[p] : p \in NetPods})
=============================================================================
