---------------------------- MODULE EventDelivery ----------------------------
(***************************************************************************)
(* internal/cluster/delivery.go: the queue between an informer's callbacks *)
(* and the bounded channel Out that a watcher's consumer reads.            *)
(*                                                                         *)
(* Three actors run concurrently: the informer goroutine calls publish,    *)
(* the delivery goroutine executes run, and the consumer receives from     *)
(* Out.  publish and the two critical sections of run hold d.mu, so each   *)
(* is one action; run's selects happen outside the lock and are actions of *)
(* their own.  An event is its position in `log`, the sequence of all      *)
(* events the informer produced (a ghost of the program); queue, pending,  *)
(* known, inFlight, wake and closed are the fields of eventDelivery.       *)
(* CoalescedEvents is a statistic and is left out.                         *)
(***************************************************************************)
EXTENDS Naturals, Sequences, SequencesExt, FiniteSets

CONSTANTS UIDs,      \* resource identities
          Cap,       \* capacity of Out
          MaxEvents, \* bound on the informer's events
          None       \* no element, no UID

ASSUME CapAssumption == Cap \in Nat \ {0}
ASSUME MaxEventsAssumption == MaxEvents \in Nat
\* pendingEvent: the event (which tells the UID and deleted) and its version.
Element == [at : Nat, version : Nat]

ASSUME NoneAssumption == None \notin UIDs /\ None \notin Element

VARIABLES
  log, latest,  \* the source: all events, and each UID's newest event
  out,          \* the channel Out
  queue,        \* UIDs of d.queue's elements, front first
  pending,      \* d.pending: each UID's element [at, version], or None
  known,        \* d.known: UIDs whose row the consumer has or will have
  inFlight,     \* the UID of d.inFlight, or None
  wake,         \* the channel wake holds its token
  closed,       \* d.closed
  cancelled,    \* the context of run is done
  rpc,          \* where run is
  ev,           \* run's local copy of the element it is sending
  view,         \* the consumer's newest event of each UID
  sent,         \* history: the last event of each UID put into Out
  passed        \* history: the UIDs sent since each UID was queued

publisher == <<log, latest>>
delivery == <<queue, pending, known, inFlight, wake, closed>>
runner == <<rpc, ev>>
vars == <<log, latest, out, delivery, cancelled, runner, view, sent, passed>>

NoEv == [uid |-> None, at |-> 0, version |-> 0]

Absent(i) == i = 0 \/ log[i].deleted

Init ==
  /\ log = <<>> /\ latest = [u \in UIDs |-> 0]
  /\ out = <<>>
  /\ queue = <<>> /\ pending = [u \in UIDs |-> None]
  /\ known = {} /\ inFlight = None
  /\ wake = FALSE /\ closed = FALSE /\ cancelled = FALSE
  /\ rpc = "check" /\ ev = NoEv
  /\ view = [u \in UIDs |-> 0]
  /\ sent = [u \in UIDs |-> 0]
  /\ passed = [u \in UIDs |-> {}]

-----------------------------------------------------------------------------
(* Helpers.  Each sets the next value of the variables it names.           *)

\* d.Out <- event, noting who was kept waiting by it.
SendOut(u, i) ==
  /\ Len(out) < Cap
  /\ out' = Append(out, i)
  /\ sent' = [sent EXCEPT ![u] = i]
  /\ passed' = [w \in UIDs |->
                  IF w = u \/ pending[w] = None THEN {} ELSE passed[w] \cup {u}]

\* d.record
Record(u, deleted) ==
  known' = IF deleted THEN known \ {u} ELSE known \cup {u}

\* d.queue without u's element.
Without(u) == RemoveAt(queue, CHOOSE i \in DOMAIN queue : queue[i] = u)

\* d.remove
RemoveElement(u) ==
  /\ queue' = Without(u)
  /\ pending' = [pending EXCEPT ![u] = None]

-----------------------------------------------------------------------------
(* The informer goroutine.                                                 *)

\* The informer's cache accepts a change of u and calls the handler: the new
\* event has position Len(log) + 1.
Change(u, deleted) ==
  /\ Len(log) < MaxEvents
  /\ deleted => ~Absent(latest[u])
  /\ log' = Append(log, [uid |-> u, deleted |-> deleted])
  /\ latest' = [latest EXCEPT ![u] = Len(log) + 1]

PublishClosed ==
  /\ closed
  /\ UNCHANGED <<out, delivery, sent, passed>>

\* A wrong FastPath: the direct send does not look at the queue.
FastPathOvertaking == Len(out) < Cap

\* The normal path: nothing waits, nothing is in flight, Out has room.
FastPath == queue = <<>> /\ Len(out) < Cap

PublishDirect(u, deleted) ==
  /\ ~closed /\ FastPath
  /\ SendOut(u, Len(log) + 1)
  /\ Record(u, deleted)
  /\ UNCHANGED <<queue, pending, inFlight, wake, closed>>

\* Wrong forms of Unseen: one forgets the UID in flight, one the queued
\* addition the deletion should cancel.
UnseenForgetsInFlight(u, deleted) == deleted /\ u \notin known
UnseenKeepsQueued(u, deleted) == deleted /\ u \notin known /\ pending[u] = None

\* A deletion nobody needs to hear of: the consumer has not seen the UID and
\* will not, because the UID is not being sent.
Unseen(u, deleted) ==
  /\ deleted
  /\ u \notin known
  /\ pending[u] = None \/ inFlight # u

CancelUnseen(u, deleted) ==
  /\ ~closed /\ ~FastPath /\ Unseen(u, deleted)
  /\ IF pending[u] = None THEN UNCHANGED <<queue, pending>> ELSE RemoveElement(u)
  /\ UNCHANGED <<out, known, inFlight, wake, closed, sent, passed>>

\* select { case d.wake <- struct{}{}: default: }
Signal == wake' = TRUE

Enqueue(u, deleted) ==
  /\ ~closed /\ ~FastPath /\ ~Unseen(u, deleted)
  /\ pending[u] = None
  /\ queue' = Append(queue, u)
  /\ pending' = [pending EXCEPT ![u] = [at |-> Len(log) + 1, version |-> 0]]
  /\ Signal
  /\ passed' = [passed EXCEPT ![u] = {}]
  /\ UNCHANGED <<out, known, inFlight, closed, sent>>

\* A wrong Replacement: the version does not tell the new event apart.
ReplacementSameVersion(u) == [at |-> Len(log) + 1, version |-> pending[u].version]

\* The element keeps its place in the queue and takes the newer event.
Replacement(u) == [at |-> Len(log) + 1, version |-> pending[u].version + 1]

Coalesce(u, deleted) ==
  /\ ~closed /\ ~FastPath /\ ~Unseen(u, deleted)
  /\ pending[u] # None
  /\ pending' = [pending EXCEPT ![u] = Replacement(u)]
  /\ Signal
  /\ UNCHANGED <<out, queue, known, inFlight, closed, sent, passed>>

Publish(u, deleted) ==
  /\ Change(u, deleted)
  /\ \/ PublishClosed
     \/ PublishDirect(u, deleted)
     \/ CancelUnseen(u, deleted)
     \/ Enqueue(u, deleted)
     \/ Coalesce(u, deleted)
  /\ UNCHANGED <<cancelled, runner, view>>

-----------------------------------------------------------------------------
(* The delivery goroutine.                                                 *)

\* ctx.Err() == nil and the first critical section: take the front element.
Take ==
  /\ rpc = "check" /\ ~cancelled /\ queue # <<>>
  /\ LET u == Head(queue) IN
     /\ inFlight' = u
     /\ ev' = [uid |-> u, at |-> pending[u].at, version |-> pending[u].version]
  /\ rpc' = "send"
  /\ UNCHANGED <<publisher, out, queue, pending, known, wake, closed, cancelled,
                 view, sent, passed>>

\* ... or find the queue empty.
Idle ==
  /\ rpc = "check" /\ ~cancelled /\ queue = <<>>
  /\ rpc' = "wait"
  /\ UNCHANGED <<publisher, out, delivery, cancelled, ev, view, sent, passed>>

\* case <-d.wake
Wake ==
  /\ rpc = "wait" /\ wake
  /\ wake' = FALSE
  /\ rpc' = "check"
  /\ UNCHANGED <<publisher, out, queue, pending, known, inFlight, closed,
                 cancelled, ev, view, sent, passed>>

\* case d.Out <- ev.event, outside the lock
Send ==
  /\ rpc = "send"
  /\ SendOut(ev.uid, ev.at)
  /\ rpc' = "record"
  /\ UNCHANGED <<publisher, delivery, cancelled, ev, view>>

\* The element holds nothing the consumer still has to learn.
Settled(u) ==
  \/ pending[u].version = ev.version
  \/ log[pending[u].at].deleted /\ u \notin known'

\* A wrong Settle: a busy element stays at the front.
SettleInPlace(u) == IF Settled(u) THEN RemoveElement(u) ELSE UNCHANGED <<queue, pending>>

Settle(u) ==
  IF Settled(u)
  THEN RemoveElement(u)
  ELSE queue' = Append(Without(u), u) /\ UNCHANGED pending  \* MoveToBack

\* The second critical section.
Delivered ==
  /\ rpc = "record"
  /\ inFlight' = None
  /\ Record(ev.uid, log[ev.at].deleted)
  /\ Settle(ev.uid)
  /\ ev' = NoEv
  /\ rpc' = "check"
  /\ UNCHANGED <<publisher, out, wake, closed, cancelled, view, sent, passed>>

\* ctx.Err() != nil, or case <-ctx.Done() of either select.
Quit ==
  /\ rpc \in {"check", "wait", "send"} /\ cancelled
  /\ rpc' = "closing"
  /\ UNCHANGED <<publisher, out, delivery, cancelled, ev, view, sent, passed>>

\* The deferred reset.
Close ==
  /\ rpc = "closing"
  /\ closed' = TRUE
  /\ pending' = [u \in UIDs |-> None]
  /\ known' = {}
  /\ inFlight' = None
  /\ queue' = <<>>
  /\ ev' = NoEv
  /\ rpc' = "stopped"
  /\ UNCHANGED <<publisher, out, wake, cancelled, view, sent, passed>>

\* The watcher's Run returns or its parent context ends.
Cancel ==
  /\ ~cancelled
  /\ cancelled' = TRUE
  /\ UNCHANGED <<publisher, out, delivery, runner, view, sent, passed>>

-----------------------------------------------------------------------------
(* The consumer: forwardResourceEvents receives from Out and the UI's      *)
(* tables, keyed by UID, take the event.                                   *)
Receive ==
  /\ out # <<>>
  /\ out' = Tail(out)
  /\ view' = [view EXCEPT ![log[Head(out)].uid] = Head(out)]
  /\ UNCHANGED <<publisher, delivery, cancelled, runner, sent, passed>>

RunStep == Take \/ Idle \/ Wake \/ Send \/ Delivered \/ Quit \/ Close

Next ==
  \/ \E u \in UIDs, deleted \in BOOLEAN : Publish(u, deleted)
  \/ RunStep
  \/ Receive
  \/ Cancel

Spec == Init /\ [][Next]_vars

\* run is a goroutine the Go scheduler keeps running; the consumer keeps
\* receiving for as long as the watch context lives.
Fairness == WF_vars(RunStep) /\ WF_vars(Receive /\ ~cancelled)

FairSpec == Spec /\ Fairness

-----------------------------------------------------------------------------
(* Properties.                                                             *)

TypeOK ==
  /\ log \in Seq([uid : UIDs, deleted : BOOLEAN])
  /\ latest \in [UIDs -> Nat] /\ view \in [UIDs -> Nat] /\ sent \in [UIDs -> Nat]
  /\ out \in Seq(Nat) /\ Len(out) <= Cap
  /\ queue \in Seq(UIDs)
  /\ pending \in [UIDs -> Element \cup {None}]
  /\ known \subseteq UIDs
  /\ inFlight \in UIDs \cup {None}
  /\ wake \in BOOLEAN /\ closed \in BOOLEAN /\ cancelled \in BOOLEAN
  /\ rpc \in {"check", "wait", "send", "record", "closing", "stopped"}
  /\ ev \in [uid : UIDs, at : Nat, version : Nat] \cup {NoEv}
  /\ passed \in [UIDs -> SUBSET UIDs]

\* The consumer will end up with u's newest event, or u is gone and the
\* consumer will end up without it.
Announced(u) == sent[u] = latest[u] \/ (Absent(sent[u]) /\ Absent(latest[u]))

\* No update is lost, whatever was coalesced, cancelled or in flight: a UID
\* that has no element has had its newest state put into Out.
NoLostUpdate == ~closed => \A u \in UIDs : pending[u] = None => Announced(u)

\* An element waiting in the queue always has a goroutine that will see it:
\* run does not sleep without a token in wake.
NoMissedWakeup == queue # <<>> /\ rpc = "wait" => wake

\* "Memory is bounded by live resources, consumer-visible UIDs, and Out's
\* capacity, rather than the number of events during a consumer stall": an
\* element belongs to a live resource, to one the consumer has seen, or is
\* the one in flight, and each UID has at most one.
MemoryBound ==
  /\ ~closed => \A u \in UIDs : pending[u] # None =>
       u \in known \/ ~Absent(latest[u]) \/ inFlight = u
  /\ \A i, j \in DOMAIN queue : queue[i] = queue[j] => i = j
  /\ \A i \in DOMAIN queue : pending[queue[i]] # None

\* "A hot UID must not starve other resources waiting for delivery": while u
\* waits, no other UID is sent twice before it.
NoStarvation ==
  [][\A u \in UIDs : Len(out') > Len(out) /\ pending[u] # None
        => log'[out'[Len(out')]].uid \notin passed[u] \ {u}]_vars

\* The inductive strengthening of the invariants above (EventDelivery_proof).
\* Positions in the log: the newest event of a UID bounds what was sent of it.
SourceInv ==
  \A u \in UIDs :
    /\ latest[u] <= Len(log) /\ (latest[u] # 0 => log[latest[u]].uid = u)
    /\ sent[u] <= latest[u]

\* The queue holds each pending UID once, and its element is the newest event.
QueueInv ==
  /\ \A i, j \in DOMAIN queue : queue[i] = queue[j] => i = j
  /\ \A u \in UIDs : pending[u] # None <=> \E i \in DOMAIN queue : queue[i] = u
  /\ \A u \in UIDs : pending[u] # None => pending[u].at = latest[u] /\ latest[u] # 0

\* While run sends, the element it copied is still the front of the queue, and
\* its version tells whether it was replaced since.
FlightInv ==
  /\ closed <=> rpc = "stopped"
  /\ closed => queue = <<>>
  /\ rpc \in {"check", "wait"} => inFlight = None
  /\ rpc \in {"send", "record"} =>
       /\ inFlight = ev.uid /\ ev.uid \in UIDs
       /\ queue # <<>> /\ queue[1] = ev.uid
       /\ ev.at \in 1..Len(log) /\ log[ev.at].uid = ev.uid
       /\ \/ ev.version = pending[ev.uid].version /\ ev.at = pending[ev.uid].at
          \/ ev.version < pending[ev.uid].version /\ ev.at < pending[ev.uid].at
  /\ rpc = "send" =>
       /\ sent[ev.uid] < ev.at
       /\ log[ev.at].deleted => ~Absent(sent[ev.uid])
  /\ rpc = "record" => sent[ev.uid] = ev.at

\* `known` is what the consumer was last told, except while run has sent an
\* event it has yet to record.
Recording(u) == rpc = "record" /\ u = ev.uid

KnownOf(u) ==
  /\ ~Recording(u) => (u \in known <=> ~Absent(sent[u]))
  /\ pending[u] # None =>
       /\ u \in known \/ ~Absent(latest[u]) \/ inFlight = u
       /\ ~Recording(u) => sent[u] < pending[u].at
  /\ pending[u] = None => Announced(u)

KnownInv == ~closed => \A u \in UIDs : KnownOf(u)

\* Whoever was sent while u waited now waits behind u, and whoever is being
\* sent starts to wait anew.
FairInv ==
  /\ \A u \in UIDs : pending[u] # None =>
       \A v \in passed[u] : v # u /\
         \A i, j \in DOMAIN queue : queue[i] = u /\ queue[j] = v => i < j \/ Recording(v)
  /\ rpc = "record" => passed[ev.uid] = {}

\* What the consumer has of u, or will have, before the k-th event of Out.
HeardOf(u, k) ==
  {view[u]} \cup {out[j] : j \in {i \in 1..(k - 1) : log[out[i]].uid = u}}

Newest(p, S) == p \in S /\ \A q \in S : q <= p

\* The k-th event of Out continues its UID's chain after p: it is newer, and a
\* deletion follows an event that shows the resource.
Follows(k, p) ==
  /\ Newest(p, HeardOf(log[out[k]].uid, k))
  /\ p < out[k]
  /\ log[out[k]].deleted => ~Absent(p)

\* The events in Out are chains, one for each UID, and `sent` ends them.
OutInv ==
  /\ \A u \in UIDs : Newest(sent[u], HeardOf(u, Len(out) + 1))
  /\ \A k \in 1..Len(out) :
       out[k] \in 1..Len(log) /\ \E p \in 0..Len(log) : Follows(k, p)

IndInv == TypeOK /\ SourceInv /\ QueueInv /\ FlightInv /\ KnownInv

\* The consumer sees each UID's events in order and no tombstone of a
\* resource it does not show: the promise of ReplicatedView.
Promise == INSTANCE ReplicatedView
  WITH UIDs <- UIDs, log <- log, latest <- latest, view <- view
Refines == Promise!Spec

\* Once the informer is quiet the consumer's view agrees with the source for
\* ever, unless the watch is cancelled; then stop() returns, because run ends
\* and releases its state.
Converges == <>[](IF cancelled THEN rpc = "stopped" ELSE \A u \in UIDs : Promise!Agrees(u))
=============================================================================
