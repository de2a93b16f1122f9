------------------------------ MODULE NodeDrain ------------------------------
(***************************************************************************)
(* internal/cluster/nodeops.go, drain, with the forwarder of               *)
(* cmd/kubetin/drain.go that turns its progress into the UI's messages.    *)
(*                                                                         *)
(* A drain cordons the node, lists and validates every pod on it, requests *)
(* the evictions one after another, and polls the accepted ones until the  *)
(* validated pods are gone.  Meanwhile pods vanish and are recreated under *)
(* their old names, here or (once the node is cordoned) elsewhere; any API *)
(* call may fail, with or without its effect; and the drain is cancelled   *)
(* or times out at any moment.                                             *)
(*                                                                         *)
(* The cluster is the environment: pods have names and, per name, UIDs     *)
(* that count up.  Nobody uncordons the node meanwhile.                    *)
(***************************************************************************)
EXTENDS Naturals, Sequences, SequencesExt, FiniteSets, FiniteSetsExt

CONSTANTS Names,      \* how many names of pods there are: 1..Names
          MaxUID,     \* bound on the pods created under one name
          MaxRetries, \* drainPDBMaxRetries
          Cap         \* capacity of the progress channel

ASSUME DrainAssumption ==
  Names \in Nat /\ MaxUID \in Nat \ {0} /\ MaxRetries \in Nat /\ Cap \in Nat \ {0}

VARIABLES
  uid, exists, here, kind, \* each name's pod: UID, whether it exists, runs on the node, its kind
  cordoned,   \* the node is unschedulable
  cancelled,  \* ctx is done: cancelled, timed out, or the program ends
  dpc,        \* where drain is
  listed,     \* pods: the candidates, in the order of the list
  index,      \* the candidate being evicted
  attempt,    \* evictWithRetry's attempt
  pending, next, \* the candidates of this poll pass still to be asked, and those kept
  completed,  \* the candidates confirmed gone
  todo,       \* the event drain is sending, or NoEvent
  out,        \* the channel out
  final,      \* the forwarder's finalDone, finalTotal, finalErr, blocked, remaining
  summarised, \* DrainDoneMsg was sent
  evicted     \* history: pods the API server evicted for this drain

node == <<uid, exists, here, kind, cordoned>>
locals == <<listed, index, attempt, pending, next, completed>>
drain == <<dpc, locals, todo>>
forwarder == <<final, summarised>>
vars == <<node, cancelled, drain, out, forwarder, evicted>>

\* unsafe: emptyDir data, or no verifiable controller.  skip: mirror,
\* DaemonSet-owned and completed pods.
Kinds == {"plain", "unsafe", "skip"}
Pod == [name : 1..Names, uid : 1..MaxUID, kind : Kinds]
Phases == {"starting", "evicting", "accepted", "waiting", "evicted", "blocked", "error", "done"}
Terminal == {"error", "done"}
Event == [phase : Phases, pod : Nat, done : Nat, total : Nat, remaining : SUBSET Nat]

Ev(phase, i) == [phase |-> phase, pod |-> i, done |-> Cardinality(completed),
                 total |-> Len(listed), remaining |-> {}]
NoEvent == [phase |-> "none", pod |-> 0, done |-> 0, total |-> 0, remaining |-> {}]

Init ==
  /\ kind \in [1..Names -> Kinds]
  /\ uid = [n \in 1..Names |-> 1] /\ exists = [n \in 1..Names |-> TRUE]
  /\ here = [n \in 1..Names |-> TRUE]
  /\ cordoned = FALSE /\ cancelled = FALSE
  /\ dpc = "client"
  /\ listed = <<>> /\ index = 1 /\ attempt = 0 /\ pending = <<>> /\ next = <<>>
  /\ completed = {} /\ todo = NoEvent /\ out = <<>>
  /\ final = [done |-> 0, total |-> 0, err |-> FALSE, blocked |-> {}, remaining |-> {}]
  /\ summarised = FALSE /\ evicted = {}

-----------------------------------------------------------------------------
(* The cluster and the user.                                               *)

\* A pod terminates, evicted or not.
Vanish(n) ==
  /\ exists[n]
  /\ exists' = [exists EXCEPT ![n] = FALSE]
  /\ UNCHANGED <<uid, here, kind, cordoned, cancelled, drain, out, forwarder, evicted>>

\* A pod is created under the same name; only pods that ignore the cordon are
\* placed on a cordoned node.
Recreate(n, k, onNode) ==
  /\ ~exists[n] /\ uid[n] < MaxUID
  /\ onNode => ~cordoned \/ k = "skip"
  /\ exists' = [exists EXCEPT ![n] = TRUE] /\ uid' = [uid EXCEPT ![n] = @ + 1]
  /\ here' = [here EXCEPT ![n] = onNode] /\ kind' = [kind EXCEPT ![n] = k]
  /\ UNCHANGED <<cordoned, cancelled, drain, out, forwarder, evicted>>

\* The user, a focus change, the end of the program, or drainTimeout.
Cancel ==
  /\ ~cancelled
  /\ cancelled' = TRUE
  /\ UNCHANGED <<node, drain, out, forwarder, evicted>>

-----------------------------------------------------------------------------
(* send and finish.                                                        *)

\* A wrong Blocking: no event is sent at any price.
BlockingNever(phase) == FALSE

\* A terminal event is sent even after cancellation.
Blocking(phase) == phase \in Terminal

\* send returns: the event is in the channel, or given up because ctx is done.
Send ==
  /\ todo # NoEvent
  /\ \/ Len(out) < Cap /\ out' = Append(out, todo)
     \/ cancelled /\ ~Blocking(todo.phase) /\ UNCHANGED out
  /\ todo' = NoEvent
  /\ dpc' = IF todo.phase \in Terminal THEN "done" ELSE dpc
  /\ UNCHANGED <<node, cancelled, locals, forwarder, evicted>>

\* An early error, which has no counts.
Abort == todo' = [NoEvent EXCEPT !.phase = "error"] /\ dpc' = "ending"

\* finish: what is not confirmed remains.
Finish(phase) ==
  /\ todo' = [Ev(phase, 0) EXCEPT !.remaining = DOMAIN listed \ completed]
  /\ dpc' = "ending"
  /\ UNCHANGED locals

\* drain is at `place` and has nothing left to send.
At(place) == dpc = place /\ todo = NoEvent

-----------------------------------------------------------------------------
(* Preparation.                                                            *)

Connect(ok) ==
  /\ At("client")
  /\ IF ok THEN dpc' = "cordon" /\ UNCHANGED todo ELSE Abort
  /\ UNCHANGED <<node, cancelled, locals, out, forwarder, evicted>>

AfterCordon(ok) == IF ok THEN dpc' = "list" /\ UNCHANGED todo ELSE Abort

\* The patch; one that failed may still have had its effect.
Cordon(ok, effect) ==
  /\ At("cordon")
  /\ ok => effect /\ ~cancelled
  /\ cordoned' = (cordoned \/ effect)
  /\ AfterCordon(ok)
  /\ UNCHANGED <<uid, exists, here, kind, cancelled, locals, out, forwarder, evicted>>

\* The pods of the node that are not skipped.
Candidates == {n \in 1..Names : exists[n] /\ here[n] /\ kind[n] # "skip"}

\* The server lists them in some order.
List(order) ==
  /\ At("list") /\ ~cancelled
  /\ IsInjective(order)
  /\ listed' = [i \in DOMAIN order |->
                  [name |-> order[i], uid |-> uid[order[i]], kind |-> kind[order[i]]]]
  /\ dpc' = "preflight"
  /\ UNCHANGED <<node, cancelled, index, attempt, pending, next, completed, todo, out,
                 forwarder, evicted>>

\* Every candidate passes preflight.check.
Safe == \A i \in DOMAIN listed : listed[i].kind = "plain"

Preflight ==
  /\ At("preflight") /\ ~cancelled /\ Safe
  /\ todo' = Ev("starting", 0)
  /\ dpc' = "next"
  /\ UNCHANGED <<node, cancelled, locals, out, forwarder, evicted>>

\* The list fails, a candidate is refused, or a check could not be made.
Refuse ==
  /\ At("list") \/ At("preflight")
  /\ Abort
  /\ UNCHANGED <<node, cancelled, locals, out, forwarder, evicted>>

-----------------------------------------------------------------------------
(* Evictions.                                                              *)

\* The head of the loop over pods.
NextPod ==
  /\ At("next") /\ index <= Len(listed)
  /\ IF cancelled THEN Finish("error")
     ELSE /\ todo' = Ev("evicting", index)
          /\ dpc' = "evict" /\ attempt' = 0
          /\ UNCHANGED <<listed, index, pending, next, completed>>
  /\ UNCHANGED <<node, cancelled, out, forwarder, evicted>>

EvictionsSubmitted ==
  /\ At("next") /\ index > Len(listed)
  /\ IF pending = <<>> THEN Finish("done")
     ELSE todo' = Ev("waiting", 0) /\ dpc' = "poll" /\ UNCHANGED locals
  /\ UNCHANGED <<node, cancelled, out, forwarder, evicted>>

\* A wrong Matches: the request names the pod only.
MatchesByName(p) == exists[p.name]

\* The pod the eviction may act on: the precondition on the UID.
Matches(p) == exists[p.name] /\ uid[p.name] = p.uid

\* The API server evicts whatever pod has that name now.
Evicted(p) ==
  evicted' = evicted \cup {[name |-> p.name, uid |-> uid[p.name], kind |-> kind[p.name]]}

\* Move on to the next pod, announcing what became of this one.
Announce(phase) ==
  /\ todo' = Ev(phase, index)
  /\ index' = index + 1
  /\ dpc' = "next"
  /\ UNCHANGED <<listed, attempt, next, completed>>

Accepted ==
  /\ At("evict") /\ ~cancelled
  /\ LET p == listed[index] IN
     \/ Matches(p) /\ Evicted(p)
     \/ ~exists[p.name] /\ UNCHANGED evicted     \* NotFound
  /\ pending' = Append(pending, index)
  /\ Announce("accepted")
  /\ UNCHANGED <<node, cancelled, out, forwarder>>

OutOfRetries == attempt >= MaxRetries

\* 429: a PodDisruptionBudget forbids the eviction for now.
TooMany ==
  /\ At("evict") /\ ~cancelled
  /\ IF OutOfRetries THEN Announce("blocked") /\ UNCHANGED pending
     ELSE /\ dpc' = "backoff" /\ attempt' = attempt + 1
          /\ UNCHANGED <<todo, listed, index, pending, next, completed>>
  /\ UNCHANGED <<node, cancelled, out, forwarder, evicted>>

Backoff ==
  /\ At("backoff")
  /\ \/ dpc' = "evict" /\ UNCHANGED <<todo, locals>>
     \/ cancelled /\ Finish("error")
  /\ UNCHANGED <<node, cancelled, out, forwarder, evicted>>

\* Any other error, a conflict with the precondition among them; the request
\* may have been served although its answer was lost.
EvictFails ==
  /\ At("evict")
  /\ LET p == listed[index] IN (Matches(p) /\ Evicted(p)) \/ UNCHANGED evicted
  /\ IF cancelled THEN Finish("error") ELSE Announce("blocked") /\ UNCHANGED pending
  /\ UNCHANGED <<node, cancelled, out, forwarder>>

-----------------------------------------------------------------------------
(* Polling.                                                                *)

\* The poll asks for the first of `pending` and goes on.
Polled(isKept, nowCompleted) ==
  /\ pending' = Tail(pending)
  /\ next' = IF isKept THEN Append(next, Head(pending)) ELSE next
  /\ completed' = nowCompleted
  /\ UNCHANGED <<dpc, listed, index, attempt>>

PollGone ==
  /\ At("poll") /\ pending # <<>> /\ ~cancelled
  /\ ~Matches(listed[Head(pending)])
  /\ Polled(FALSE, completed \cup {Head(pending)})
  /\ todo' = [Ev("evicted", Head(pending)) EXCEPT !.done = Cardinality(completed')]
  /\ UNCHANGED <<node, cancelled, out, forwarder, evicted>>

PollThere ==
  /\ At("poll") /\ pending # <<>> /\ ~cancelled
  /\ Matches(listed[Head(pending)])
  /\ Polled(TRUE, completed)
  /\ UNCHANGED <<node, cancelled, todo, out, forwarder, evicted>>

\* A wrong Unconfirmed: a failed check counts as gone.
UnconfirmedCounts == completed \cup {Head(pending)}

Unconfirmed == completed

PollFails ==
  /\ At("poll") /\ pending # <<>> /\ ~cancelled
  /\ Polled(FALSE, Unconfirmed)
  /\ todo' = Ev("blocked", Head(pending))
  /\ UNCHANGED <<node, cancelled, out, forwarder, evicted>>

\* ctx.Err() after a Get, or while waiting for the ticker.
PollCancelled ==
  /\ (At("poll") /\ pending # <<>>) \/ At("wait")
  /\ cancelled
  /\ Finish("error")
  /\ UNCHANGED <<node, cancelled, out, forwarder, evicted>>

PassEnds ==
  /\ At("poll") /\ pending = <<>>
  /\ IF next = <<>> THEN Finish("done") ELSE dpc' = "wait" /\ UNCHANGED <<todo, locals>>
  /\ UNCHANGED <<node, cancelled, out, forwarder, evicted>>

Tick ==
  /\ At("wait")
  /\ pending' = next /\ next' = <<>>
  /\ dpc' = "poll"
  /\ UNCHANGED <<node, cancelled, listed, index, attempt, completed, todo, out, forwarder,
                 evicted>>

-----------------------------------------------------------------------------
(* The forwarder.                                                          *)

\* A wrong Reading: the forwarder leaves when the drain is cancelled.
ReadingUntilCancelled == ~cancelled

\* "Callers must consume out until it closes, including after cancellation."
Reading == TRUE

Receive ==
  /\ Reading /\ out # <<>>
  /\ out' = Tail(out)
  /\ LET ev == Head(out) IN
     final' = [done |-> Max({final.done, ev.done}), total |-> Max({final.total, ev.total}),
               err |-> final.err \/ ev.phase = "error",
               blocked |-> IF ev.phase = "blocked" THEN final.blocked \cup {ev.pod}
                           ELSE final.blocked,
               remaining |-> IF ev.phase \in Terminal THEN ev.remaining ELSE final.remaining]
  /\ UNCHANGED <<node, cancelled, drain, summarised, evicted>>

\* out is closed and empty: DrainDoneMsg.
Summarise ==
  /\ Reading /\ dpc = "done" /\ out = <<>> /\ ~summarised
  /\ summarised' = TRUE
  /\ UNCHANGED <<node, cancelled, drain, out, final, evicted>>

-----------------------------------------------------------------------------
Prepare ==
  \/ \E ok \in BOOLEAN : Connect(ok)
  \/ \E ok, effect \in BOOLEAN : Cordon(ok, effect)
  \/ \E order \in [1..Cardinality(Candidates) -> Candidates] : List(order)
  \/ Preflight \/ Refuse

EvictPods == NextPod \/ EvictionsSubmitted \/ Accepted \/ TooMany \/ Backoff \/ EvictFails

Poll == PollGone \/ PollThere \/ PollFails \/ PollCancelled \/ PassEnds \/ Tick

Cluster ==
  \E n \in 1..Names : Vanish(n) \/ \E k \in Kinds, onNode \in BOOLEAN : Recreate(n, k, onNode)

Drain == Send \/ Prepare \/ EvictPods \/ Poll
Forward == Receive \/ Summarise

Next == Cluster \/ Cancel \/ Drain \/ Forward

Spec == Init /\ [][Next]_vars

\* Both goroutines are scheduled and drainTimeout passes; the cluster owes
\* nothing.
FairSpec == Spec /\ WF_vars(Drain) /\ WF_vars(Forward) /\ WF_vars(Cancel)

-----------------------------------------------------------------------------
TypeOK ==
  /\ uid \in [1..Names -> 1..MaxUID] /\ exists \in [1..Names -> BOOLEAN]
  /\ here \in [1..Names -> BOOLEAN] /\ kind \in [1..Names -> Kinds]
  /\ cordoned \in BOOLEAN /\ cancelled \in BOOLEAN
  /\ dpc \in {"client", "cordon", "list", "preflight", "next", "evict", "backoff", "poll",
              "wait", "ending", "done"}
  /\ listed \in Seq(Pod) /\ index \in 1..(Len(listed) + 1) /\ attempt \in 0..MaxRetries
  /\ pending \in Seq(DOMAIN listed) /\ next \in Seq(DOMAIN listed)
  /\ completed \subseteq DOMAIN listed
  /\ todo \in Event \cup {NoEvent} /\ out \in Seq(Event) /\ Len(out) <= Cap
  /\ final \in [done : Nat, total : Nat, err : BOOLEAN, blocked : SUBSET Nat,
                remaining : SUBSET Nat]
  /\ summarised \in BOOLEAN /\ evicted \subseteq Pod

\* "Drain cordons the node and checks every candidate before eviction", and
\* "a replacement with the same name has not passed preflight": whatever comes
\* and goes under the listed names, only listed pods are evicted, and none
\* unless all of them were found safe.
OnlyValidatedEvicted ==
  /\ evicted \subseteq Range(listed)
  /\ evicted # {} => \A i \in DOMAIN listed : listed[i].kind = "plain"

\* "Draining while still schedulable means new pods can land on the node":
\* a drain that ends without error and without remainder leaves the node
\* without any pod it had to evict.
CompleteMeansEmpty ==
  summarised /\ ~final.err /\ final.remaining = {} =>
    \A n \in 1..Names : exists[n] /\ here[n] => kind[n] = "skip"

\* "Original UID confirmed gone": a pod that was counted is gone for good,
\* whatever was created under its name and however its checks failed.
CountedGone == \A i \in completed : ~Matches(listed[i])

\* The summary adds up: every candidate it does not count is listed as
\* remaining, and nothing of it is lost to a full channel or to cancellation.
\* "Reporting failure per-pod lets the user see exactly what's stuck": a drain
\* that was not cut short names every pod it leaves as blocked, and one that
\* names none left the node empty.  At any time, what is counted is gone.
SummaryTruthful ==
  /\ CountedGone
  /\ summarised /\ final.total > 0 =>
       /\ final.total = Len(listed) /\ final.done = Cardinality(completed)
       /\ final.remaining = DOMAIN listed \ completed
  /\ summarised /\ final.total = 0 => final.err \/ listed = <<>>
  /\ summarised /\ ~final.err /\ ~cancelled => final.remaining = final.blocked
  /\ CompleteMeansEmpty

\* What makes OnlyValidatedEvicted and CountedGone inductive (NodeDrain_proof):
\* a UID is never used again and its pod does not change kind, so a listed pod
\* that still matches is the one that was validated.
Early == {"client", "cordon", "list"}

DrainInv ==
  /\ \A i \in DOMAIN listed :
       /\ listed[i].uid <= uid[listed[i].name]
       /\ listed[i].uid = uid[listed[i].name] => listed[i].kind = kind[listed[i].name]
  /\ dpc \in Early => listed = <<>> /\ pending = <<>> /\ next = <<>>
  /\ dpc \in Early \cup {"preflight"} => evicted = {} /\ completed = {}
  /\ dpc \in {"next", "evict", "backoff", "poll", "wait"} => Safe
  /\ dpc \in {"evict", "backoff"} => index \in DOMAIN listed

\* What makes SummaryTruthful inductive, in three parts.  SplitInv: a candidate
\* whose turn has come is waited for, counted or announced as blocked, never two
\* of these, and none is forgotten unless the drain was cancelled.
BlockedIn(s) == {s[j].pod : j \in {k \in DOMAIN s : s[k].phase = "blocked"}}
Stuck == final.blocked \cup BlockedIn(out) \cup BlockedIn(<<todo>>)
Waiting == Range(pending) \cup Range(next)
Turned == 1..(index - 1)

SplitInv ==
  /\ IsInjective(pending) /\ IsInjective(next) /\ Range(pending) \cap Range(next) = {}
  /\ completed \cap Waiting = {} /\ Stuck \cap (completed \cup Waiting) = {}
  /\ Stuck \cup completed \cup Waiting \subseteq Turned
  /\ ~cancelled => Turned \subseteq Stuck \cup completed \cup Waiting
  /\ index \in 1..(Len(listed) + 1) /\ attempt \in Nat
  /\ dpc \notin {"poll", "wait", "ending", "done"} => next = <<>>
  /\ dpc \in {"poll", "wait"} => index = Len(listed) + 1
  /\ dpc = "wait" => pending = <<>>

\* NodeInv: once the candidates are listed, whatever has to leave the node is one.
Covered ==
  /\ cordoned
  /\ \A n \in 1..Names : exists[n] /\ here[n] /\ kind[n] # "skip" =>
       \E i \in DOMAIN listed : listed[i].name = n /\ Matches(listed[i])

NodeInv ==
  /\ here \in [1..Names -> BOOLEAN] /\ cordoned \in BOOLEAN /\ cancelled \in BOOLEAN
  /\ dpc = "list" => cordoned
  /\ dpc \notin Early \cup {"ending", "done"} => Covered

\* ChannelInv: no event says more than is so, and the one terminal event is the
\* last; it tells what remains, or that the drain was refused before it began.
Bounded(e) == e.done <= Cardinality(completed) /\ e.total \in {0, Len(listed)}
Counts(e) ==
  /\ e.done = Cardinality(completed) /\ e.total = Len(listed)
  /\ e.remaining = DOMAIN listed \ completed
Settled == Covered /\ pending = <<>> /\ next = <<>> /\ index = Len(listed) + 1

IsLast(ev, before) ==
  \/ ev.phase = "error" /\ ev.total = 0 /\ ev.done = 0 /\ before = 0 /\ final.total = 0
  \/ ev.phase \in Terminal /\ Counts(ev) /\ (ev.phase = "done" => Settled)

ChannelInv ==
  /\ todo \in Event \cup {NoEvent} /\ out \in Seq(Event)
  /\ final \in [done : Nat, total : Nat, err : BOOLEAN, blocked : SUBSET Nat,
                remaining : SUBSET Nat]
  /\ Bounded(todo) /\ Bounded(final) /\ \A j \in DOMAIN out : Bounded(out[j])
  /\ \A j \in DOMAIN out : out[j].phase \in Terminal => dpc = "done" /\ j = Len(out)
  /\ todo.phase \in Terminal <=> dpc = "ending"
  /\ dpc \in Early \cup {"preflight"} => todo = NoEvent /\ out = <<>> /\ final.total = 0
  /\ dpc # "done" \/ out # <<>> => ~final.err
  /\ dpc = "ending" => IsLast(todo, Len(out))
  /\ dpc = "done" => todo = NoEvent
  /\ dpc = "done" /\ out # <<>> => IsLast(out[Len(out)], Len(out) - 1)
  /\ dpc = "done" /\ out = <<>> =>
       (final.err /\ final.total = 0) \/ (Counts(final) /\ (~final.err => Settled))
  /\ summarised => dpc = "done" /\ out = <<>>

SummaryInv == SplitInv /\ NodeInv /\ ChannelInv

\* However pods hang, a drain ends and its summary reaches the UI.
DrainEnds == <>summarised
=============================================================================
