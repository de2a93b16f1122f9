-------------------------- MODULE ScopeResolution --------------------------
(***************************************************************************)
(* internal/cluster/probe.go, ResolveScope: every watcher and the probe of *)
(* a context ask whether its pods can be listed cluster-wide.  The first   *)
(* caller starts a shared call; the others wait for it.  A definitive      *)
(* answer is cached for good, a transient failure is not.  A caller whose  *)
(* own context is cancelled stops waiting without cancelling the call.     *)
(***************************************************************************)
EXTENDS Naturals, Sequences, FiniteSets

CONSTANTS Callers,  \* goroutines that resolve the scope of one context
          MaxAsks   \* bound on calls of ResolveScope

ASSUME MaxAsksAssumption == MaxAsks \in Nat

VARIABLES
  scopes, \* the cached scope, "unresolved" when absent
  flight, \* scopeCalls: the number of the call in flight, 0 when absent
  calls,  \* the shared calls made so far
  pc,     \* each caller: "idle", "lookup", "join" or "wait"
  joined, \* the call each caller waits for
  left,   \* callers whose context is done
  got,    \* history: what each caller's last call returned
  asks    \* number of calls of ResolveScope so far

caller == <<pc, joined, left, got, asks>>
scopeVars == <<scopes, flight, calls, caller>>

\* The hint a kubeconfig context gives is a namespace here: with an empty
\* hint every answer is cluster-wide.
Scope == {"cluster", "namespace"}
Hint == "namespace"

\* What became of the List: allowed, denied, failed, or cut short.
Outcome == {"allowed", "denied", "transient", "cancelled"}
Definitive(outcome) == outcome \in {"allowed", "denied"}

ScopeOf(outcome) == IF outcome = "allowed" THEN "cluster" ELSE Hint

\* A shared call: its goroutine's place, the caller that began it, its answer.
Call == [pc : {"begun", "request", "answered", "deleted", "closed"}, owner : Callers,
         ns : Scope, outcome : Outcome \cup {"none", "cached"}]
NewCall(c) == [pc |-> "begun", owner |-> c, ns |-> Hint, outcome |-> "none"]

ScopeInit ==
  /\ scopes = "unresolved" /\ flight = 0 /\ calls = <<>>
  /\ pc = [c \in Callers |-> "idle"]
  /\ joined = [c \in Callers |-> 0]
  /\ left = {}
  /\ got = [c \in Callers |-> "none"]
  /\ asks = 0

-----------------------------------------------------------------------------
(* The callers.                                                            *)

\* A watcher starts, or the probe reaches its scope step, with a new context.
Ask(c) ==
  /\ pc[c] = "idle" /\ asks < MaxAsks
  /\ pc' = [pc EXCEPT ![c] = "lookup"]
  /\ left' = left \ {c}
  /\ got' = [got EXCEPT ![c] = "none"]
  /\ asks' = asks + 1
  /\ UNCHANGED <<scopes, flight, calls, joined>>

\* The caller's context is cancelled.
LeaveCall(c) ==
  /\ pc[c] # "idle" /\ c \notin left
  /\ left' = left \cup {c}
  /\ UNCHANGED <<scopes, flight, calls, pc, joined, got, asks>>

Return(c, answer) ==
  /\ pc' = [pc EXCEPT ![c] = "idle"]
  /\ joined' = [joined EXCEPT ![c] = 0]
  /\ got' = [got EXCEPT ![c] = answer]

Lookup(c) ==
  /\ pc[c] = "lookup"
  /\ IF scopes # "unresolved" THEN Return(c, "cached")
     ELSE IF c \in left THEN Return(c, "hint")
     ELSE pc' = [pc EXCEPT ![c] = "join"] /\ UNCHANGED <<joined, got>>
  /\ UNCHANGED <<scopes, flight, calls, left, asks>>

\* scopeCalls.LoadOrStore
Join(c) ==
  /\ pc[c] = "join"
  /\ pc' = [pc EXCEPT ![c] = "wait"]
  /\ IF flight # 0
     THEN joined' = [joined EXCEPT ![c] = flight] /\ UNCHANGED <<flight, calls>>
     ELSE /\ calls' = Append(calls, NewCall(c))
          /\ flight' = Len(calls')
          /\ joined' = [joined EXCEPT ![c] = Len(calls')]
  /\ UNCHANGED <<scopes, left, got, asks>>

\* The select between ctx.Done and call.done.
GiveUp(c) ==
  /\ pc[c] = "wait" /\ c \in left
  /\ Return(c, "hint")
  /\ UNCHANGED <<scopes, flight, calls, left, asks>>

Answer(c) ==
  /\ pc[c] = "wait" /\ calls[joined[c]].pc = "closed"
  /\ Return(c, calls[joined[c]].outcome)
  /\ UNCHANGED <<scopes, flight, calls, left, asks>>

-----------------------------------------------------------------------------
(* The goroutine of shared call i.                                         *)

Step(i, from, to) ==
  /\ calls[i].pc = from
  /\ calls' = [calls EXCEPT ![i].pc = to]
  /\ UNCHANGED <<scopes, caller>>

\* Another call may have been answered since the caller's lookup.
Known == scopes # "unresolved"

Check(i) ==
  /\ calls[i].pc = "begun"
  /\ calls' = [calls EXCEPT ![i] =
       IF Known THEN [@ EXCEPT !.pc = "answered", !.ns = scopes, !.outcome = "cached"]
       ELSE [@ EXCEPT !.pc = "request"]]
  /\ UNCHANGED <<scopes, flight, caller>>

\* A wrong RequestDone: the request runs under its owner's context.
RequestDoneWithOwner(i) == calls[i].owner \in left

\* The request has a context of its own, context.WithoutCancel.
RequestDone(i) == FALSE

\* resolveScopeNow, within its deadline, and the Store of a definitive answer.
Resolve(i, outcome) ==
  /\ calls[i].pc = "request"
  /\ outcome = "cancelled" => RequestDone(i)
  /\ calls' = [calls EXCEPT ![i] = [@ EXCEPT !.pc = "answered", !.ns = ScopeOf(outcome),
                                             !.outcome = outcome]]
  /\ scopes' = IF Definitive(outcome) THEN ScopeOf(outcome) ELSE scopes
  /\ UNCHANGED <<flight, caller>>

\* A wrong Cleared: the call stays registered when nothing was cached.
ClearedIfCached(i) == IF scopes = "unresolved" THEN flight ELSE 0

Cleared(i) == 0

\* scopeCalls.Delete
Delete(i) == Step(i, "answered", "deleted") /\ flight' = Cleared(i)

\* A wrong Waking: only a cached answer is announced.
WakingIfCached(i) == scopes # "unresolved"

Waking(i) == TRUE

\* close(call.done)
CloseCall(i) == Waking(i) /\ Step(i, "deleted", "closed") /\ UNCHANGED flight

ScopeNext ==
  \/ \E c \in Callers : \/ Ask(c) \/ LeaveCall(c) \/ Lookup(c) \/ Join(c)
                        \/ GiveUp(c) \/ Answer(c)
  \/ \E i \in 1..Len(calls) : \/ Check(i)
                              \/ \E outcome \in Outcome : Resolve(i, outcome)
                              \/ Delete(i) \/ CloseCall(i)

ScopeSpec == ScopeInit /\ [][ScopeNext]_scopeVars

CallStep(i) ==
  /\ i <= Len(calls)
  /\ Check(i) \/ Delete(i) \/ CloseCall(i) \/ \E outcome \in Outcome : Resolve(i, outcome)

\* Goroutines are scheduled, and the request ends by ProbeTimeout at the latest.
ScopeFairness ==
  /\ \A c \in Callers :
       WF_scopeVars(Lookup(c)) /\ WF_scopeVars(Join(c)) /\ WF_scopeVars(Answer(c))
  /\ \A i \in 1..MaxAsks : WF_scopeVars(CallStep(i))

FairScopeSpec == ScopeSpec /\ ScopeFairness

-----------------------------------------------------------------------------
Requesting == {i \in 1..Len(calls) : calls[i].pc = "request"}

\* "The decision is sticky": no later answer of the API server replaces it.  A
\* transient answer is not kept: a call that was taken out of scopeCalls is joined
\* by nobody.  (Between its answer and that moment it may be.)
Sticky ==
  [][/\ scopes # "unresolved" => scopes' = scopes
     /\ \A c \in Callers : pc[c] = "join" /\ pc'[c] = "wait"
          => calls'[joined'[c]].pc \in {"begun", "request", "answered"}]_scopeVars

\* At most one check is on the wire, and none once the answer is cached,
\* however lookups, joins and finishing calls interleave.
SingleFlight ==
  /\ Cardinality(Requesting) <= 1
  /\ scopes # "unresolved" => Requesting = {}

\* "One caller leaving must not cancel the check for other watchers": whoever
\* still wants the answer is never handed a check that was cut short.
LeavingIsPrivate == \A c \in Callers : got[c] \in {"hint", "cancelled"} => c \in left

\* The shared call serves everyone who waits for it, and is made only once.
CallShared == SingleFlight /\ LeavingIsPrivate

\* Every call of ResolveScope returns: when nobody asks any more, nobody waits.
Returns == <>[](\A c \in Callers : pc[c] = "idle")

\* The inductive strengthening of the properties above (PodWatch_proof).
ScopeTypeOK ==
  /\ scopes \in Scope \cup {"unresolved"} /\ calls \in Seq(Call) /\ flight \in 0..Len(calls)
  /\ pc \in [Callers -> {"idle", "lookup", "join", "wait"}]
  /\ joined \in [Callers -> 0..Len(calls)] /\ left \subseteq Callers
  /\ got \in [Callers -> Outcome \cup {"none", "cached", "hint"}]

\* A call is registered from its start until its deletion, before it is closed.
InProgress(i) == calls[i].pc \in {"begun", "request", "answered"}

FlightIsLatest == \A i \in 1..Len(calls) : InProgress(i) <=> i = flight

\* No call was cut short, and who waits has joined a call.
AnswersInv ==
  /\ \A i \in 1..Len(calls) : calls[i].outcome # "cancelled"
  /\ \A c \in Callers : pc[c] = "wait" => joined[c] \in 1..Len(calls)

ScopeInv ==
  /\ ScopeTypeOK /\ FlightIsLatest /\ AnswersInv /\ LeavingIsPrivate
  /\ scopes # "unresolved" => Requesting = {}
=============================================================================
