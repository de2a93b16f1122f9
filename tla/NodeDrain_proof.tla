--------------------------- MODULE NodeDrain_proof ---------------------------
(***************************************************************************)
(* Proofs about NodeDrain: only validated pods are evicted, what is        *)
(* confirmed gone is gone, and the summary tells what happened to each     *)
(* pod, for any number of pods, UIDs and retries.                          *)
(***************************************************************************)
EXTENDS NodeDrain, FiniteSetTheorems, TLAPS

\* The part of TypeOK the argument needs.
Types ==
  /\ uid \in [1..Names -> 1..MaxUID] /\ exists \in [1..Names -> BOOLEAN]
  /\ kind \in [1..Names -> Kinds]
  /\ dpc \in {"client", "cordon", "list", "preflight", "next", "evict", "backoff", "poll",
              "wait", "ending", "done"}
  /\ listed \in Seq(Pod) /\ index \in Nat \ {0}
  /\ pending \in Seq(DOMAIN listed) /\ next \in Seq(DOMAIN listed)
  /\ completed \subseteq DOMAIN listed

SafetyInv == Types /\ DrainInv /\ OnlyValidatedEvicted /\ CountedGone


LEMMA DrainInit == Init => SafetyInv
<1> SUFFICES ASSUME Init PROVE SafetyInv
  OBVIOUS
<1>1. Types
  BY DrainAssumption DEF Init, Types
<1>2. DrainInv
  BY DEF Init, DrainInv, Early
<1>3. OnlyValidatedEvicted /\ CountedGone
  BY DEF Init, OnlyValidatedEvicted, CountedGone
<1> QED BY <1>1, <1>2, <1>3 DEF SafetyInv

\* A listed pod that still matches is the pod of that name, kind and all.
LEMMA MatchingPod ==
  ASSUME SafetyInv, NEW i \in DOMAIN listed, Matches(listed[i])
  PROVE  [name |-> listed[i].name, uid |-> uid[listed[i].name],
          kind |-> kind[listed[i].name]] = listed[i]
<1>1. listed[i] \in Pod
  BY DEF SafetyInv, Types
<1>2. uid[listed[i].name] = listed[i].uid
  BY DEF Matches
<1>3. kind[listed[i].name] = listed[i].kind
  BY <1>2 DEF SafetyInv, DrainInv
<1> QED BY <1>1, <1>2, <1>3 DEF Pod

\* A step of drain or of the forwarder that moves on without touching pods,
\* candidates or evictions.
LEMMA QuietKeeps ==
  ASSUME SafetyInv, UNCHANGED <<uid, exists, kind, listed, pending, next, completed, evicted>>,
         dpc' \in {"ending", "done"} \/ (dpc' = dpc /\ index' = index)
         \/ (dpc' \in {"cordon", "list"} /\ dpc \in Early)
         \/ (dpc' \in {"next", "poll", "wait"} /\ Safe /\ dpc \notin Early)
         \/ (dpc' \in {"evict", "backoff"} /\ Safe /\ dpc \notin Early /\ index' \in DOMAIN listed),
         index' \in Nat \ {0}
  PROVE  SafetyInv'
<1>1. Types'
  BY DEF SafetyInv, Types, Early
<1>2. DrainInv'
  BY DEF SafetyInv, DrainInv, Early, Safe
<1>3. OnlyValidatedEvicted' /\ CountedGone'
  BY DEF SafetyInv, OnlyValidatedEvicted, CountedGone, Matches
<1> QED BY <1>1, <1>2, <1>3 DEF SafetyInv

LEMMA ClusterKeeps == ASSUME SafetyInv, Cluster PROVE SafetyInv'
<1> USE DEF SafetyInv, drain, locals
<1>1. ASSUME NEW n \in 1..Names, Vanish(n) PROVE SafetyInv'
  <2>1. /\ exists' = [exists EXCEPT ![n] = FALSE]
        /\ UNCHANGED <<uid, kind, dpc, listed, index, pending, next, completed, evicted>>
    BY <1>1 DEF Vanish
  <2>2. Types'
    BY <2>1 DEF Types
  <2>3. DrainInv'
    BY <2>1 DEF DrainInv, Safe
  <2>4. CountedGone'
    <3> SUFFICES ASSUME NEW i \in completed PROVE ~Matches(listed[i])'
      BY <2>1 DEF CountedGone
    <3>1. ~Matches(listed[i]) /\ listed[i] \in Pod
      BY DEF CountedGone, Types
    <3> QED BY <3>1, <2>1 DEF Matches, Types, Pod
  <2>5. OnlyValidatedEvicted'
    BY <2>1 DEF OnlyValidatedEvicted
  <2> QED BY <2>2, <2>3, <2>4, <2>5
<1>2. ASSUME NEW n \in 1..Names, NEW k \in Kinds, NEW onNode \in BOOLEAN, Recreate(n, k, onNode)
      PROVE SafetyInv'
  <2>1. /\ uid[n] < MaxUID
        /\ exists' = [exists EXCEPT ![n] = TRUE] /\ uid' = [uid EXCEPT ![n] = @ + 1]
        /\ kind' = [kind EXCEPT ![n] = k]
        /\ UNCHANGED <<dpc, listed, index, pending, next, completed, evicted>>
    BY <1>2 DEF Recreate
  <2>2. Types'
    BY <2>1, DrainAssumption DEF Types
  <2>3. \A i \in DOMAIN listed :
          /\ listed[i] \in Pod /\ listed[i].name \in 1..Names
          /\ uid'[listed[i].name] >= listed[i].uid
          /\ uid'[listed[i].name] = listed[i].uid =>
               /\ listed[i].name # n /\ uid[listed[i].name] = listed[i].uid
               /\ kind'[listed[i].name] = kind[listed[i].name]
               /\ exists'[listed[i].name] = exists[listed[i].name]
    <3> SUFFICES ASSUME NEW i \in DOMAIN listed
                 PROVE /\ listed[i] \in Pod /\ listed[i].name \in 1..Names
                       /\ uid'[listed[i].name] >= listed[i].uid
                       /\ uid'[listed[i].name] = listed[i].uid =>
                            /\ listed[i].name # n /\ uid[listed[i].name] = listed[i].uid
                            /\ kind'[listed[i].name] = kind[listed[i].name]
                            /\ exists'[listed[i].name] = exists[listed[i].name]
      OBVIOUS
    <3>1. listed[i] \in Pod /\ listed[i].name \in 1..Names /\ listed[i].uid \in Nat
          /\ listed[i].uid <= uid[listed[i].name] /\ uid[listed[i].name] \in Nat
      <4>1. listed[i] \in Pod
        BY DEF Types
      <4>2. listed[i].name \in 1..Names /\ listed[i].uid \in 1..MaxUID
        BY <4>1 DEF Pod
      <4>3. uid[listed[i].name] \in 1..MaxUID
        BY <4>2 DEF Types
      <4> QED BY <4>1, <4>2, <4>3, DrainAssumption DEF DrainInv
    <3>2. CASE listed[i].name = n
      BY <3>1, <3>2, <2>1 DEF Types
    <3>3. CASE listed[i].name # n
      BY <3>1, <3>3, <2>1 DEF Types
    <3> QED BY <3>2, <3>3
  <2>4. DrainInv'
    BY <2>1, <2>3 DEF DrainInv, Safe
  <2>5. CountedGone'
    <3> SUFFICES ASSUME NEW i \in completed, Matches(listed[i])' PROVE FALSE
      BY <2>1 DEF CountedGone
    <3>1. i \in DOMAIN listed /\ uid'[listed[i].name] = listed[i].uid /\ exists'[listed[i].name]
      BY <2>1 DEF Matches, Types
    <3>2. Matches(listed[i])
      BY <3>1, <2>3 DEF Matches
    <3> QED BY <3>2 DEF CountedGone
  <2>6. OnlyValidatedEvicted'
    BY <2>1 DEF OnlyValidatedEvicted
  <2> QED BY <2>2, <2>4, <2>5, <2>6
<1> QED BY <1>1, <1>2 DEF Cluster

\* Only List sets the candidates, and it lists pods as they are.
LEMMA ListKeeps ==
  ASSUME SafetyInv, NEW order \in [1..Cardinality(Candidates) -> Candidates], List(order)
  PROVE  SafetyInv'
<1> USE DEF SafetyInv
<1>1. /\ dpc = "list" /\ dpc' = "preflight"
      /\ UNCHANGED <<uid, exists, kind, index, pending, next, completed, evicted>>
      /\ listed' = [i \in DOMAIN order |->
                      [name |-> order[i], uid |-> uid[order[i]], kind |-> kind[order[i]]]]
  BY DEF List, At, node
<1>2. pending = <<>> /\ next = <<>> /\ completed = {} /\ evicted = {}
  BY <1>1 DEF DrainInv, Early
<1>3. Cardinality(Candidates) \in Nat
  <2>1. IsFiniteSet(1..Names) /\ Candidates \subseteq 1..Names
    BY DrainAssumption, FS_Interval DEF Candidates
  <2> QED BY <2>1, FS_Subset, FS_CardinalityType
<1>4. \A i \in DOMAIN listed' : listed'[i] \in Pod /\ order[i] \in 1..Names
  <2> SUFFICES ASSUME NEW i \in DOMAIN listed' PROVE listed'[i] \in Pod /\ order[i] \in 1..Names
    OBVIOUS
  <2>1. i \in DOMAIN order /\ order[i] \in 1..Names
    BY <1>1 DEF Candidates
  <2>2. uid[order[i]] \in 1..MaxUID /\ kind[order[i]] \in Kinds
    BY <2>1 DEF Types
  <2>3. listed'[i] = [name |-> order[i], uid |-> uid[order[i]], kind |-> kind[order[i]]]
    BY <1>1, <2>1
  <2> QED BY <2>1, <2>2, <2>3 DEF Pod
<1>5. listed' \in Seq(Pod)
  BY <1>1, <1>3, <1>4
<1>6. Types'
  BY <1>1, <1>2, <1>5 DEF Types
<1>7. \A i \in DOMAIN listed' :
        listed'[i].uid <= uid'[listed'[i].name] /\ listed'[i].kind = kind'[listed'[i].name]
  BY <1>1, <1>4, DrainAssumption DEF Types
<1>8. DrainInv'
  BY <1>1, <1>2, <1>7 DEF DrainInv, Early
<1>9. OnlyValidatedEvicted' /\ CountedGone'
  BY <1>1, <1>2 DEF OnlyValidatedEvicted, CountedGone
<1> QED BY <1>6, <1>8, <1>9

LEMMA PrepareKeeps == ASSUME SafetyInv, Prepare PROVE SafetyInv'
<1> USE DEF node, locals, At
<1>0. index \in Nat \ {0}
  BY DEF SafetyInv, Types
<1>1. ASSUME NEW ok \in BOOLEAN, Connect(ok) PROVE SafetyInv'
  BY <1>0, <1>1, QuietKeeps DEF Connect, Abort, Early
<1>2. ASSUME NEW ok \in BOOLEAN, NEW effect \in BOOLEAN, Cordon(ok, effect) PROVE SafetyInv'
  BY <1>0, <1>2, QuietKeeps DEF Cordon, AfterCordon, Abort, Early
<1>3. CASE Preflight
  BY <1>0, <1>3, QuietKeeps DEF Preflight, Early
<1>4. CASE Refuse
  BY <1>0, <1>4, QuietKeeps DEF Refuse, Abort
<1> QED BY <1>1, <1>2, <1>3, <1>4, ListKeeps DEF Prepare

\* A step that may evict the candidate under `index`, and moves on.
LEMMA EvictingKeeps ==
  ASSUME SafetyInv, dpc = "evict",
         UNCHANGED <<uid, exists, kind, listed, next, completed>>,
         \/ UNCHANGED evicted
         \/ Matches(listed[index]) /\ Evicted(listed[index]),
         dpc' \in {"next", "ending"}, index' \in Nat \ {0},
         pending' \in Seq(DOMAIN listed)
  PROVE  SafetyInv'
<1> USE DEF SafetyInv
<1>1. Safe /\ index \in DOMAIN listed
  BY DEF DrainInv
<1>2. evicted' \subseteq Range(listed)
  <2>1. CASE UNCHANGED evicted
    BY <2>1 DEF OnlyValidatedEvicted
  <2>2. CASE Matches(listed[index]) /\ Evicted(listed[index])
    <3>1. evicted' = evicted \cup {listed[index]}
      BY <1>1, <2>2, MatchingPod DEF Evicted
    <3> QED BY <3>1, <1>1 DEF OnlyValidatedEvicted, Range
  <2> QED BY <2>1, <2>2
<1>3. OnlyValidatedEvicted'
  BY <1>1, <1>2 DEF OnlyValidatedEvicted, Safe, Range
<1>4. Types'
  BY DEF Types
<1>5. DrainInv'
  BY <1>1 DEF DrainInv, Early, Safe
<1>6. CountedGone'
  BY DEF CountedGone, Matches
<1> QED BY <1>3, <1>4, <1>5, <1>6

LEMMA EvictPodsKeeps == ASSUME SafetyInv, EvictPods PROVE SafetyInv'
<1> USE DEF node, At
<1>0. /\ index \in Nat \ {0} /\ index + 1 \in Nat \ {0}
      /\ dpc \in {"next", "evict", "backoff"} => Safe /\ dpc \notin Early
      /\ dpc \in {"evict", "backoff"} => index \in DOMAIN listed
      /\ pending \in Seq(DOMAIN listed) /\ listed \in Seq(Pod)
  BY DEF SafetyInv, Types, DrainInv, Early
<1>1. CASE NextPod
  <2>1. index \in DOMAIN listed
    BY <1>0, <1>1 DEF NextPod
  <2> QED BY <1>0, <1>1, <2>1, QuietKeeps DEF NextPod, Finish, locals
<1>2. CASE EvictionsSubmitted
  BY <1>0, <1>2, QuietKeeps DEF EvictionsSubmitted, Finish, locals
<1>3. CASE Accepted
  <2>1. /\ dpc = "evict" /\ dpc' = "next" /\ index' = index + 1
        /\ UNCHANGED <<uid, exists, kind, listed, next, completed>>
        /\ UNCHANGED evicted \/ (Matches(listed[index]) /\ Evicted(listed[index]))
        /\ pending' = Append(pending, index)
    BY <1>3 DEF Accepted, Announce
  <2>2. pending' \in Seq(DOMAIN listed)
    BY <1>0, <2>1
  <2> QED BY <1>0, <2>1, <2>2, EvictingKeeps
<1>4. CASE TooMany
  BY <1>0, <1>4, QuietKeeps DEF TooMany, Announce
<1>5. CASE Backoff
  BY <1>0, <1>5, QuietKeeps DEF Backoff, Finish, locals
<1>6. CASE EvictFails
  <2>1. /\ dpc = "evict" /\ dpc' \in {"next", "ending"} /\ index' \in {index, index + 1}
        /\ UNCHANGED <<uid, exists, kind, listed, next, completed, pending>>
        /\ UNCHANGED evicted \/ (Matches(listed[index]) /\ Evicted(listed[index]))
    BY <1>6 DEF EvictFails, Announce, Finish, locals
  <2> QED BY <1>0, <2>1, EvictingKeeps
<1> QED BY <1>1, <1>2, <1>3, <1>4, <1>5, <1>6 DEF EvictPods

\* A poll of the first pending candidate, which counts it only if it is gone.
LEMMA PolledKeeps ==
  ASSUME SafetyInv, dpc = "poll", pending # <<>>,
         UNCHANGED <<uid, exists, kind, evicted>>,
         NEW isKept \in BOOLEAN,
         \/ Polled(isKept, completed)
         \/ ~Matches(listed[Head(pending)]) /\ Polled(isKept, completed \cup {Head(pending)})
  PROVE  SafetyInv'
<1> USE DEF SafetyInv
<1>1. /\ Head(pending) \in DOMAIN listed /\ Tail(pending) \in Seq(DOMAIN listed)
      /\ Append(next, Head(pending)) \in Seq(DOMAIN listed)
  BY DEF Types
<1>2. UNCHANGED <<dpc, listed, index>> /\ pending' = Tail(pending)
      /\ next' \in {next, Append(next, Head(pending))}
  BY DEF Polled
<1>3. Types'
  BY <1>1, <1>2 DEF Types, Polled
<1>4. DrainInv'
  BY <1>2 DEF DrainInv, Early, Safe
<1>5. CountedGone'
  BY <1>2 DEF CountedGone, Matches, Polled
<1>6. OnlyValidatedEvicted'
  BY <1>2 DEF OnlyValidatedEvicted
<1> QED BY <1>3, <1>4, <1>5, <1>6

LEMMA PollKeeps == ASSUME SafetyInv, Poll PROVE SafetyInv'
<1> USE DEF node, At
<1>0. /\ index \in Nat \ {0} /\ (dpc \in {"poll", "wait"} => Safe /\ dpc \notin Early)
  BY DEF SafetyInv, Types, DrainInv, Early
<1>1. CASE PollGone
  BY <1>1, PolledKeeps DEF PollGone
<1>2. CASE PollThere
  BY <1>2, PolledKeeps DEF PollThere
<1>3. CASE PollFails
  BY <1>3, PolledKeeps DEF PollFails, Unconfirmed
<1>4. CASE PollCancelled
  BY <1>0, <1>4, QuietKeeps DEF PollCancelled, Finish, locals
<1>5. CASE PassEnds
  BY <1>0, <1>5, QuietKeeps DEF PassEnds, Finish, locals
<1>6. CASE Tick
  <2>1. /\ dpc = "wait" /\ dpc' = "poll" /\ pending' = next /\ next' = <<>>
        /\ UNCHANGED <<uid, exists, kind, listed, index, completed, evicted>>
    BY <1>6 DEF Tick
  <2>2. Types'
    BY <2>1 DEF SafetyInv, Types
  <2>3. DrainInv'
    BY <2>1 DEF SafetyInv, DrainInv, Early, Safe
  <2>4. OnlyValidatedEvicted' /\ CountedGone'
    BY <2>1 DEF SafetyInv, OnlyValidatedEvicted, CountedGone, Matches
  <2> QED BY <2>2, <2>3, <2>4 DEF SafetyInv
<1> QED BY <1>1, <1>2, <1>3, <1>4, <1>5, <1>6 DEF Poll

LEMMA DrainStep == ASSUME SafetyInv, [Next]_vars PROVE SafetyInv'
<1>0. index \in Nat \ {0}
  BY DEF SafetyInv, Types
<1>1. CASE Cancel
  BY <1>0, <1>1, QuietKeeps DEF Cancel, node, drain, locals
<1>2. CASE Send
  BY <1>0, <1>2, QuietKeeps DEF Send, node, locals
<1>3. CASE Receive \/ Summarise
  BY <1>0, <1>3, QuietKeeps DEF Receive, Summarise, node, drain, locals
<1>4. CASE UNCHANGED vars
  BY <1>0, <1>4, QuietKeeps DEF vars, node, drain, locals
<1> QED
  BY <1>1, <1>2, <1>3, <1>4, ClusterKeeps, PrepareKeeps, EvictPodsKeeps, PollKeeps
     DEF Next, Drain, Forward

\* Listed pods keep their identity, what is confirmed gone is gone, and only
\* validated pods are evicted.
THEOREM Invariance == Spec => []SafetyInv
<1>1. Init => SafetyInv
  BY DrainInit
<1>2. SafetyInv /\ [Next]_vars => SafetyInv'
  BY DrainStep
<1> QED BY <1>1, <1>2, PTL DEF Spec

\* No pod is evicted that preflight did not validate, and none if it refused
\* any, whatever is recreated under the listed names and whatever calls fail.
THEOREM OnlyValidated == Spec => []OnlyValidatedEvicted
<1>1. SafetyInv => OnlyValidatedEvicted
  BY DEF SafetyInv
<1> QED BY <1>1, Invariance, PTL

\* A pod that a drain counted as terminated is gone, for good.
THEOREM CountedIsGone == Spec => []CountedGone
<1>1. SafetyInv => CountedGone
  BY DEF SafetyInv
<1> QED BY <1>1, Invariance, PTL

-----------------------------------------------------------------------------
(* The summary.  First what it is built of: sequences of candidates, the   *)
(* pods announced as blocked, the larger of two counts.                    *)

\* The first of a sequence of distinct elements leaves it.
LEMMA HeadLeaves ==
  ASSUME NEW S, NEW s \in Seq(S), s # <<>>
  PROVE  /\ Range(s) = {Head(s)} \cup Range(Tail(s)) /\ Head(s) \in S
         /\ IsInjective(s) => IsInjective(Tail(s)) /\ Head(s) \notin Range(Tail(s))
<1>1. /\ Len(s) \in Nat \ {0} /\ DOMAIN s = 1..Len(s) /\ Head(s) = s[1]
      /\ DOMAIN Tail(s) = 1..(Len(s) - 1)
      /\ \A i \in 1..(Len(s) - 1) : Tail(s)[i] = s[i + 1]
      /\ \A i \in 1..Len(s) : s[i] \in S
  OBVIOUS
<1>2. Range(s) \subseteq {Head(s)} \cup Range(Tail(s))
  <2> SUFFICES ASSUME NEW i \in 1..Len(s) PROVE s[i] \in {Head(s)} \cup Range(Tail(s))
    BY <1>1 DEF Range
  <2>1. CASE i = 1
    BY <2>1, <1>1
  <2>2. CASE i # 1
    <3>1. i - 1 \in 1..(Len(s) - 1) /\ Tail(s)[i - 1] = s[i]
      BY <2>2, <1>1
    <3> QED BY <3>1, <1>1 DEF Range
  <2> QED BY <2>1, <2>2
<1>3. \A i \in DOMAIN Tail(s) : i + 1 \in DOMAIN s /\ Tail(s)[i] = s[i + 1]
  BY <1>1
<1>4. {Head(s)} \cup Range(Tail(s)) \subseteq Range(s)
  BY <1>1, <1>3 DEF Range
<1>5. ASSUME IsInjective(s) PROVE IsInjective(Tail(s)) /\ Head(s) \notin Range(Tail(s))
  <2>1. \A i, j \in DOMAIN s : s[i] = s[j] => i = j
    BY <1>5 DEF IsInjective
  <2>2. IsInjective(Tail(s))
    BY <2>1, <1>1 DEF IsInjective
  <2>3. Head(s) \notin Range(Tail(s))
    BY <2>1, <1>1 DEF Range
  <2> QED BY <2>2, <2>3
<1> QED BY <1>1, <1>2, <1>4, <1>5

\* One element more at the end.
LEMMA JoinsAtEnd ==
  ASSUME NEW S, NEW s \in Seq(S), NEW x \in S
  PROVE  /\ Range(Append(s, x)) = Range(s) \cup {x}
         /\ IsInjective(s) /\ x \notin Range(s) => IsInjective(Append(s, x))
<1>1. /\ Len(s) \in Nat /\ DOMAIN s = 1..Len(s) /\ DOMAIN Append(s, x) = 1..(Len(s) + 1)
      /\ \A i \in 1..Len(s) : Append(s, x)[i] = s[i]
      /\ Append(s, x)[Len(s) + 1] = x
  OBVIOUS
<1>2. DOMAIN Append(s, x) = DOMAIN s \cup {Len(s) + 1} /\ Len(s) + 1 \notin DOMAIN s
  BY <1>1
<1> QED BY <1>1, <1>2 DEF Range, IsInjective

\* No candidate is announced by what is not a "blocked" event.
LEMMA BlockedByOne ==
  ASSUME NEW e
  PROVE  BlockedIn(<<e>>) = IF e.phase = "blocked" THEN {e.pod} ELSE {}
<1>1. DOMAIN <<e>> = {1} /\ <<e>>[1] = e
  OBVIOUS
<1> QED BY <1>1 DEF BlockedIn

LEMMA BlockedByMore ==
  ASSUME NEW s \in Seq(Event), NEW e \in Event
  PROVE  BlockedIn(Append(s, e)) = BlockedIn(s) \cup BlockedIn(<<e>>)
<1>1. /\ Len(s) \in Nat /\ DOMAIN s = 1..Len(s) /\ DOMAIN Append(s, e) = 1..(Len(s) + 1)
      /\ \A i \in 1..Len(s) : Append(s, e)[i] = s[i]
      /\ Append(s, e)[Len(s) + 1] = e
  OBVIOUS
<1>2. DOMAIN Append(s, e) = DOMAIN s \cup {Len(s) + 1} /\ Len(s) + 1 \notin DOMAIN s
  BY <1>1
<1> QED BY <1>1, <1>2, BlockedByOne DEF BlockedIn

LEMMA BlockedByFirst ==
  ASSUME NEW s \in Seq(Event), s # <<>>
  PROVE  BlockedIn(s) = BlockedIn(<<Head(s)>>) \cup BlockedIn(Tail(s))
<1>1. /\ Len(s) \in Nat \ {0} /\ DOMAIN s = 1..Len(s) /\ Head(s) = s[1]
      /\ DOMAIN Tail(s) = 1..(Len(s) - 1)
      /\ \A i \in 1..(Len(s) - 1) : Tail(s)[i] = s[i + 1]
  OBVIOUS
<1>2. \A i \in DOMAIN s : i = 1 \/ (i - 1 \in DOMAIN Tail(s) /\ Tail(s)[i - 1] = s[i])
  BY <1>1
<1>3. 1 \in DOMAIN s /\ \A i \in DOMAIN Tail(s) : i + 1 \in DOMAIN s /\ Tail(s)[i] = s[i + 1]
  BY <1>1
<1>4. BlockedIn(<<Head(s)>>) = IF s[1].phase = "blocked" THEN {s[1].pod} ELSE {}
  BY <1>1, BlockedByOne
<1>5. ASSUME NEW x \in BlockedIn(s) PROVE x \in BlockedIn(<<Head(s)>>) \cup BlockedIn(Tail(s))
  <2> PICK j \in DOMAIN s : s[j].phase = "blocked" /\ x = s[j].pod
    BY <1>5 DEF BlockedIn
  <2>1. CASE j = 1
    BY <2>1, <1>4
  <2>2. CASE j # 1
    BY <2>2, <1>2 DEF BlockedIn
  <2> QED BY <2>1, <2>2
<1>6. BlockedIn(<<Head(s)>>) \cup BlockedIn(Tail(s)) \subseteq BlockedIn(s)
  BY <1>3, <1>4 DEF BlockedIn
<1> QED BY <1>5, <1>6

LEMMA LargerOfTwo ==
  ASSUME NEW a \in Nat, NEW b \in Nat
  PROVE  Max({a, b}) = IF a >= b THEN a ELSE b
<1>1. \A x \in {a, b} : (\A y \in {a, b} : x >= y) <=> x = IF a >= b THEN a ELSE b
  OBVIOUS
<1>2. Max({a, b}) = CHOOSE x \in {a, b} : \A y \in {a, b} : x >= y
  BY DEF Max
<1> QED BY <1>1, <1>2

-----------------------------------------------------------------------------
(* The three parts of SummaryInv, step by step.                            *)

LEMMA SummaryInit == Init => SummaryInv
<1> SUFFICES ASSUME Init PROVE SummaryInv
  OBVIOUS
<1>0. /\ DOMAIN out = {} /\ Range(pending) = {} /\ Range(next) = {} /\ BlockedIn(out) = {}
      /\ BlockedIn(<<todo>>) = {} /\ Len(listed) = 0 /\ Cardinality(completed) = 0
  BY BlockedByOne, FS_EmptySet DEF Init, Range, BlockedIn, NoEvent
<1>1. SplitInv
  BY <1>0 DEF Init, SplitInv, Waiting, Stuck, Turned, IsInjective
<1>2. NodeInv
  BY DEF Init, NodeInv, Early
<1>3. ChannelInv
  <2>1. /\ todo = NoEvent /\ out = <<>> /\ dpc = "client" /\ ~summarised
        /\ final = [done |-> 0, total |-> 0, err |-> FALSE, blocked |-> {}, remaining |-> {}]
    BY DEF Init
  <2>2. /\ NoEvent.phase = "none" /\ NoEvent.done = 0 /\ NoEvent.total = 0
        /\ final.done = 0 /\ final.total = 0 /\ ~final.err
    BY <2>1 DEF NoEvent
  <2>3. final \in [done : Nat, total : Nat, err : BOOLEAN, blocked : SUBSET Nat,
                   remaining : SUBSET Nat]
    BY <2>1
  <2> QED BY <1>0, <2>1, <2>2, <2>3 DEF ChannelInv, Bounded, Early, Terminal
<1> QED BY <1>1, <1>2, <1>3 DEF SummaryInv

\* What is known of the candidates' counts.
LEMMA Counted ==
  ASSUME SafetyInv
  PROVE  /\ Len(listed) \in Nat /\ DOMAIN listed = 1..Len(listed)
         /\ IsFiniteSet(DOMAIN listed) /\ IsFiniteSet(completed)
         /\ Cardinality(completed) \in Nat /\ completed \subseteq Nat
         /\ \A S \in SUBSET DOMAIN listed :
              completed \subseteq S =>
                Cardinality(S) \in Nat /\ Cardinality(completed) <= Cardinality(S)
<1>1. Len(listed) \in Nat /\ DOMAIN listed = 1..Len(listed) /\ completed \subseteq DOMAIN listed
  BY DEF SafetyInv, Types
<1>2. IsFiniteSet(DOMAIN listed)
  BY <1>1, FS_Interval
<1>3. ASSUME NEW S \in SUBSET DOMAIN listed
      PROVE  IsFiniteSet(S) /\ Cardinality(S) \in Nat
  BY <1>2, FS_Subset, FS_CardinalityType
<1>4. ASSUME NEW S \in SUBSET DOMAIN listed, completed \subseteq S
      PROVE  Cardinality(completed) <= Cardinality(S)
  BY <1>3, <1>4, FS_Subset
<1>5. completed \subseteq Nat /\ completed \in SUBSET DOMAIN listed
  BY <1>1
<1> QED BY <1>1, <1>2, <1>3, <1>4, <1>5

\* What the drain's own steps do to the pods announced as blocked.
LEMMA StuckGrows ==
  ASSUME UNCHANGED <<out, final>>, todo.phase # "blocked"
  PROVE  Stuck' = Stuck \cup IF todo'.phase = "blocked" THEN {todo'.pod} ELSE {}
<1>1. BlockedIn(<<todo>>) = {}
  BY BlockedByOne
<1>2. BlockedIn(<<todo>>)' = IF todo'.phase = "blocked" THEN {todo'.pod} ELSE {}
  BY BlockedByOne
<1>3. BlockedIn(out)' = BlockedIn(out)
  BY DEF BlockedIn
<1> QED BY <1>1, <1>2, <1>3 DEF Stuck

\* Once the node is cordoned and listed it stays so: what leaves it stays away
\* and what comes to it need not leave.
LEMMA CoveredStays ==
  ASSUME SafetyInv, Covered, UNCHANGED listed, here \in [1..Names -> BOOLEAN],
         Cluster \/ UNCHANGED <<uid, exists, here, kind, cordoned>>
  PROVE  Covered'
<1>1. CASE UNCHANGED <<uid, exists, here, kind, cordoned>>
  BY <1>1 DEF Covered, Matches
<1>2. ASSUME NEW n \in 1..Names, Vanish(n) PROVE Covered'
  <2>1. exists' = [exists EXCEPT ![n] = FALSE] /\ UNCHANGED <<uid, here, kind, cordoned>>
    BY <1>2 DEF Vanish
  <2>2. exists \in [1..Names -> BOOLEAN]
    BY DEF SafetyInv, Types
  <2>3. \A m \in 1..Names : exists'[m] => m # n /\ exists[m]
    BY <2>1, <2>2
  <2>4. \A m \in 1..Names : m # n => exists'[m] = exists[m]
    BY <2>1, <2>2
  <2> QED BY <2>1, <2>3, <2>4 DEF Covered, Matches
<1>3. ASSUME NEW n \in 1..Names, NEW k \in Kinds, NEW onNode \in BOOLEAN, Recreate(n, k, onNode)
      PROVE  Covered'
  <2>1. /\ cordoned /\ (onNode => k = "skip")
        /\ exists' = [exists EXCEPT ![n] = TRUE] /\ uid' = [uid EXCEPT ![n] = @ + 1]
        /\ here' = [here EXCEPT ![n] = onNode] /\ kind' = [kind EXCEPT ![n] = k]
        /\ UNCHANGED cordoned
    BY <1>3 DEF Recreate, Covered
  <2>2. /\ exists \in [1..Names -> BOOLEAN] /\ kind \in [1..Names -> Kinds]
        /\ uid \in [1..Names -> 1..MaxUID]
    BY DEF SafetyInv, Types
  <2>3. ASSUME NEW m \in 1..Names, m # n
        PROVE  exists'[m] = exists[m] /\ uid'[m] = uid[m] /\ here'[m] = here[m] /\ kind'[m] = kind[m]
    BY <2>1, <2>2, <2>3
  <2>4. here'[n] => kind'[n] = "skip"
    BY <2>1, <2>2
  <2>5. ASSUME NEW m \in 1..Names, exists'[m], here'[m], kind'[m] # "skip"
        PROVE  \E i \in DOMAIN listed : listed[i].name = m /\ Matches(listed[i])'
    <3>1. m # n
      BY <2>4, <2>5
    <3>2. PICK i \in DOMAIN listed : listed[i].name = m /\ Matches(listed[i])
      BY <2>3, <2>5, <3>1 DEF Covered
    <3> QED BY <2>3, <3>1, <3>2 DEF Matches
  <2> QED BY <2>1, <2>5 DEF Covered
<1> QED BY <1>1, <1>2, <1>3 DEF Cluster

\* A step that leaves the drain and the forwarder alone.
LEMMA OutsideKeeps ==
  ASSUME SafetyInv, SummaryInv, Cluster \/ Cancel \/ UNCHANGED vars
  PROVE  SummaryInv'
<1>1. UNCHANGED <<drain, out, forwarder>>
  <2>1. CASE Cluster
    BY <2>1 DEF Cluster, Vanish, Recreate
  <2>2. CASE Cancel \/ UNCHANGED vars
    BY <2>2 DEF Cancel, vars
  <2> QED BY <2>1, <2>2
<1>2. /\ UNCHANGED <<dpc, listed, index, attempt, pending, next, completed, todo, out, final,
                     summarised>>
      /\ cordoned' = cordoned
      /\ cancelled' \in BOOLEAN /\ (cancelled => cancelled')
      /\ here' \in [1..Names -> BOOLEAN]
      /\ Cluster \/ UNCHANGED <<uid, exists, here, kind, cordoned>>
  <2> USE DEF SummaryInv, NodeInv
  <2>1. CASE Cluster
    BY <1>1, <2>1 DEF Cluster, Vanish, Recreate, drain, locals, forwarder
  <2>2. CASE Cancel \/ UNCHANGED vars
    BY <1>1, <2>2 DEF Cancel, vars, drain, locals, forwarder, node
  <2> QED BY <2>1, <2>2
<1>3. Covered => Covered'
  BY <1>2, CoveredStays DEF SummaryInv, NodeInv
<1>4. SplitInv'
  BY <1>2 DEF SummaryInv, SplitInv, Waiting, Stuck, BlockedIn, Turned
<1>5. NodeInv'
  BY <1>2, <1>3 DEF SummaryInv, NodeInv
<1>6. /\ Settled => Settled'
      /\ \A e : Bounded(e) => Bounded(e)'
  BY <1>2, <1>3 DEF Settled, Bounded
<1>7. \A e : Counts(e) => Counts(e)'
  BY <1>2 DEF Counts
<1>8. ChannelInv'
  BY <1>2, <1>6, <1>7 DEF SummaryInv, ChannelInv, IsLast, Bounded, Counts
<1> QED BY <1>4, <1>5, <1>8 DEF SummaryInv

\* The drain at work hands over one event, or none, and goes on working.
Working == {"next", "evict", "backoff", "poll", "wait"}

LEMMA ReportKeeps ==
  ASSUME SafetyInv, ChannelInv, NodeInv, dpc \in Working, dpc' \in Working, todo = NoEvent,
         UNCHANGED <<uid, exists, here, kind, cordoned, cancelled, listed, out, final, summarised>>,
         completed \subseteq completed', completed' \subseteq DOMAIN listed,
         todo' \in Event \cup {NoEvent}, todo'.phase \notin Terminal, Bounded(todo)'
  PROVE  ChannelInv' /\ NodeInv'
<1>1. NodeInv'
  BY DEF NodeInv, Working, Early, Covered, Matches
<1>2. Cardinality(completed') \in Nat /\ Cardinality(completed) \in Nat
      /\ Cardinality(completed) <= Cardinality(completed')
  BY Counted
<1>3. Bounded(final)'
  BY <1>2 DEF Bounded, ChannelInv
<1>4. \A j \in DOMAIN out : Bounded(out[j])'
  <2> SUFFICES ASSUME NEW j \in DOMAIN out PROVE Bounded(out[j])'
    OBVIOUS
  <2>1. out[j] \in Event /\ Bounded(out[j])
    BY DEF ChannelInv
  <2>2. out[j].done \in Nat
    BY <2>1 DEF Event
  <2> QED BY <1>2, <2>1, <2>2 DEF Bounded
<1>5. ChannelInv'
  BY <1>3, <1>4 DEF ChannelInv, Working, Early, Terminal
<1> QED BY <1>1, <1>5

\* The drain gives up before its first event.
LEMMA AbortKeeps ==
  ASSUME SafetyInv, SummaryInv, dpc \in Early \cup {"preflight"}, Abort,
         UNCHANGED <<uid, exists, here, kind, cancelled, locals, out, forwarder>>,
         cordoned' \in BOOLEAN
  PROVE  SummaryInv'
<1>1. /\ UNCHANGED <<here, cancelled, listed, index, attempt, pending, next, completed, out, final,
                     summarised>>
      /\ dpc' = "ending" /\ todo = NoEvent /\ out = <<>> /\ final.total = 0
      /\ todo' = [NoEvent EXCEPT !.phase = "error"]
  BY DEF SummaryInv, ChannelInv, locals, forwarder, Abort
<1>2. /\ todo'.phase = "error" /\ todo'.total = 0 /\ todo'.done = 0 /\ todo' \in Event
      /\ todo.phase # "blocked"
  BY <1>1 DEF NoEvent, Event, Phases
<1>3. Stuck' = Stuck
  BY <1>1, <1>2, StuckGrows
<1>4. SplitInv'
  BY <1>1, <1>3 DEF SummaryInv, SplitInv, Waiting, Turned
<1>5. NodeInv'
  BY <1>1 DEF SummaryInv, NodeInv, Early
<1>6. Bounded(todo)' /\ Bounded(final)'
  BY <1>1, <1>2, Counted DEF SummaryInv, ChannelInv, Bounded
<1>7. IsLast(todo, Len(out))'
  BY <1>1, <1>2 DEF IsLast
<1>8. ChannelInv'
  BY <1>1, <1>2, <1>6, <1>7 DEF SummaryInv, ChannelInv, Early, Terminal
<1> QED BY <1>4, <1>5, <1>8 DEF SummaryInv

\* The drain at work ends; when it says it is done, it is.
LEMMA FinishKeeps ==
  ASSUME SafetyInv, SummaryInv, dpc \in Working, todo = NoEvent, NEW phase \in Terminal,
         Finish(phase), phase = "done" => Settled,
         UNCHANGED <<uid, exists, here, kind, cordoned, cancelled, out, forwarder>>
  PROVE  SummaryInv'
<1>1. /\ UNCHANGED <<here, cordoned, cancelled, listed, index, attempt, pending, next, completed,
                     out, final, summarised>>
      /\ dpc' = "ending" /\ Covered
  BY DEF SummaryInv, NodeInv, locals, forwarder, Finish, Working, Early
<1>2. /\ todo'.phase = phase /\ todo'.pod = 0 /\ todo'.total = Len(listed)
      /\ todo'.done = Cardinality(completed) /\ todo'.remaining = DOMAIN listed \ completed
  BY DEF Finish, Ev
<1>3. todo' \in Event
  <2>1. todo' = [phase |-> phase, pod |-> 0, done |-> Cardinality(completed),
                 total |-> Len(listed), remaining |-> DOMAIN listed \ completed]
    BY DEF Finish, Ev
  <2> QED BY <2>1, Counted DEF Event, Phases, Terminal
<1>4. Stuck' = Stuck
  BY <1>1, <1>2, StuckGrows DEF NoEvent, Terminal
<1>5. SplitInv'
  BY <1>1, <1>4 DEF SummaryInv, SplitInv, Waiting, Turned, Working
<1>6. NodeInv'
  BY <1>1 DEF SummaryInv, NodeInv, Early
<1>7. Settled => Settled'
  BY <1>1 DEF Settled, Covered, Matches
<1>8. Bounded(todo)' /\ Counts(todo)' /\ Bounded(final)' /\ \A j \in DOMAIN out : Bounded(out[j])'
  BY <1>1, <1>2, Counted DEF SummaryInv, ChannelInv, Bounded, Counts
<1>9. IsLast(todo, Len(out))'
  BY <1>2, <1>7, <1>8 DEF IsLast
<1>10. dpc \notin {"done", "ending"} \cup Early
  BY DEF Working, Early
<1>11. ChannelInv'
  BY <1>1, <1>2, <1>3, <1>8, <1>9, <1>10 DEF SummaryInv, ChannelInv, Early
<1> QED BY <1>5, <1>6, <1>11 DEF SummaryInv

\* An ordinary event counts what has been counted.
LEMMA EventTyped ==
  ASSUME SafetyInv, NEW phase \in Phases, NEW i \in Nat
  PROVE  /\ Ev(phase, i) \in Event /\ Ev(phase, i).phase = phase /\ Ev(phase, i).pod = i
         /\ Ev(phase, i).done = Cardinality(completed) /\ Ev(phase, i).total = Len(listed)
<1>1. Len(listed) \in Nat /\ Cardinality(completed) \in Nat
  BY Counted
<1> QED BY <1>1 DEF Ev, Event

\* The order of the list names every candidate: as many distinct ones as there are.
LEMMA EveryoneListed ==
  ASSUME NEW S, IsFiniteSet(S), NEW f \in [1..Cardinality(S) -> S], IsInjective(f)
  PROVE  \A n \in S : \E i \in 1..Cardinality(S) : f[i] = n
<1>1. f \in Injection(1..Cardinality(S), S)
  BY DEF Injection, IsInjective
<1>2. Cardinality(S) \in Nat
  BY FS_CardinalityType
<1>3. Cardinality(1..Cardinality(S)) = Cardinality(S)
  BY <1>2, FS_Interval
<1>4. f \in Surjection(1..Cardinality(S), S)
  BY <1>1, <1>3, FS_Injection
<1> QED BY <1>4 DEF Surjection

LEMMA ListKeepsSummary ==
  ASSUME SafetyInv, SummaryInv,
         NEW order \in [1..Cardinality(Candidates) -> Candidates], List(order)
  PROVE  SummaryInv'
<1>1. /\ dpc = "list" /\ dpc' = "preflight" /\ IsInjective(order)
      /\ UNCHANGED <<uid, exists, here, kind, cordoned, cancelled, index, attempt, pending, next,
                     completed, todo, out, final, summarised>>
      /\ listed' = [i \in DOMAIN order |->
                      [name |-> order[i], uid |-> uid[order[i]], kind |-> kind[order[i]]]]
  BY DEF List, At, node, forwarder
<1>2. /\ listed = <<>> /\ completed = {} /\ todo = NoEvent /\ out = <<>> /\ final.total = 0
      /\ cordoned /\ index = 1 /\ final.done = 0 /\ Cardinality(completed) = 0
      /\ ~final.err /\ ~summarised
  <2>1. /\ listed = <<>> /\ completed = {} /\ todo = NoEvent /\ out = <<>> /\ final.total = 0
        /\ cordoned /\ ~final.err /\ ~summarised /\ index \in 1..1 /\ Bounded(final)
        /\ final.done \in Nat
    BY <1>1 DEF SafetyInv, DrainInv, SummaryInv, ChannelInv, NodeInv, SplitInv, Early
  <2> QED BY <2>1, FS_EmptySet DEF Bounded
<1>3. IsFiniteSet(Candidates)
  <2>1. IsFiniteSet(1..Names) /\ Candidates \subseteq 1..Names
    BY DrainAssumption, FS_Interval DEF Candidates
  <2> QED BY <2>1, FS_Subset
<1>4. Len(listed') = Cardinality(Candidates) /\ Cardinality(Candidates) \in Nat
  BY <1>1, <1>3, FS_CardinalityType
<1>5. Covered'
  <2>1. cordoned'
    BY <1>1, <1>2
  <2>2. ASSUME NEW n \in 1..Names, exists'[n], here'[n], kind'[n] # "skip"
        PROVE  \E i \in DOMAIN listed' : listed'[i].name = n /\ Matches(listed[i])'
    <3>1. n \in Candidates
      BY <1>1, <2>2 DEF Candidates
    <3>2. PICK i \in 1..Cardinality(Candidates) : order[i] = n
      BY <1>1, <1>3, <3>1, EveryoneListed
    <3>3. i \in DOMAIN listed' /\ listed'[i] = [name |-> n, uid |-> uid[n], kind |-> kind[n]]
      BY <1>1, <3>2
    <3>4. exists'[n] /\ uid'[n] = uid[n]
      BY <1>1, <2>2
    <3>5. Matches(listed[i])'
      BY <3>3, <3>4 DEF Matches
    <3> QED BY <3>3, <3>5
  <2> QED BY <2>1, <2>2 DEF Covered
<1>6. SplitInv'
  <2>1. UNCHANGED <<Stuck, Waiting, Turned>>
    BY <1>1 DEF Stuck, Waiting, Turned, BlockedIn
  <2>2. index' \in 1..(Len(listed') + 1)
    BY <1>1, <1>2, <1>4
  <2> QED BY <1>1, <2>1, <2>2 DEF SummaryInv, SplitInv
<1>7. NodeInv'
  BY <1>1, <1>5 DEF SummaryInv, NodeInv, Early
<1>8. Bounded(todo)' /\ Bounded(final)' /\ DOMAIN out' = {}
  BY <1>1, <1>2 DEF Bounded, NoEvent
<1>9. ChannelInv'
  BY <1>1, <1>2, <1>8 DEF SummaryInv, ChannelInv, Early, Terminal, NoEvent
<1> QED BY <1>6, <1>7, <1>9 DEF SummaryInv

LEMMA PrepareKeepsSummary == ASSUME SafetyInv, SummaryInv, Prepare PROVE SummaryInv'
<1> USE DEF node, At
<1>0. cordoned \in BOOLEAN
  BY DEF SummaryInv, NodeInv
\* A step that only moves on.
<1>1. ASSUME dpc \in Early, dpc' \in {"cordon", "list"}, todo = NoEvent, cordoned' \in BOOLEAN,
             dpc' = "list" => cordoned',
             UNCHANGED <<uid, exists, here, kind, cancelled, locals, todo, out, forwarder>>
      PROVE  SummaryInv'
  <2>1. UNCHANGED <<here, cancelled, listed, index, attempt, pending, next, completed, todo, out,
                    final, summarised>>
    BY <1>1 DEF locals, forwarder
  <2>2. SplitInv'
    BY <1>1, <2>1 DEF SummaryInv, SplitInv, Stuck, Waiting, Turned, BlockedIn, Early
  <2>3. NodeInv'
    BY <1>1, <2>1 DEF SummaryInv, NodeInv, Early
  <2>4. ChannelInv'
    BY <1>1, <2>1 DEF SummaryInv, ChannelInv, Bounded, Early
  <2> QED BY <2>2, <2>3, <2>4 DEF SummaryInv
<1>2. ASSUME NEW ok \in BOOLEAN, Connect(ok) PROVE SummaryInv'
  <2>1. CASE ok
    BY <1>0, <1>1, <1>2, <2>1 DEF Connect, Early
  <2>2. CASE ~ok
    BY <1>0, <1>2, <2>2, AbortKeeps DEF Connect, Early
  <2> QED BY <2>1, <2>2
<1>3. ASSUME NEW ok \in BOOLEAN, NEW effect \in BOOLEAN, Cordon(ok, effect) PROVE SummaryInv'
  <2>1. CASE ok
    BY <1>0, <1>1, <1>3, <2>1 DEF Cordon, AfterCordon, Early
  <2>2. CASE ~ok
    BY <1>0, <1>3, <2>2, AbortKeeps DEF Cordon, AfterCordon, Early
  <2> QED BY <2>1, <2>2
<1>4. CASE Refuse
  BY <1>0, <1>4, AbortKeeps DEF Refuse, Early
<1>5. CASE Preflight
  <2>1. /\ dpc = "preflight" /\ dpc' = "next" /\ todo = NoEvent /\ todo' = Ev("starting", 0)
        /\ UNCHANGED <<uid, exists, here, kind, cordoned, cancelled, listed, index, attempt,
                       pending, next, completed, out, final, summarised>>
    BY <1>5 DEF Preflight, locals, forwarder
  <2>2. /\ todo' \in Event /\ todo'.phase = "starting" /\ todo'.done = Cardinality(completed)
        /\ todo'.total = Len(listed) /\ Cardinality(completed) \in Nat
    BY <2>1, EventTyped, Counted DEF Phases
  <2>3. Stuck' = Stuck
    BY <2>1, <2>2, StuckGrows DEF NoEvent
  <2>4. SplitInv'
    BY <2>1, <2>3 DEF SummaryInv, SplitInv, Waiting, Turned
  <2>5. NodeInv'
    BY <2>1 DEF SummaryInv, NodeInv, Early, Covered, Matches
  <2>6. Bounded(todo)' /\ Bounded(final)'
    BY <2>1, <2>2 DEF Bounded, SummaryInv, ChannelInv
  <2>7. ChannelInv'
    BY <2>1, <2>2, <2>6 DEF SummaryInv, ChannelInv, Early, Terminal
  <2> QED BY <2>4, <2>5, <2>7 DEF SummaryInv
<1> QED BY <1>2, <1>3, <1>4, <1>5, ListKeepsSummary DEF Prepare

\* What became of the candidate under `index` is announced.
LEMMA AnnounceKeeps ==
  ASSUME SafetyInv, SummaryInv, dpc = "evict", todo = NoEvent, NEW phase \in {"accepted", "blocked"},
         Announce(phase),
         pending' = IF phase = "accepted" THEN Append(pending, index) ELSE pending,
         UNCHANGED <<uid, exists, here, kind, cordoned, cancelled, out, forwarder>>
  PROVE  SummaryInv'
<1>1. /\ UNCHANGED <<listed, attempt, next, completed, out, final, summarised>>
      /\ index' = index + 1 /\ dpc' = "next" /\ todo' = Ev(phase, index)
  BY DEF Announce, forwarder
<1>2. /\ index \in DOMAIN listed /\ index \in Nat \ {0} /\ pending \in Seq(Nat)
      /\ DOMAIN listed = 1..Len(listed) /\ Len(listed) \in Nat
      /\ completed \in SUBSET DOMAIN listed
  <2>1. pending \in Seq(DOMAIN listed) /\ DOMAIN listed \subseteq Nat
    BY Counted DEF SafetyInv, Types
  <2> QED BY <2>1, Counted DEF SafetyInv, DrainInv, Types
<1>3. /\ todo' \in Event /\ todo'.phase = phase /\ todo'.pod = index
      /\ todo'.done = Cardinality(completed) /\ todo'.total = Len(listed)
  BY <1>1, <1>2, EventTyped DEF Phases
<1>4. Stuck' = Stuck \cup IF phase = "blocked" THEN {index} ELSE {}
  BY <1>1, <1>3, StuckGrows DEF NoEvent
<1>5. /\ Range(pending') = Range(pending) \cup IF phase = "accepted" THEN {index} ELSE {}
      /\ IsInjective(pending) /\ index \notin Range(pending) => IsInjective(pending')
  BY <1>2, JoinsAtEnd
<1>6. index \notin Turned /\ Turned' = Turned \cup {index}
  BY <1>1, <1>2 DEF Turned
<1>7. SplitInv'
  <2>1. Stuck \cup completed \cup Waiting \subseteq Turned
    BY DEF SummaryInv, SplitInv
  <2>2. index \notin Stuck \cup completed \cup Range(pending) \cup Range(next)
    BY <1>6, <2>1 DEF Waiting
  <2>3. IsInjective(pending') /\ IsInjective(next') /\ Range(pending') \cap Range(next') = {}
    BY <1>1, <1>5, <2>2 DEF SummaryInv, SplitInv
  <2>4. Waiting' = Waiting \cup IF phase = "accepted" THEN {index} ELSE {}
    BY <1>1, <1>5 DEF Waiting
  <2>5. completed' \cap Waiting' = {} /\ Stuck' \cap (completed' \cup Waiting') = {}
    BY <1>1, <1>4, <2>2, <2>4 DEF SummaryInv, SplitInv, Waiting
  <2>6. /\ Stuck' \cup completed' \cup Waiting' \subseteq Turned'
        /\ ~cancelled => Turned' \subseteq Stuck' \cup completed' \cup Waiting'
    BY <1>1, <1>4, <1>6, <2>1, <2>4 DEF SummaryInv, SplitInv
  <2>7. index' \in 1..(Len(listed) + 1)
    BY <1>1, <1>2
  <2> QED BY <1>1, <2>3, <2>5, <2>6, <2>7 DEF SummaryInv, SplitInv
<1>8. ChannelInv' /\ NodeInv'
  <2>1. dpc \in Working /\ dpc' \in Working /\ Bounded(todo)' /\ todo'.phase \notin Terminal
    BY <1>1, <1>3, Counted DEF Working, Bounded, Terminal
  <2> QED BY <1>1, <1>2, <1>3, <2>1, ReportKeeps DEF SummaryInv
<1> QED BY <1>7, <1>8 DEF SummaryInv

\* The drain at work goes on without news of a candidate.
LEMMA MovesOnKeeps ==
  ASSUME SafetyInv, SummaryInv, dpc \in Working, dpc' \in Working, todo = NoEvent,
         UNCHANGED <<uid, exists, here, kind, cordoned, cancelled, listed, index, completed, out,
                     final, summarised>>,
         todo' = NoEvent \/ \E phase \in {"evicting", "waiting"}, i \in Nat : todo' = Ev(phase, i),
         attempt' \in Nat,
         dpc' \in {"poll", "wait"} => index = Len(listed) + 1,
         \/ /\ UNCHANGED <<pending, next>>
            /\ dpc' \in {"next", "evict", "backoff"} => dpc \in {"next", "evict", "backoff"}
            /\ dpc' = "wait" => pending = <<>>
         \/ pending = <<>> /\ pending' = next /\ next' = <<>> /\ dpc' = "poll"
  PROVE  SummaryInv'
<1>1. completed \in SUBSET DOMAIN listed
  BY DEF SafetyInv, Types
<1>2. /\ todo' \in Event \cup {NoEvent} /\ Bounded(todo)'
      /\ todo'.phase \notin Terminal \cup {"blocked"} /\ todo.phase # "blocked"
  <2>1. CASE todo' = NoEvent
    BY <2>1, Counted DEF NoEvent, Bounded, Terminal
  <2>2. ASSUME NEW phase \in {"evicting", "waiting"}, NEW i \in Nat, todo' = Ev(phase, i)
        PROVE  /\ todo' \in Event \cup {NoEvent} /\ Bounded(todo)'
               /\ todo'.phase \notin Terminal \cup {"blocked"}
    <3>1. /\ todo' \in Event /\ todo'.phase = phase /\ todo'.done = Cardinality(completed)
          /\ todo'.total = Len(listed)
      BY <1>1, <2>2, EventTyped DEF Phases
    <3> QED BY <2>2, <3>1, Counted DEF Bounded, Terminal
  <2>3. todo.phase # "blocked"
    BY DEF NoEvent
  <2> QED BY <2>1, <2>2, <2>3
<1>3. Stuck' = Stuck
  BY <1>2, StuckGrows
<1>4. Range(<<>>) = {} /\ IsInjective(<<>>)
  BY DEF Range, IsInjective
<1>5. Waiting' = Waiting /\ Turned' = Turned
  BY <1>4 DEF Waiting, Turned
<1>6. /\ IsInjective(pending') /\ IsInjective(next') /\ Range(pending') \cap Range(next') = {}
  BY <1>4 DEF SummaryInv, SplitInv
<1>7. /\ dpc' \notin {"poll", "wait", "ending", "done"} => next' = <<>>
      /\ dpc' = "wait" => pending' = <<>>
  BY DEF SummaryInv, SplitInv, Working
<1>8. SplitInv'
  BY <1>3, <1>5, <1>6, <1>7 DEF SummaryInv, SplitInv
<1>9. ChannelInv' /\ NodeInv'
  BY <1>1, <1>2, ReportKeeps DEF SummaryInv
<1> QED BY <1>8, <1>9 DEF SummaryInv

LEMMA EvictPodsKeepSummary == ASSUME SafetyInv, SummaryInv, EvictPods PROVE SummaryInv'
<1> USE DEF node, At
<1>0. /\ index \in Nat \ {0} /\ Len(listed) \in Nat /\ attempt \in Nat
      /\ DOMAIN listed = 1..Len(listed) /\ index \in 1..(Len(listed) + 1)
      /\ dpc \in {"next", "evict", "backoff"} => next = <<>> /\ Covered
  BY Counted DEF SafetyInv, Types, SummaryInv, SplitInv, NodeInv, Early
<1>1. CASE NextPod
  <2>1. CASE cancelled
    BY <1>1, <2>1, FinishKeeps DEF NextPod, Working, Terminal
  <2>2. CASE ~cancelled
    BY <1>0, <1>1, <2>2, MovesOnKeeps DEF NextPod, Working, forwarder
  <2> QED BY <2>1, <2>2
<1>2. CASE EvictionsSubmitted
  <2>1. index = Len(listed) + 1
    BY <1>0, <1>2 DEF EvictionsSubmitted
  <2>2. CASE pending = <<>>
    <3>1. Settled
      BY <1>0, <1>2, <2>1, <2>2 DEF EvictionsSubmitted, Settled
    <3> QED BY <1>2, <2>2, <3>1, FinishKeeps DEF EvictionsSubmitted, Working, Terminal
  <2>3. CASE pending # <<>>
    <3>1. /\ dpc = "next" /\ dpc' = "poll" /\ todo = NoEvent /\ todo' = Ev("waiting", 0)
          /\ UNCHANGED <<uid, exists, here, kind, cordoned, cancelled, listed, index, attempt,
                         pending, next, completed, out, final, summarised>>
      BY <1>2, <2>3 DEF EvictionsSubmitted, locals, forwarder
    <3> QED BY <1>0, <2>1, <3>1, MovesOnKeeps DEF Working
  <2> QED BY <2>2, <2>3
<1>3. CASE Accepted
  BY <1>3, AnnounceKeeps DEF Accepted
<1>4. CASE TooMany
  <2>1. CASE OutOfRetries
    BY <1>4, <2>1, AnnounceKeeps DEF TooMany
  <2>2. CASE ~OutOfRetries
    BY <1>0, <1>4, <2>2, MovesOnKeeps DEF TooMany, Working, forwarder
  <2> QED BY <2>1, <2>2
<1>5. CASE Backoff
  <2>1. CASE Finish("error")
    BY <1>5, <2>1, FinishKeeps DEF Backoff, Working, Terminal
  <2>2. CASE dpc' = "evict" /\ UNCHANGED <<todo, locals>>
    BY <1>0, <1>5, <2>2, MovesOnKeeps DEF Backoff, Working, forwarder, locals
  <2> QED BY <1>5, <2>1, <2>2 DEF Backoff
<1>6. CASE EvictFails
  <2>1. CASE cancelled
    BY <1>6, <2>1, FinishKeeps DEF EvictFails, Working, Terminal
  <2>2. CASE ~cancelled
    BY <1>6, <2>2, AnnounceKeeps DEF EvictFails
  <2> QED BY <2>1, <2>2
<1> QED BY <1>1, <1>2, <1>3, <1>4, <1>5, <1>6 DEF EvictPods

\* One candidate is polled: it is gone, or still there, or its check failed.
LEMMA PollingKeeps == ASSUME SafetyInv, SummaryInv, PollGone \/ PollThere \/ PollFails PROVE SummaryInv'
<1> DEFINE h == Head(pending)
<1>1. /\ dpc = "poll" /\ todo = NoEvent /\ pending # <<>> /\ pending' = Tail(pending)
      /\ UNCHANGED <<uid, exists, here, kind, cordoned, cancelled, dpc, listed, index, attempt, out,
                     final, summarised>>
  BY DEF PollGone, PollThere, PollFails, Polled, At, node, forwarder
<1>2. \/ /\ completed' = completed \cup {h} /\ next' = next
         /\ todo' = [Ev("evicted", h) EXCEPT !.done = Cardinality(completed')]
      \/ completed' = completed /\ next' = Append(next, h) /\ todo' = NoEvent
      \/ completed' = completed /\ next' = next /\ todo' = Ev("blocked", h)
  BY <1>1 DEF PollGone, PollThere, PollFails, Polled, Unconfirmed
<1>3. /\ pending \in Seq(DOMAIN listed) /\ next \in Seq(DOMAIN listed) /\ DOMAIN listed \subseteq Nat
      /\ completed \subseteq DOMAIN listed
  BY Counted DEF SafetyInv, Types
<1>4. /\ Range(pending) = {h} \cup Range(Tail(pending)) /\ h \in DOMAIN listed /\ h \in Nat
      /\ IsInjective(Tail(pending)) /\ h \notin Range(Tail(pending))
  BY <1>1, <1>3, HeadLeaves DEF SummaryInv, SplitInv
<1>5. /\ completed \subseteq completed' /\ completed' \subseteq DOMAIN listed
      /\ Cardinality(completed') \in Nat /\ Cardinality(completed) \in Nat /\ Len(listed) \in Nat
  <2>1. completed \subseteq completed' /\ completed' \subseteq DOMAIN listed
    BY <1>2, <1>3, <1>4
  <2> QED BY <2>1, Counted
<1>6. /\ todo' \in Event \cup {NoEvent} /\ Bounded(todo)'
      /\ todo'.phase \notin Terminal
      /\ todo'.phase = "blocked" => todo'.pod = h
      /\ todo'.phase = "blocked" <=> completed' = completed /\ next' = next
  <2>1. CASE todo' = NoEvent /\ completed' = completed /\ next' = Append(next, h)
    <3>1. next # Append(next, h)
      BY <1>3, <1>4
    <3> QED BY <1>5, <2>1, <3>1 DEF NoEvent, Bounded, Terminal
  <2>2. CASE todo' = Ev("blocked", h) /\ completed' = completed /\ next' = next
    <3>1. /\ todo' \in Event /\ todo'.phase = "blocked" /\ todo'.done = Cardinality(completed)
          /\ todo'.total = Len(listed) /\ todo'.pod = h
      BY <1>4, <2>2, EventTyped DEF Phases
    <3> QED BY <1>1, <1>5, <2>2, <3>1 DEF Bounded, Terminal
  <2>3. CASE /\ todo' = [Ev("evicted", h) EXCEPT !.done = Cardinality(completed')]
             /\ completed' = completed \cup {h} /\ next' = next
    <3>1. /\ todo' \in Event /\ todo'.phase = "evicted" /\ todo'.done = Cardinality(completed')
          /\ todo'.total = Len(listed)
      BY <1>4, <1>5, <2>3 DEF Phases, Ev, Event
    <3>2. completed' # completed
      BY <1>4, <2>3 DEF SummaryInv, SplitInv, Waiting
    <3> QED BY <1>1, <1>5, <3>1, <3>2 DEF Bounded, Terminal
  <2> QED BY <1>2, <2>1, <2>2, <2>3
<1>7. Stuck' = Stuck \cup IF completed' = completed /\ next' = next THEN {h} ELSE {}
  BY <1>1, <1>6, StuckGrows DEF NoEvent
<1>8. /\ Range(Append(next, h)) = Range(next) \cup {h}
      /\ IsInjective(next) /\ h \notin Range(next) => IsInjective(Append(next, h))
  BY <1>3, <1>4, JoinsAtEnd
<1>9. SplitInv'
  <2>1. h \notin Range(next) \cup completed \cup Stuck
    BY <1>4 DEF SummaryInv, SplitInv, Waiting
  <2>2. IsInjective(pending') /\ IsInjective(next')
    BY <1>1, <1>2, <1>4, <1>8, <2>1 DEF SummaryInv, SplitInv
  <2>3. Range(pending') = Range(pending) \ {h}
    BY <1>1, <1>4
  <2>4. \/ completed' = completed \cup {h} /\ Range(next') = Range(next) /\ Stuck' = Stuck
        \/ completed' = completed /\ Range(next') = Range(next) \cup {h} /\ Stuck' = Stuck
        \/ completed' = completed /\ Range(next') = Range(next) /\ Stuck' = Stuck \cup {h}
    <3>1. Append(next, h) # next
      BY <1>3, <1>4
    <3>2. completed \cup {h} # completed
      BY <2>1
    <3> QED BY <1>2, <1>7, <1>8, <3>1, <3>2
  <2>5. h \in Range(pending)
    BY <1>4
  <2>6. /\ Range(pending') \cap Range(next') = {} /\ completed' \cap Waiting' = {}
        /\ Stuck' \cap (completed' \cup Waiting') = {}
    BY <2>1, <2>3, <2>4 DEF SummaryInv, SplitInv, Waiting
  <2>7. Stuck' \cup completed' \cup Waiting' = Stuck \cup completed \cup Waiting /\ Turned' = Turned
    BY <1>1, <2>3, <2>4, <2>5 DEF Waiting, Turned
  <2> QED BY <1>1, <2>2, <2>6, <2>7 DEF SummaryInv, SplitInv
<1>10. ChannelInv' /\ NodeInv'
  BY <1>1, <1>5, <1>6, ReportKeeps DEF SummaryInv, Working
<1> QED BY <1>9, <1>10 DEF SummaryInv

LEMMA PollKeepsSummary == ASSUME SafetyInv, SummaryInv, Poll PROVE SummaryInv'
<1> USE DEF node, At
<1>0. /\ dpc \in {"poll", "wait"} => index = Len(listed) + 1 /\ Covered
      /\ dpc = "wait" => pending = <<>>
      /\ attempt \in Nat
  BY DEF SummaryInv, SplitInv, NodeInv, Early
<1>1. CASE PollCancelled
  BY <1>1, FinishKeeps DEF PollCancelled, Working, Terminal
<1>2. CASE PassEnds
  <2>1. CASE next = <<>>
    <3>1. Settled
      BY <1>0, <1>2, <2>1 DEF PassEnds, Settled
    <3> QED BY <1>2, <2>1, <3>1, FinishKeeps DEF PassEnds, Working, Terminal
  <2>2. CASE next # <<>>
    BY <1>0, <1>2, <2>2, MovesOnKeeps DEF PassEnds, Working, forwarder, locals
  <2> QED BY <2>1, <2>2
<1>3. CASE Tick
  BY <1>0, <1>3, MovesOnKeeps DEF Tick, Working, forwarder
<1> QED BY <1>1, <1>2, <1>3, PollingKeeps DEF Poll

\* An event enters the channel, or is given up because the drain was cancelled;
\* the terminal one is never given up.
LEMMA SendKeeps == ASSUME SafetyInv, SummaryInv, Send PROVE SummaryInv'
<1>1. /\ todo # NoEvent /\ todo' = NoEvent
      /\ dpc' = IF todo.phase \in Terminal THEN "done" ELSE dpc
      /\ UNCHANGED <<uid, exists, here, kind, cordoned, cancelled, listed, index, attempt, pending,
                     next, completed, final, summarised>>
      /\ out' = Append(out, todo) \/ (cancelled /\ todo.phase \notin Terminal /\ out' = out)
  BY DEF Send, Blocking, node, locals, forwarder
<1>2. /\ todo \in Event /\ out \in Seq(Event) /\ dpc \notin Early \cup {"preflight", "done"}
      /\ (todo.phase \in Terminal <=> dpc = "ending")
  BY <1>1 DEF SummaryInv, ChannelInv
<1>3. BlockedIn(<<todo>>)' = {}
  BY <1>1, BlockedByOne DEF NoEvent
<1>4. Stuck' \subseteq Stuck /\ (~cancelled => Stuck' = Stuck)
  <2>1. CASE out' = Append(out, todo)
    <3>1. BlockedIn(out') = BlockedIn(out) \cup BlockedIn(<<todo>>)
      BY <1>2, <2>1, BlockedByMore
    <3> QED BY <1>1, <1>3, <3>1 DEF Stuck
  <2>2. CASE cancelled /\ out' = out
    BY <1>1, <1>3, <2>2 DEF Stuck
  <2> QED BY <1>1, <2>1, <2>2
<1>5. /\ dpc' \notin {"poll", "wait", "ending", "done"} => dpc \notin {"poll", "wait", "ending", "done"}
      /\ dpc' \in {"poll", "wait"} => dpc' = dpc
  BY <1>1, <1>2
<1>6. Waiting' = Waiting /\ Turned' = Turned
  BY <1>1 DEF Waiting, Turned
<1>7. SplitInv'
  BY <1>1, <1>4, <1>5, <1>6 DEF SummaryInv, SplitInv
<1>8. (Covered => Covered') /\ (Settled => Settled')
  BY <1>1 DEF Covered, Matches, Settled
<1>9. NodeInv'
  BY <1>1, <1>2, <1>8 DEF SummaryInv, NodeInv, Early
<1>10. /\ Bounded(todo) /\ \A j \in DOMAIN out : Bounded(out[j]) /\ out[j].phase \notin Terminal
       /\ Bounded(final)
  BY <1>1, <1>2 DEF SummaryInv, ChannelInv
<1>11. Bounded(todo)' /\ Bounded(final)'
  BY <1>1, <1>10, Counted DEF Bounded, NoEvent
<1>12. /\ out' \in Seq(Event)
       /\ \A j \in DOMAIN out' : Bounded(out'[j])
       /\ \A j \in DOMAIN out' : out'[j].phase \in Terminal =>
            todo.phase \in Terminal /\ j = Len(out')
  <2>1. CASE out' = Append(out, todo)
    <3>1. /\ Len(out) \in Nat /\ DOMAIN out = 1..Len(out) /\ Len(out') = Len(out) + 1
          /\ DOMAIN out' = 1..(Len(out) + 1) /\ \A j \in 1..Len(out) : out'[j] = out[j]
          /\ out'[Len(out) + 1] = todo /\ out' \in Seq(Event)
      BY <1>2, <2>1
    <3> QED BY <1>10, <3>1
  <2>2. CASE out' = out
    BY <1>2, <1>10, <2>2
  <2> QED BY <1>1, <2>1, <2>2
<1>13. \A j \in DOMAIN out' : Bounded(out[j])'
  BY <1>1, <1>12 DEF Bounded
<1>14. dpc' = "done" =>
         /\ out' # <<>> /\ todo.phase \in Terminal /\ IsLast(todo, Len(out)) /\ out' = Append(out, todo)
         /\ out'[Len(out')] = todo /\ Len(out') - 1 = Len(out)
  BY <1>1, <1>2 DEF SummaryInv, ChannelInv
<1>15. IsLast(todo, Len(out)) /\ dpc' = "done" => IsLast(out[Len(out)], Len(out) - 1)'
  <2> SUFFICES ASSUME IsLast(todo, Len(out)), dpc' = "done"
               PROVE  IsLast(out[Len(out)], Len(out) - 1)'
    OBVIOUS
  <2>1. Counts(todo) => Counts(out[Len(out)])'
    BY <1>1, <1>14 DEF Counts
  <2> QED BY <1>1, <1>8, <1>14, <2>1 DEF IsLast
<1>16. ~final.err /\ ~summarised
  BY <1>2 DEF SummaryInv, ChannelInv
<1>17. /\ todo'.phase \notin Terminal /\ dpc' # "ending" /\ dpc' \notin Early \cup {"preflight"}
  BY <1>1, <1>2 DEF Terminal, NoEvent, Early
<1>18. ChannelInv'
  BY <1>1, <1>2, <1>11, <1>12, <1>13, <1>14, <1>15, <1>16, <1>17 DEF SummaryInv, ChannelInv
<1> QED BY <1>7, <1>9, <1>18 DEF SummaryInv

\* The forwarder takes the first event: its counts are the larger ones so far.
LEMMA ReceiveKeeps == ASSUME SafetyInv, SummaryInv, Receive PROVE SummaryInv'
<1> DEFINE ev == Head(out)
<1>1. /\ out # <<>> /\ out' = Tail(out)
      /\ UNCHANGED <<uid, exists, here, kind, cordoned, cancelled, dpc, listed, index, attempt,
                     pending, next, completed, todo, summarised>>
      /\ final' = [done |-> Max({final.done, ev.done}), total |-> Max({final.total, ev.total}),
                   err |-> final.err \/ ev.phase = "error",
                   blocked |-> IF ev.phase = "blocked" THEN final.blocked \cup {ev.pod}
                               ELSE final.blocked,
                   remaining |-> IF ev.phase \in Terminal THEN ev.remaining ELSE final.remaining]
  BY DEF Receive, node, drain, locals
<1>2. /\ out \in Seq(Event) /\ Len(out) \in Nat \ {0} /\ DOMAIN out = 1..Len(out) /\ ev = out[1]
      /\ 1 \in DOMAIN out /\ ev \in Event
      /\ DOMAIN out' = 1..(Len(out) - 1) /\ Len(out') = Len(out) - 1 /\ out' \in Seq(Event)
      /\ \A j \in 1..(Len(out) - 1) : out'[j] = out[j + 1]
      /\ out' = <<>> <=> Len(out) = 1
  <2>1. out \in Seq(Event)
    BY DEF SummaryInv, ChannelInv
  <2>2. Len(out) \in Nat \ {0} /\ DOMAIN out = 1..Len(out) /\ ev = out[1] /\ 1 \in DOMAIN out
    BY <1>1, <2>1
  <2>3. ev \in Event /\ out' \in Seq(Event)
    BY <1>1, <2>1
  <2>4. /\ DOMAIN out' = 1..(Len(out) - 1) /\ Len(out') = Len(out) - 1
        /\ \A j \in 1..(Len(out) - 1) : out'[j] = out[j + 1]
    BY <1>1, <2>1
  <2>5. out' = <<>> <=> Len(out) = 1
    BY <2>2, <2>3, <2>4
  <2> QED BY <2>1, <2>2, <2>3, <2>4, <2>5
<1>3. /\ ev.done \in Nat /\ ev.total \in Nat /\ final.done \in Nat /\ final.total \in Nat
      /\ ev.pod \in Nat /\ ev.remaining \in SUBSET Nat /\ final.blocked \in SUBSET Nat
      /\ final.remaining \in SUBSET Nat /\ ~final.err
  <2>1. /\ final \in [done : Nat, total : Nat, err : BOOLEAN, blocked : SUBSET Nat,
                     remaining : SUBSET Nat] /\ ~final.err
    BY <1>1 DEF SummaryInv, ChannelInv
  <2> QED BY <1>2, <2>1 DEF Event
<1>4. /\ final'.done = IF final.done >= ev.done THEN final.done ELSE ev.done
      /\ final'.total = IF final.total >= ev.total THEN final.total ELSE ev.total
      /\ final'.err = (ev.phase = "error")
      /\ final'.blocked = IF ev.phase = "blocked" THEN final.blocked \cup {ev.pod} ELSE final.blocked
      /\ final'.remaining = IF ev.phase \in Terminal THEN ev.remaining ELSE final.remaining
  BY <1>1, <1>3, LargerOfTwo
<1>5. final' \in [done : Nat, total : Nat, err : BOOLEAN, blocked : SUBSET Nat,
                  remaining : SUBSET Nat]
  <2>1. /\ Max({final.done, ev.done}) \in Nat /\ Max({final.total, ev.total}) \in Nat
    BY <1>3, LargerOfTwo
  <2> QED BY <1>1, <1>3, <2>1
<1>6. Stuck' = Stuck
  <2>1. BlockedIn(out) = BlockedIn(<<ev>>) \cup BlockedIn(out')
    BY <1>1, <1>2, BlockedByFirst
  <2>2. BlockedIn(<<ev>>) = IF ev.phase = "blocked" THEN {ev.pod} ELSE {}
    BY BlockedByOne
  <2>3. BlockedIn(<<todo>>)' = BlockedIn(<<todo>>)
    BY <1>1 DEF BlockedIn
  <2> QED BY <1>4, <2>1, <2>2, <2>3 DEF Stuck
<1>7. SplitInv'
  BY <1>1, <1>6 DEF SummaryInv, SplitInv, Waiting, Turned
<1>8. (Covered => Covered') /\ (Settled => Settled')
  BY <1>1 DEF Covered, Matches, Settled
<1>9. NodeInv'
  BY <1>1, <1>8 DEF SummaryInv, NodeInv
<1>10. /\ Bounded(todo) /\ Bounded(final) /\ \A j \in DOMAIN out : Bounded(out[j])
       /\ dpc \notin Early \cup {"preflight"} /\ ~summarised
       /\ \A j \in DOMAIN out : out[j].phase \in Terminal => dpc = "done" /\ j = Len(out)
  BY <1>1 DEF SummaryInv, ChannelInv
<1>11. Bounded(ev)
  BY <1>2, <1>10
<1>12. Bounded(final)' /\ Bounded(todo)'
  <2>1. /\ final'.done <= Cardinality(completed) /\ final'.total \in {0, Len(listed)}
    BY <1>3, <1>4, <1>10, <1>11, Counted DEF Bounded
  <2> QED BY <1>1, <1>10, <2>1 DEF Bounded
<1>13. \A j \in DOMAIN out' : Bounded(out[j])' /\ out'[j] = out[j + 1] /\ j + 1 \in DOMAIN out
  <2>1. \A j \in DOMAIN out' : out'[j] = out[j + 1] /\ j + 1 \in DOMAIN out
    BY <1>2
  <2> QED BY <1>1, <1>10, <2>1 DEF Bounded
<1>14. \A j \in DOMAIN out' : out'[j].phase \in Terminal => dpc' = "done" /\ j = Len(out')
  BY <1>1, <1>2, <1>10, <1>13
<1>15. ev.phase \in Terminal => dpc = "done" /\ Len(out) = 1
  BY <1>2, <1>10
<1>16. \A e : Counts(e) => Counts(e)'
  BY <1>1 DEF Counts
<1>17. CASE Len(out) = 1
  <2>1. dpc = "done" => IsLast(ev, 0)
    <3>1. dpc = "done" => IsLast(out[Len(out)], Len(out) - 1)
      BY <1>1 DEF SummaryInv, ChannelInv
    <3> QED BY <1>2, <1>17, <3>1
  <2>2. ASSUME dpc = "done"
        PROVE  (final'.err /\ final'.total = 0) \/ (Counts(final)' /\ (~final'.err => Settled'))
    <3>1. CASE ev.phase = "error" /\ ev.total = 0 /\ ev.done = 0 /\ final.total = 0
      BY <1>4, <3>1
    <3>2. CASE ev.phase \in Terminal /\ Counts(ev) /\ (ev.phase = "done" => Settled)
      <4>1. final.done <= ev.done /\ final.total <= ev.total
        <5>1. /\ ev.done = Cardinality(completed) /\ ev.total = Len(listed)
              /\ final.done <= Cardinality(completed) /\ final.total \in {0, Len(listed)}
          BY <1>10, <3>2 DEF Bounded, Counts
        <5> QED BY <1>3, <5>1, Counted
      <4>2. final'.done = ev.done /\ final'.total = ev.total /\ final'.remaining = ev.remaining
        BY <1>3, <1>4, <3>2, <4>1
      <4>3. Counts(final)'
        BY <1>1, <3>2, <4>2 DEF Counts
      <4> QED BY <1>4, <1>8, <3>2, <4>3 DEF Terminal
    <3> QED BY <2>1, <2>2, <3>1, <3>2 DEF IsLast
  <2>3. dpc # "done" => ~final'.err
    BY <1>4, <1>15 DEF Terminal
  <2>4. dpc = "ending" => IsLast(todo, 1)
    BY <1>17 DEF SummaryInv, ChannelInv
  <2>5. dpc = "ending" => IsLast(todo, Len(out))'
    BY <1>1, <1>8, <1>16, <2>4 DEF IsLast, Counts
  <2>6. out' = <<>>
    BY <1>2, <1>17
  <2> QED
    BY <1>1, <1>2, <1>5, <1>7, <1>9, <1>10, <1>12, <1>13, <1>14, <2>2, <2>3, <2>5, <2>6
       DEF SummaryInv, ChannelInv
<1>18. CASE Len(out) # 1
  <2>1. ev.phase \notin Terminal /\ out' # <<>> /\ ~final'.err
    BY <1>2, <1>4, <1>15, <1>18 DEF Terminal
  <2>2. dpc = "done" => IsLast(out[Len(out)], Len(out) - 1) /\ out[Len(out)] = out'[Len(out')]
    BY <1>1, <1>2, <1>18 DEF SummaryInv, ChannelInv
  <2>3. dpc = "ending" => IsLast(todo, Len(out))
    BY DEF SummaryInv, ChannelInv
  <2>4. ASSUME NEW e, NEW k \in {Len(out), Len(out) - 1}, IsLast(e, k)
        PROVE  e.phase \in Terminal /\ Counts(e) /\ (e.phase = "done" => Settled)
    BY <1>2, <1>18, <2>4 DEF IsLast
  <2>5. dpc = "done" => IsLast(out[Len(out)], Len(out) - 1)'
    <3> SUFFICES ASSUME dpc = "done" PROVE IsLast(out[Len(out)], Len(out) - 1)'
      OBVIOUS
    <3> DEFINE e == out[Len(out)]
    <3>1. e.phase \in Terminal /\ Counts(e) /\ (e.phase = "done" => Settled)
      BY <2>2, <2>4
    <3>2. out'[Len(out')] = e
      BY <2>2
    <3>3. Counts(out[Len(out)])'
      BY <1>1, <3>1, <3>2 DEF Counts
    <3> QED BY <1>8, <3>1, <3>2, <3>3 DEF IsLast
  <2>6. dpc = "ending" => IsLast(todo, Len(out))'
    <3> SUFFICES ASSUME dpc = "ending" PROVE IsLast(todo, Len(out))'
      OBVIOUS
    <3>1. todo.phase \in Terminal /\ Counts(todo) /\ (todo.phase = "done" => Settled)
      BY <2>3, <2>4
    <3> QED BY <1>1, <1>8, <3>1 DEF IsLast, Counts
  <2> QED
    BY <1>1, <1>2, <1>5, <1>7, <1>9, <1>10, <1>12, <1>13, <1>14, <2>1, <2>5, <2>6
       DEF SummaryInv, ChannelInv
<1> QED BY <1>17, <1>18

\* The summary is sent when the channel is closed and empty.
LEMMA SummariseKeeps == ASSUME SafetyInv, SummaryInv, Summarise PROVE SummaryInv'
<1>1. /\ dpc = "done" /\ out = <<>>
      /\ UNCHANGED <<uid, exists, here, kind, cordoned, cancelled, dpc, listed, index, attempt,
                     pending, next, completed, todo, out, final>>
  BY DEF Summarise, node, drain, locals
<1>2. SplitInv'
  BY <1>1 DEF SummaryInv, SplitInv, Waiting, Stuck, Turned, BlockedIn
<1>3. Covered' = Covered /\ Settled' = Settled
  BY <1>1 DEF Covered, Matches, Settled
<1>4. NodeInv'
  BY <1>1, <1>3 DEF SummaryInv, NodeInv
<1>5. ChannelInv'
  BY <1>1, <1>3 DEF SummaryInv, ChannelInv, Bounded, Counts, IsLast
<1> QED BY <1>2, <1>4, <1>5 DEF SummaryInv

LEMMA SummaryStep == ASSUME SafetyInv, SummaryInv, [Next]_vars PROVE SummaryInv'
  BY OutsideKeeps, PrepareKeepsSummary, EvictPodsKeepSummary, PollKeepsSummary, SendKeeps,
     ReceiveKeeps, SummariseKeeps DEF Next, Drain, Forward

\* Every candidate is waited for, counted or announced, the listed ones are all
\* that has to leave the node, and the events say so.
THEOREM SummaryInvariance == Spec => []SummaryInv
<1>1. Init => SummaryInv
  BY SummaryInit
<1>2. SafetyInv /\ SummaryInv /\ [Next]_vars => SummaryInv'
  BY SummaryStep
<1> QED BY <1>1, <1>2, Invariance, PTL DEF Spec

\* What the invariants say of a drain whose summary has been sent.
LEMMA SummaryHolds == SafetyInv /\ SummaryInv => SummaryTruthful
<1> SUFFICES ASSUME SafetyInv, SummaryInv PROVE SummaryTruthful
  OBVIOUS
<1>0. CountedGone
  BY DEF SafetyInv
<1>1. CASE ~summarised
  BY <1>0, <1>1 DEF SummaryTruthful, CompleteMeansEmpty
<1>2. CASE summarised
  <2>1. /\ dpc = "done" /\ out = <<>> /\ todo = NoEvent
        /\ (final.err /\ final.total = 0) \/ (Counts(final) /\ (~final.err => Settled))
    BY <1>2 DEF SummaryInv, ChannelInv
  <2>2. CASE final.err /\ final.total = 0
    BY <1>0, <2>2 DEF SummaryTruthful, CompleteMeansEmpty
  <2>3. CASE Counts(final) /\ (~final.err => Settled)
    <3>1. final.total = 0 => listed = <<>>
      <4>1. Len(listed) = final.total /\ listed \in Seq(Pod)
        BY <2>3 DEF Counts, SafetyInv, Types
      <4> QED BY <4>1
    <3>2. ASSUME ~final.err, ~cancelled PROVE final.remaining = final.blocked
      <4>1. pending = <<>> /\ next = <<>> /\ index = Len(listed) + 1
        BY <2>3, <3>2 DEF Settled
      <4>2. Waiting = {} /\ BlockedIn(out) = {} /\ BlockedIn(<<todo>>) = {}
        <5>1. DOMAIN pending = {} /\ DOMAIN next = {} /\ DOMAIN out = {}
          BY <2>1, <4>1
        <5>2. todo.phase # "blocked"
          BY <2>1 DEF NoEvent
        <5> QED BY <5>1, <5>2, BlockedByOne DEF Waiting, Range, BlockedIn
      <4>3. Turned = DOMAIN listed
        BY <4>1, Counted DEF Turned
      <4>4. Stuck = final.blocked
        BY <4>2 DEF Stuck
      <4>5. /\ final.blocked \cap completed = {} /\ final.blocked \cup completed \subseteq DOMAIN listed
            /\ DOMAIN listed \subseteq final.blocked \cup completed
        BY <3>2, <4>2, <4>3, <4>4 DEF SummaryInv, SplitInv
      <4>6. final.remaining = DOMAIN listed \ completed
        BY <2>3 DEF Counts
      <4> QED BY <4>5, <4>6
    <3>3. CompleteMeansEmpty
      <4> SUFFICES ASSUME ~final.err, final.remaining = {},
                          NEW n \in 1..Names, exists[n], here[n], kind[n] # "skip"
                   PROVE  FALSE
        BY DEF CompleteMeansEmpty
      <4>1. PICK i \in DOMAIN listed : Matches(listed[i])
        BY <2>3 DEF Settled, Covered
      <4>2. i \in completed
        BY <2>3 DEF Counts
      <4> QED BY <4>1, <4>2 DEF SafetyInv, CountedGone
    <3> QED BY <1>0, <2>3, <3>1, <3>2, <3>3 DEF SummaryTruthful, Counts
  <2> QED BY <2>1, <2>2, <2>3
<1> QED BY <1>1, <1>2

\* The summary adds up: what it does not count it lists as remaining, a drain not
\* cut short names each pod it leaves, and one that leaves none emptied the node.
THEOREM SummaryIsTruthful == Spec => []SummaryTruthful
  BY Invariance, SummaryInvariance, SummaryHolds, PTL
=============================================================================
