------------------------ MODULE EventDelivery_proof ------------------------
(***************************************************************************)
(* Proofs about EventDelivery, for every set of UIDs, every capacity of    *)
(* Out and every number of events.                                         *)
(***************************************************************************)
EXTENDS EventDelivery, SequenceTheorems, TLAPS

-----------------------------------------------------------------------------
(* Sequences.                                                              *)

\* What removing one element of a list leaves.
LEMMA RemoveAtFacts ==
  ASSUME NEW S, NEW s \in Seq(S), NEW i \in 1..Len(s)
  PROVE  /\ RemoveAt(s, i) \in Seq(S)
         /\ Len(RemoveAt(s, i)) = Len(s) - 1
         /\ \A j \in 1..(Len(s)-1) : RemoveAt(s, i)[j] = IF j < i THEN s[j] ELSE s[j+1]
<1> DEFINE a == SubSeq(s, 1, i-1)
           b == SubSeq(s, i+1, Len(s))
<1>1. /\ a \in Seq(S) /\ Len(a) = i - 1
      /\ \A j \in 1..(i-1) : a[j] = s[j]
  BY SubSeqProperties
<1>2. /\ b \in Seq(S) /\ Len(b) = Len(s) - i
      /\ \A j \in 1..(Len(s) - i) : b[j] = s[i+j]
  <2>1. CASE i = Len(s)
    BY <2>1, SubSeqProperties
  <2>2. CASE i < Len(s)
    BY <2>2, SubSeqProperties
  <2> QED BY <2>1, <2>2
<1>3. RemoveAt(s, i) = a \o b
  BY DEF RemoveAt
<1> HIDE DEF a, b
<1>4. /\ a \o b \in Seq(S) /\ Len(a \o b) = Len(a) + Len(b)
      /\ \A j \in 1..(Len(a) + Len(b)) :
           (a \o b)[j] = IF j <= Len(a) THEN a[j] ELSE b[j - Len(a)]
  BY <1>1, <1>2, ConcatProperties
<1>5. ASSUME NEW j \in 1..(Len(s)-1)
      PROVE  (a \o b)[j] = IF j < i THEN s[j] ELSE s[j+1]
  <2>1. CASE j < i
    BY <2>1, <1>1, <1>2, <1>4
  <2>2. CASE j >= i
    <3>1. (a \o b)[j] = b[j - (i - 1)]
      BY <2>2, <1>1, <1>2, <1>4
    <3>2. j - (i - 1) \in 1..(Len(s) - i) /\ i + (j - (i - 1)) = j + 1
      BY <2>2
    <3> QED BY <2>2, <3>1, <3>2, <1>2
  <2>3. j < i \/ j >= i
    OBVIOUS
  <2> QED BY <2>1, <2>2, <2>3
<1> QED BY <1>1, <1>2, <1>3, <1>4, <1>5

\* Removing a UID's element keeps the others and their order.
LEMMA WithoutFacts ==
  ASSUME TypeOK, QueueInv, NEW u \in UIDs, pending[u] # None
  PROVE  /\ Without(u) \in Seq(UIDs)
         /\ Len(queue) > 0 /\ Len(Without(u)) = Len(queue) - 1
         /\ \A i \in DOMAIN Without(u) : Without(u)[i] # u
         /\ \A i \in DOMAIN Without(u) : \E j \in DOMAIN queue :
              j \in {i, i + 1} /\ Without(u)[i] = queue[j]
         /\ \A j \in DOMAIN queue : queue[j] # u =>
              \E i \in DOMAIN Without(u) : Without(u)[i] = queue[j]
         /\ \A i, j \in DOMAIN Without(u) : Without(u)[i] = Without(u)[j] => i = j
         /\ \A i, j \in DOMAIN Without(u) : i < j =>
              \E k, l \in DOMAIN queue :
                k < l /\ queue[k] = Without(u)[i] /\ queue[l] = Without(u)[j]
<1> DEFINE p == CHOOSE i \in DOMAIN queue : queue[i] = u
           w == Without(u)
<1>0. queue \in Seq(UIDs) /\ Len(queue) \in Nat /\ DOMAIN queue = 1..Len(queue)
  BY DEF TypeOK
<1>1. p \in DOMAIN queue /\ queue[p] = u
  BY DEF QueueInv
<1>2. w = RemoveAt(queue, p)
  BY DEF Without
<1> HIDE DEF p, w
<1>3. /\ w \in Seq(UIDs) /\ Len(w) = Len(queue) - 1
      /\ \A j \in 1..(Len(queue) - 1) : w[j] = IF j < p THEN queue[j] ELSE queue[j+1]
  BY <1>0, <1>1, <1>2, RemoveAtFacts
<1>4. DOMAIN w = 1..(Len(queue) - 1) /\ p \in 1..Len(queue)
  BY <1>0, <1>1, <1>3
<1>5. \A i, j \in DOMAIN queue : queue[i] = queue[j] => i = j
  BY DEF QueueInv
<1>6. \A i \in DOMAIN w : w[i] # u
  BY SMTT(30), <1>0, <1>1, <1>3, <1>4, <1>5
<1>7. \A i \in DOMAIN w : \E j \in DOMAIN queue : j \in {i, i + 1} /\ w[i] = queue[j]
  BY SMTT(30), <1>0, <1>3, <1>4
<1>8. ASSUME NEW j \in DOMAIN queue, queue[j] # u
      PROVE  \E i \in DOMAIN w : w[i] = queue[j]
  <2>1. CASE j < p
    BY <2>1, <1>0, <1>3, <1>4
  <2>2. CASE j > p
    <3>1. j - 1 \in DOMAIN w /\ ~(j - 1 < p) /\ (j - 1) + 1 = j
      BY <2>2, <1>0, <1>4
    <3> QED BY <3>1, <1>3, <1>4
  <2> QED BY <1>0, <1>1, <1>4, <1>8, <2>1, <2>2
<1>9. ASSUME NEW i \in DOMAIN w, NEW j \in DOMAIN w, i < j
      PROVE  \E k, l \in DOMAIN queue : k < l /\ queue[k] = w[i] /\ queue[l] = w[j]
  <2> DEFINE k == IF i < p THEN i ELSE i + 1
             l == IF j < p THEN j ELSE j + 1
  <2>1. k \in DOMAIN queue /\ l \in DOMAIN queue /\ k < l
    BY <1>0, <1>4, <1>9
  <2>2. queue[k] = w[i] /\ queue[l] = w[j]
    BY <1>3, <1>4
  <2> QED BY <2>1, <2>2
<1>10. ASSUME NEW i \in DOMAIN w, NEW j \in DOMAIN w, w[i] = w[j]
       PROVE  i = j
  <2>1. ~(i < j) /\ ~(j < i)
    BY <1>9, <1>10, <1>5, <1>0
  <2> QED BY <2>1, <1>4
<1>11. Len(queue) > 0
  BY <1>0, <1>4
<1> QED BY <1>3, <1>6, <1>7, <1>8, <1>9, <1>10, <1>11 DEF w

-----------------------------------------------------------------------------
(* The inductive invariant.                                                *)

LEMMA InitInv == Init => IndInv
<1> SUFFICES ASSUME Init PROVE IndInv
  OBVIOUS
<1> USE DEF Init
<1>1. TypeOK
  <2>1. /\ log \in Seq([uid : UIDs, deleted : BOOLEAN])
        /\ out \in Seq(Nat) /\ Len(out) <= Cap /\ queue \in Seq(UIDs)
    BY CapAssumption, EmptySeq
  <2>2. pending \in [UIDs -> Element \cup {None}]
    OBVIOUS
  <2>3. ev \in [uid : UIDs, at : Nat, version : Nat] \cup {NoEv}
    OBVIOUS
  <2> QED BY <2>1, <2>2, <2>3 DEF TypeOK
<1>2. SourceInv /\ QueueInv /\ FlightInv
  BY DEF SourceInv, QueueInv, FlightInv
<1>3. KnownInv
  BY DEF KnownInv, KnownOf, Announced, Absent
<1> QED BY <1>1, <1>2, <1>3 DEF IndInv

\* Steps of run that take and give nothing: to sleep, to wake, to leave, and
\* the consumer's and the canceller's steps.
LEMMA QuietKeepsInv ==
  ASSUME IndInv, Idle \/ Wake \/ Quit \/ Cancel
  PROVE  IndInv'
<1> USE DEF IndInv, Idle, Wake, Quit, Cancel, publisher, delivery, runner
<1>1. TypeOK'
  BY DEF TypeOK
<1>2. SourceInv' /\ QueueInv'
  BY DEF SourceInv, QueueInv
<1>3. FlightInv'
  <2>1. CASE Idle
    BY <2>1 DEF FlightInv
  <2>2. CASE Wake
    BY <2>2 DEF FlightInv
  <2>3. CASE Quit
    BY <2>3 DEF FlightInv
  <2>4. CASE Cancel
    BY <2>4 DEF FlightInv, Absent
  <2> QED BY <2>1, <2>2, <2>3, <2>4
<1>4. KnownInv'
  BY DEF KnownInv, KnownOf, Announced, Absent, Recording
<1> QED BY <1>1, <1>2, <1>3, <1>4

LEMMA ReceiveKeepsInv ==
  ASSUME IndInv, Receive
  PROVE  IndInv'
<1> USE DEF IndInv, Receive, publisher, delivery, runner
<1>1. TypeOK'
  <2>1. /\ Head(out) \in Nat /\ Tail(out) \in Seq(Nat)
        /\ Len(Tail(out)) = Len(out) - 1 /\ Len(out) <= Cap /\ Len(out) \in Nat
    BY SMTT(30), HeadTailProperties DEF TypeOK
  <2>2. out' \in Seq(Nat) /\ Len(out') <= Cap
    BY <2>1, CapAssumption
  <2> QED BY <2>1, <2>2 DEF TypeOK
<1>2. SourceInv' /\ QueueInv'
  BY DEF SourceInv, QueueInv
<1>3. FlightInv'
  BY DEF FlightInv, Absent
<1>4. KnownInv'
  BY DEF KnownInv, KnownOf, Announced, Absent, Recording
<1> QED BY <1>1, <1>2, <1>3, <1>4

LEMMA TakeKeepsInv ==
  ASSUME IndInv, Take
  PROVE  IndInv'
<1> USE DEF IndInv, Take, publisher, delivery, runner
<1> DEFINE u == queue[1]
<1>1. Head(queue) = u /\ u \in UIDs /\ 1 \in DOMAIN queue /\ queue # <<>>
  BY DEF TypeOK
<1>2. pending[u] # None /\ pending[u] \in Element
  BY <1>1 DEF QueueInv, TypeOK
<1>3. TypeOK'
  BY <1>1, <1>2 DEF TypeOK, Element
<1>4. SourceInv' /\ QueueInv'
  BY DEF SourceInv, QueueInv
<1>5. ~closed /\ inFlight = None
  BY DEF FlightInv
<1>6. /\ latest[u] \in 1..Len(log) /\ log[latest[u]].uid = u
      /\ pending[u].at = latest[u]
  <2>1. pending[u].at = latest[u] /\ latest[u] # 0
    BY <1>1, <1>2 DEF QueueInv
  <2>2. latest[u] \in Nat /\ Len(log) \in Nat
    BY <1>1 DEF TypeOK
  <2> QED BY <1>1, <2>1, <2>2 DEF SourceInv
<1>7. sent[u] < latest[u] /\ (log[latest[u]].deleted => ~Absent(sent[u]))
  BY <1>1, <1>2, <1>5, <1>6, NoneAssumption DEF KnownInv, KnownOf, Recording, Absent
<1>8. FlightInv'
  BY <1>1, <1>2, <1>5, <1>6, <1>7 DEF FlightInv, TypeOK, Absent
<1>9. KnownInv'
  BY <1>5, NoneAssumption DEF KnownInv, KnownOf, Announced, Absent, Recording
<1> QED BY <1>3, <1>4, <1>8, <1>9

LEMMA CloseKeepsInv ==
  ASSUME IndInv, Close
  PROVE  IndInv'
<1> USE DEF IndInv, Close, publisher
<1>1. TypeOK'
  BY EmptySeq DEF TypeOK
<1>2. SourceInv' /\ QueueInv'
  BY EmptySeq DEF SourceInv, QueueInv
<1>3. FlightInv' /\ KnownInv'
  BY DEF FlightInv, KnownInv
<1> QED BY <1>1, <1>2, <1>3

\* The facts about the element being sent that both of run's steps need.
LEMMA InFlightFacts ==
  ASSUME IndInv, rpc \in {"send", "record"}
  PROVE  /\ ev.uid \in UIDs /\ ev.at \in Nat /\ ev.version \in Nat
         /\ ~closed /\ inFlight = ev.uid
         /\ pending[ev.uid] # None /\ pending[ev.uid] \in Element
         /\ pending[ev.uid].at = latest[ev.uid]
         /\ ev.at <= latest[ev.uid]
<1> USE DEF IndInv
<1>1. ev.uid \in UIDs /\ ~closed /\ inFlight = ev.uid /\ queue # <<>> /\ queue[1] = ev.uid
  BY DEF FlightInv
<1>2. 1 \in DOMAIN queue
  BY <1>1 DEF TypeOK
<1>3. pending[ev.uid] # None /\ pending[ev.uid] \in Element
  BY <1>1, <1>2 DEF QueueInv, TypeOK
<1>4. ev.at \in Nat /\ ev.version \in Nat
  BY <1>1, NoneAssumption DEF TypeOK, NoEv
<1>5. pending[ev.uid].at = latest[ev.uid]
  BY <1>1, <1>3 DEF QueueInv
<1>6. latest[ev.uid] \in Nat
  BY <1>1 DEF TypeOK
<1>7. ev.at <= latest[ev.uid]
  BY <1>4, <1>5, <1>6 DEF FlightInv
<1> QED BY <1>1, <1>3, <1>4, <1>5, <1>7

LEMMA SendKeepsInv ==
  ASSUME IndInv, Send
  PROVE  IndInv'
<1> USE DEF IndInv, Send, SendOut, publisher, delivery
<1>1. /\ ev.uid \in UIDs /\ ev.at \in Nat /\ ~closed /\ pending[ev.uid] # None
      /\ ev.at <= latest[ev.uid]
  BY InFlightFacts
<1>2. TypeOK'
  <2>1. out' \in Seq(Nat) /\ Len(out') <= Cap
    BY <1>1, AppendProperties, CapAssumption DEF TypeOK
  <2>2. sent' \in [UIDs -> Nat] /\ passed' \in [UIDs -> SUBSET UIDs]
    BY <1>1 DEF TypeOK
  <2> QED BY <2>1, <2>2 DEF TypeOK
<1>3. \A u \in UIDs : sent'[u] = IF u = ev.uid THEN ev.at ELSE sent[u]
  BY <1>1 DEF TypeOK
<1>4. SourceInv' /\ QueueInv'
  BY <1>1, <1>3 DEF SourceInv, QueueInv
<1>5. FlightInv'
  BY <1>1, <1>3 DEF FlightInv
<1>6. KnownInv'
  BY <1>1, <1>3 DEF KnownInv, KnownOf, Announced, Absent, Recording
<1> QED BY <1>2, <1>4, <1>5, <1>6

LEMMA DeliveredKeepsInv ==
  ASSUME IndInv, Delivered
  PROVE  IndInv'
<1> USE DEF IndInv
<1>u. PICK u \in UIDs : u = ev.uid
  BY InFlightFacts DEF Delivered
<1>0. /\ rpc = "record" /\ inFlight' = None /\ rpc' = "check" /\ ev' = NoEv
      /\ UNCHANGED <<log, latest, out, wake, closed, cancelled, view, sent, passed>>
  BY DEF Delivered, publisher
<1>1. /\ u \in UIDs /\ ev.at \in Nat /\ ~closed /\ pending[u] # None
      /\ pending[u] \in Element /\ pending[u].at = latest[u] /\ sent[u] = ev.at
      /\ ev.version \in Nat /\ inFlight = u
  BY <1>u, <1>0, InFlightFacts DEF FlightInv
<1>2. /\ known' \subseteq UIDs
      /\ \A v \in UIDs : v # u => (v \in known' <=> v \in known)
      /\ u \in known' <=> ~log[ev.at].deleted
  BY <1>u, <1>1 DEF Delivered, Record, TypeOK
<1>3. u \in known' <=> ~Absent(sent[u])
  BY <1>u, <1>0, <1>1, <1>2 DEF FlightInv, Absent
<1>4. \A v \in UIDs \ {u} : v \in known' <=> ~Absent(sent[v])
  BY <1>u, <1>1, <1>2 DEF KnownInv, KnownOf, Recording
<1>5. CASE Settled(u)
  <2>1. queue' = Without(u) /\ pending' = [pending EXCEPT ![u] = None]
    BY <1>u, <1>5 DEF Delivered, Settle, RemoveElement
  <2>2. \A v \in UIDs : pending'[v] = IF v = u THEN None ELSE pending[v]
    BY <1>1, <2>1 DEF TypeOK
  <2>3. TypeOK'
    BY <1>0, <1>1, <1>2, <2>1, WithoutFacts DEF TypeOK
  <2>4. SourceInv'
    BY <1>0 DEF SourceInv
  <2>5. QueueInv'
    BY <1>0, <1>1, <2>1, <2>2, WithoutFacts DEF QueueInv
  <2>6. FlightInv'
    BY <1>0, <1>1 DEF FlightInv
  <2>7. Announced(u)'
    <3>1. CASE pending[u].version = ev.version
      BY <3>1, <1>u, <1>0, <1>1 DEF FlightInv, Announced
    <3>2. CASE log[pending[u].at].deleted /\ u \notin known'
      BY <3>2, <1>0, <1>1, <1>3 DEF Announced, Absent
    <3> QED BY <1>5, <3>1, <3>2 DEF Settled
  <2>8. KnownInv'
    <3> SUFFICES ASSUME NEW v \in UIDs
                 PROVE  /\ v \in known' <=> ~Absent(sent[v])'
                        /\ pending'[v] # None =>
                             /\ v \in known' \/ ~Absent(latest[v])' \/ inFlight' = v
                             /\ sent'[v] < pending'[v].at
                        /\ pending'[v] = None => Announced(v)'
      BY <1>0 DEF KnownInv, KnownOf, Recording
    <3>1. CASE v = u
      BY <3>1, <1>0, <1>1, <1>3, <2>2, <2>7 DEF Absent
    <3>2. CASE v # u
      BY <3>2, <1>u, <1>0, <1>1, <1>2, <1>4, <2>2
         DEF KnownInv, KnownOf, Announced, Absent, Recording
    <3> QED BY <3>1, <3>2
  <2> QED BY <2>3, <2>4, <2>5, <2>6, <2>8
<1>6. CASE ~Settled(u)
  <2>1. queue' = Append(Without(u), u) /\ pending' = pending
    BY <1>u, <1>6 DEF Delivered, Settle
  <2>2. /\ Without(u) \in Seq(UIDs) /\ queue' \in Seq(UIDs)
        /\ Len(queue') = Len(Without(u)) + 1
        /\ \A i \in 1..Len(Without(u)) : queue'[i] = Without(u)[i]
        /\ queue'[Len(Without(u)) + 1] = u
    BY <1>1, <2>1, WithoutFacts, AppendProperties
  <2>3. TypeOK'
    BY <1>0, <1>2, <2>1, <2>2 DEF TypeOK
  <2>4. SourceInv'
    BY <1>0 DEF SourceInv
  <2>5. QueueInv'
    <3> DEFINE w == Without(u)
    <3>1. /\ \A i \in 1..Len(w) : w[i] # u
          /\ \A i, j \in 1..Len(w) : w[i] = w[j] => i = j
          /\ \A i \in 1..Len(w) : \E j \in DOMAIN queue : w[i] = queue[j]
          /\ \A j \in DOMAIN queue : queue[j] # u => \E i \in 1..Len(w) : w[i] = queue[j]
          /\ Len(w) \in Nat
      BY SMTT(30), <1>1, <2>2, WithoutFacts
    <3> HIDE DEF w
    <3>2. /\ DOMAIN queue' = 1..(Len(w) + 1)
          /\ \A i \in 1..Len(w) : queue'[i] = w[i]
          /\ queue'[Len(w) + 1] = u
      BY <2>2 DEF w
    <3>3. \A i, j \in DOMAIN queue' : queue'[i] = queue'[j] => i = j
      BY <3>1, <3>2
    <3>4. ASSUME NEW v \in UIDs
          PROVE  pending'[v] # None <=> \E i \in DOMAIN queue' : queue'[i] = v
      <4>1. CASE v = u
        BY <4>1, <1>1, <2>1, <3>1, <3>2
      <4>2. CASE v # u
        <5>1. pending[v] # None <=> \E j \in DOMAIN queue : queue[j] = v
          BY DEF QueueInv
        <5>2. (\E j \in DOMAIN queue : queue[j] = v) <=> \E i \in 1..Len(w) : w[i] = v
          BY <4>2, <3>1
        <5>3. (\E i \in 1..Len(w) : w[i] = v) <=> \E i \in DOMAIN queue' : queue'[i] = v
          BY <4>2, <3>1, <3>2
        <5> QED BY <2>1, <5>1, <5>2, <5>3
      <4> QED BY <4>1, <4>2
    <3> QED BY <1>0, <2>1, <3>3, <3>4 DEF QueueInv
  <2>6. FlightInv'
    BY <1>0, <1>1 DEF FlightInv
  <2>7. /\ sent[u] < pending[u].at
        /\ u \in known' \/ ~Absent(latest[u])
    BY <1>u, <1>0, <1>1, <1>6 DEF FlightInv, Settled, Absent
  <2>8. KnownInv'
    <3> SUFFICES ASSUME NEW v \in UIDs
                 PROVE  /\ v \in known' <=> ~Absent(sent[v])'
                        /\ pending'[v] # None =>
                             /\ v \in known' \/ ~Absent(latest[v])' \/ inFlight' = v
                             /\ sent'[v] < pending'[v].at
                        /\ pending'[v] = None => Announced(v)'
      BY <1>0 DEF KnownInv, KnownOf, Recording
    <3>1. CASE v = u
      BY <3>1, <1>0, <1>1, <1>3, <2>1, <2>7 DEF Absent
    <3>2. CASE v # u
      BY <3>2, <1>u, <1>0, <1>1, <1>2, <1>4, <2>1
         DEF KnownInv, KnownOf, Announced, Absent, Recording
    <3> QED BY <3>1, <3>2
  <2> QED BY <2>3, <2>4, <2>5, <2>6, <2>8
<1> QED BY <1>5, <1>6

\* What a new event of the informer changes in the source, and what it keeps.
LEMMA ChangeFacts ==
  ASSUME TypeOK, SourceInv, NEW u \in UIDs, NEW deleted \in BOOLEAN, Change(u, deleted)
  PROVE  /\ log' \in Seq([uid : UIDs, deleted : BOOLEAN])
         /\ Len(log) \in Nat /\ Len(log') = Len(log) + 1
         /\ \A i \in 1..Len(log) : log'[i] = log[i]
         /\ log'[Len(log) + 1] = [uid |-> u, deleted |-> deleted]
         /\ latest' \in [UIDs -> Nat]
         /\ \A v \in UIDs : latest'[v] = IF v = u THEN Len(log) + 1 ELSE latest[v]
         /\ \A v \in UIDs : latest[v] \in 0..Len(log) /\ sent[v] \in 0..Len(log)
         /\ \A v \in UIDs : latest'[v] # 0 => log'[latest'[v]].uid = v
         /\ deleted => ~Absent(latest[u])
<1> USE DEF Change
<1>1. [uid |-> u, deleted |-> deleted] \in [uid : UIDs, deleted : BOOLEAN]
  OBVIOUS
<1>2. /\ log' \in Seq([uid : UIDs, deleted : BOOLEAN])
      /\ Len(log) \in Nat /\ Len(log') = Len(log) + 1
      /\ \A i \in 1..Len(log) : log'[i] = log[i]
      /\ log'[Len(log) + 1] = [uid |-> u, deleted |-> deleted]
  BY <1>1, AppendProperties DEF TypeOK
<1>3. /\ latest' \in [UIDs -> Nat]
      /\ \A v \in UIDs : latest'[v] = IF v = u THEN Len(log) + 1 ELSE latest[v]
  BY <1>2 DEF TypeOK
<1>4. \A v \in UIDs : latest[v] \in 0..Len(log) /\ sent[v] \in 0..Len(log)
  BY <1>2 DEF TypeOK, SourceInv
<1>5. ASSUME NEW v \in UIDs, latest'[v] # 0
      PROVE  log'[latest'[v]].uid = v
  <2>1. CASE v = u
    BY <2>1, <1>2, <1>3
  <2>2. CASE v # u
    BY <2>2, <1>2, <1>3, <1>4, <1>5 DEF SourceInv
  <2> QED BY <2>1, <2>2
<1> QED BY <1>2, <1>3, <1>4, <1>5

LEMMA PublishKeepsSource ==
  ASSUME TypeOK, SourceInv, NEW u \in UIDs, NEW deleted \in BOOLEAN, Change(u, deleted),
         \A v \in UIDs : sent'[v] = sent[v] \/ (v = u /\ sent'[v] = Len(log) + 1)
  PROVE  SourceInv'
<1> SUFFICES ASSUME NEW v \in UIDs
             PROVE  /\ latest'[v] <= Len(log')
                    /\ latest'[v] # 0 => log'[latest'[v]].uid = v
                    /\ sent'[v] <= latest'[v]
  BY DEF SourceInv
<1>1. latest[v] \in 0..Len(log) /\ sent[v] \in 0..Len(log) /\ sent[v] <= latest[v]
  BY ChangeFacts DEF SourceInv
<1>2. latest'[v] = IF v = u THEN Len(log) + 1 ELSE latest[v]
  BY ChangeFacts
<1>3. Len(log) \in Nat /\ Len(log') = Len(log) + 1
  BY ChangeFacts
<1>4. latest'[v] # 0 => log'[latest'[v]].uid = v
  BY ChangeFacts
<1> QED BY <1>1, <1>2, <1>3, <1>4

LEMMA PublishClosedKeepsInv ==
  ASSUME IndInv, NEW u \in UIDs, NEW deleted \in BOOLEAN, Change(u, deleted),
         PublishClosed, UNCHANGED <<cancelled, runner, view>>
  PROVE  IndInv'
<1> USE DEF IndInv, PublishClosed, delivery, runner
<1>1. TypeOK'
  BY ChangeFacts DEF TypeOK
<1>2. SourceInv'
  BY PublishKeepsSource
<1>3. FlightInv' /\ KnownInv'
  BY DEF FlightInv, KnownInv
<1>4. queue = <<>> /\ DOMAIN queue = {}
  BY DEF FlightInv
<1>5. QueueInv'
  BY <1>4 DEF QueueInv
<1> QED BY <1>1, <1>2, <1>3, <1>5

\* FlightInv speaks of events already in the log, so a publication that keeps
\* the element in flight keeps it.
LEMMA PublishKeepsFlight ==
  ASSUME IndInv, NEW u \in UIDs, NEW deleted \in BOOLEAN, Change(u, deleted),
         UNCHANGED <<runner, inFlight, closed>>, ~closed,
         rpc \in {"send", "record"} =>
           /\ queue' # <<>> /\ queue'[1] = queue[1]
           /\ sent'[ev.uid] = sent[ev.uid]
           /\ \/ pending'[ev.uid] = pending[ev.uid]
              \/ pending'[ev.uid] = Replacement(ev.uid)
  PROVE  FlightInv'
<1> USE DEF IndInv, runner
<1>1. CASE rpc \notin {"send", "record"}
  BY <1>1 DEF FlightInv
<1>2. CASE rpc \in {"send", "record"}
  <2>1. /\ ev.uid \in UIDs /\ ev.at \in 1..Len(log) /\ ev.version \in Nat
        /\ pending[ev.uid] \in Element /\ pending[ev.uid].at <= Len(log)
    <3>1. ev.at \in 1..Len(log)
      BY <1>2 DEF FlightInv
    <3>2. latest[ev.uid] \in 0..Len(log)
      BY <1>2, InFlightFacts, ChangeFacts
    <3> QED BY <1>2, <3>1, <3>2, InFlightFacts
  <2>2. /\ log'[ev.at] = log[ev.at] /\ Len(log') = Len(log) + 1 /\ Len(log) \in Nat
        /\ sent[ev.uid] \in 0..Len(log)
        /\ \A i \in 1..Len(log) : log'[i] = log[i]
    BY <2>1, ChangeFacts
  <2>3. \/ ev.version = pending'[ev.uid].version /\ ev.at = pending'[ev.uid].at
        \/ ev.version < pending'[ev.uid].version /\ ev.at < pending'[ev.uid].at
    <3>1. CASE pending'[ev.uid] = pending[ev.uid]
      BY <1>2, <3>1 DEF FlightInv
    <3>2. CASE pending'[ev.uid] = Replacement(ev.uid)
      BY <1>2, <2>1, <2>2, <3>2 DEF FlightInv, Replacement, Element
    <3> QED BY <1>2, <3>1, <3>2
  <2> QED BY <1>2, <2>1, <2>2, <2>3 DEF FlightInv, Absent
<1> QED BY <1>1, <1>2

\* A publication about u leaves what is known of another UID as it was.
LEMMA PublishKeepsOthers ==
  ASSUME IndInv, NEW u \in UIDs, NEW deleted \in BOOLEAN, Change(u, deleted),
         ~closed, UNCHANGED <<runner, inFlight>>,
         NEW v \in UIDs, v # u,
         sent'[v] = sent[v], pending'[v] = pending[v], v \in known' <=> v \in known
  PROVE  KnownOf(v)'
<1> USE DEF IndInv, runner
<1>1. KnownOf(v)
  BY DEF KnownInv
<1>2. /\ latest'[v] = latest[v] /\ latest[v] \in 0..Len(log) /\ sent[v] \in 0..Len(log)
      /\ Len(log) \in Nat /\ \A i \in 1..Len(log) : log'[i] = log[i]
  BY ChangeFacts
<1>3. (Absent(sent[v]))' <=> Absent(sent[v])
  BY <1>2 DEF Absent
<1>4. (Absent(latest[v]))' <=> Absent(latest[v])
  BY <1>2 DEF Absent
<1> QED BY <1>1, <1>2, <1>3, <1>4 DEF KnownOf, Announced, Recording

LEMMA PublishDirectKeepsInv ==
  ASSUME IndInv, NEW u \in UIDs, NEW deleted \in BOOLEAN, Change(u, deleted),
         PublishDirect(u, deleted), UNCHANGED <<cancelled, runner, view>>
  PROVE  IndInv'
<1> USE DEF IndInv, PublishDirect, SendOut, Record, runner
<1>1. /\ Len(log) \in Nat /\ Len(log') = Len(log) + 1
      /\ \A v \in UIDs : sent'[v] = IF v = u THEN Len(log) + 1 ELSE sent[v]
  BY ChangeFacts DEF TypeOK
<1>2. queue = <<>> /\ DOMAIN queue = {} /\ rpc \notin {"send", "record"}
  BY DEF FastPath, FlightInv
<1>3. TypeOK'
  <2>1. out' \in Seq(Nat) /\ Len(out') <= Cap
    BY <1>1, AppendProperties, CapAssumption DEF TypeOK
  <2>2. sent' \in [UIDs -> Nat] /\ passed' \in [UIDs -> SUBSET UIDs] /\ known' \subseteq UIDs
    BY <1>1 DEF TypeOK
  <2> QED BY ZenonT(30), <2>1, <2>2, ChangeFacts DEF TypeOK
<1>4. SourceInv'
  BY <1>1, PublishKeepsSource
<1>5. QueueInv'
  BY <1>2 DEF QueueInv
<1>6. FlightInv'
  BY <1>2, PublishKeepsFlight
<1>7. KnownInv'
  <2> SUFFICES ASSUME NEW v \in UIDs PROVE KnownOf(v)'
    BY DEF KnownInv
  <2>1. CASE v = u
    <3>1. pending'[u] = None /\ ~Recording(u)'
      BY <1>2 DEF QueueInv, Recording
    <3>2. latest'[u] = Len(log) + 1 /\ sent'[u] = Len(log) + 1
          /\ log'[Len(log) + 1] = [uid |-> u, deleted |-> deleted]
      BY <1>1, ChangeFacts
    <3>3. u \in known' <=> ~deleted
      OBVIOUS
    <3>4. (Absent(sent[u]))' <=> deleted
      BY <1>1, <3>2 DEF Absent
    <3> QED BY <2>1, <3>1, <3>2, <3>3, <3>4 DEF KnownOf, Announced
  <2>2. CASE v # u
    BY <2>2, <1>1, PublishKeepsOthers
  <2> QED BY <2>1, <2>2
<1> QED BY <1>3, <1>4, <1>5, <1>6, <1>7

LEMMA CancelUnseenKeepsInv ==
  ASSUME IndInv, NEW u \in UIDs, NEW deleted \in BOOLEAN, Change(u, deleted),
         CancelUnseen(u, deleted), UNCHANGED <<cancelled, runner, view>>
  PROVE  IndInv'
<1> USE DEF IndInv, runner
<1>0. /\ ~closed /\ deleted /\ u \notin known /\ (pending[u] = None \/ inFlight # u)
      /\ UNCHANGED <<out, known, inFlight, wake, closed, sent, passed>>
  BY DEF CancelUnseen, Unseen
<1>1. \A v \in UIDs : pending'[v] = IF v = u THEN None ELSE pending[v]
  BY DEF CancelUnseen, RemoveElement, TypeOK
<1>c. /\ log' \in Seq([uid : UIDs, deleted : BOOLEAN]) /\ latest' \in [UIDs -> Nat]
      /\ Len(log) \in Nat /\ \A i \in 1..Len(log) : log'[i] = log[i]
      /\ log'[Len(log) + 1] = [uid |-> u, deleted |-> deleted]
      /\ latest'[u] = Len(log) + 1 /\ sent[u] \in 0..Len(log)
      /\ \A v \in UIDs : v # u => latest'[v] = latest[v]
  BY ChangeFacts
<1>2. SourceInv'
  BY <1>0, PublishKeepsSource
<1>3. KnownInv'
  <2> SUFFICES ASSUME NEW v \in UIDs PROVE KnownOf(v)'
    BY DEF KnownInv
  <2>1. CASE v = u
    <3>1. ~Recording(u) /\ ~Recording(u)'
      BY <1>0, InFlightFacts, NoneAssumption DEF Recording
    <3>2. Absent(sent[u])
      BY <1>0, <3>1 DEF KnownInv, KnownOf
    <3>3. (Absent(sent[u]))' /\ (Absent(latest[u]))'
      BY <1>0, <1>c, <3>2 DEF Absent
    <3> QED BY <1>0, <1>1, <2>1, <3>1, <3>3 DEF KnownOf, Announced
  <2>2. CASE v # u
    BY <2>2, <1>0, <1>1, PublishKeepsOthers
  <2> QED BY <2>1, <2>2
<1>4. CASE pending[u] = None
  <2>1. UNCHANGED <<queue, pending>>
    BY <1>4 DEF CancelUnseen
  <2>2. TypeOK'
    BY <1>0, <2>1, ChangeFacts DEF TypeOK
  <2>3. QueueInv'
    BY <1>4, <1>c, <2>1 DEF QueueInv
  <2>4. FlightInv'
    BY <1>0, <2>1, PublishKeepsFlight DEF FlightInv
  <2> QED BY <1>2, <1>3, <2>2, <2>3, <2>4
<1>5. CASE pending[u] # None
  <2>1. queue' = Without(u) /\ pending' = [pending EXCEPT ![u] = None]
    BY <1>5 DEF CancelUnseen, RemoveElement
  <2>2. TypeOK'
    <3>1. queue' \in Seq(UIDs)
      BY <1>5, <2>1, WithoutFacts
    <3>2. pending' \in [UIDs -> Element \cup {None}]
      BY <2>1 DEF TypeOK
    <3> QED BY <1>0, <1>c, <3>1, <3>2 DEF TypeOK
  <2>3. QueueInv'
    <3>1. \A v \in UIDs : pending'[v] # None =>
             pending'[v].at = latest'[v] /\ latest'[v] # 0
      BY <1>1, <1>c DEF QueueInv
    <3> QED BY <1>1, <1>5, <2>1, <3>1, WithoutFacts DEF QueueInv
  <2>4. FlightInv'
    <3>1. ASSUME rpc \in {"send", "record"}
          PROVE  /\ queue' # <<>> /\ queue'[1] = queue[1]
                 /\ pending'[ev.uid] = pending[ev.uid]
      <4>1. ev.uid \in UIDs /\ ev.uid # u /\ queue[1] = ev.uid /\ 1 \in DOMAIN queue
        BY <1>0, <1>5, <3>1, InFlightFacts DEF FlightInv, TypeOK
      <4>2. DOMAIN queue' = 1..Len(queue') /\ Len(queue') \in Nat
        BY <2>2 DEF TypeOK
      <4>3. PICK i \in DOMAIN queue' : queue'[i] = queue[1]
        BY <1>5, <2>1, <4>1, WithoutFacts
      <4>4. ~(1 < i)
        <5>1. SUFFICES ASSUME 1 < i PROVE FALSE
          OBVIOUS
        <5>2. 1 \in DOMAIN queue'
          BY <4>2, <4>3
        <5>3. PICK k, l \in DOMAIN queue :
                k < l /\ queue[k] = queue'[1] /\ queue[l] = queue'[i]
          BY <1>5, <2>1, <4>3, <5>1, <5>2, WithoutFacts
        <5>4. l = 1
          BY <4>1, <4>3, <5>3 DEF QueueInv
        <5> QED BY <5>3, <5>4 DEF TypeOK
      <4>5. i = 1
        BY <4>2, <4>3, <4>4
      <4> QED BY <1>1, <4>1, <4>2, <4>3, <4>5
    <3> QED BY <1>0, <3>1, PublishKeepsFlight
  <2> QED BY <1>2, <1>3, <2>2, <2>3, <2>4
<1> QED BY <1>4, <1>5

LEMMA EnqueueKeepsInv ==
  ASSUME IndInv, NEW u \in UIDs, NEW deleted \in BOOLEAN, Change(u, deleted),
         Enqueue(u, deleted), UNCHANGED <<cancelled, runner, view>>
  PROVE  IndInv'
<1> USE DEF IndInv, runner
<1>0. /\ ~closed /\ pending[u] = None
      /\ deleted => u \in known
      /\ queue' = Append(queue, u)
      /\ pending' = [pending EXCEPT ![u] = [at |-> Len(log) + 1, version |-> 0]]
      /\ wake' = TRUE /\ passed' = [passed EXCEPT ![u] = {}]
      /\ UNCHANGED <<out, known, inFlight, closed, sent>>
  BY DEF Enqueue, Unseen, Signal
<1>c. /\ log' \in Seq([uid : UIDs, deleted : BOOLEAN]) /\ latest' \in [UIDs -> Nat]
      /\ Len(log) \in Nat /\ Len(log') = Len(log) + 1
      /\ \A i \in 1..Len(log) : log'[i] = log[i]
      /\ log'[Len(log) + 1] = [uid |-> u, deleted |-> deleted]
      /\ latest'[u] = Len(log) + 1 /\ sent[u] \in 0..Len(log)
      /\ \A v \in UIDs : v # u => latest'[v] = latest[v]
  BY ChangeFacts
<1>1. \A v \in UIDs : pending'[v] =
        IF v = u THEN [at |-> Len(log) + 1, version |-> 0] ELSE pending[v]
  BY <1>0 DEF TypeOK
<1>2. [at |-> Len(log) + 1, version |-> 0] # None
  BY <1>c, NoneAssumption DEF Element
<1>3. SourceInv'
  BY <1>0, PublishKeepsSource
<1>4. /\ queue' \in Seq(UIDs) /\ Len(queue') = Len(queue) + 1 /\ Len(queue) \in Nat
      /\ \A i \in 1..Len(queue) : queue'[i] = queue[i]
      /\ queue'[Len(queue) + 1] = u
      /\ DOMAIN queue = 1..Len(queue) /\ DOMAIN queue' = 1..(Len(queue) + 1)
  BY <1>0, AppendProperties DEF TypeOK
<1>5. TypeOK'
  <2>1. pending' \in [UIDs -> Element \cup {None}] /\ passed' \in [UIDs -> SUBSET UIDs]
    BY <1>0, <1>c DEF TypeOK, Element
  <2> QED BY <1>0, <1>c, <1>4, <2>1 DEF TypeOK
<1>6. QueueInv'
  <2>1. \A i \in 1..Len(queue) : queue[i] # u
    BY <1>0, <1>4 DEF QueueInv
  <2>2. \A i, j \in DOMAIN queue' : queue'[i] = queue'[j] => i = j
    BY <1>4, <2>1 DEF QueueInv
  <2>3. ASSUME NEW v \in UIDs
        PROVE  pending'[v] # None <=> \E i \in DOMAIN queue' : queue'[i] = v
    <3>1. CASE v = u
      BY <3>1, <1>1, <1>2, <1>4
    <3>2. CASE v # u
      <4>1. pending'[v] # None <=> \E i \in DOMAIN queue : queue[i] = v
        BY <3>2, <1>1 DEF QueueInv
      <4>2. (\E i \in DOMAIN queue : queue[i] = v) <=> \E i \in DOMAIN queue' : queue'[i] = v
        BY <3>2, <1>4
      <4> QED BY <4>1, <4>2
    <3> QED BY <3>1, <3>2
  <2>4. \A v \in UIDs : pending'[v] # None => pending'[v].at = latest'[v] /\ latest'[v] # 0
    BY <1>1, <1>c DEF QueueInv
  <2> QED BY <2>2, <2>3, <2>4 DEF QueueInv
<1>7. FlightInv'
  <2>1. ASSUME rpc \in {"send", "record"}
        PROVE  /\ queue' # <<>> /\ queue'[1] = queue[1]
               /\ pending'[ev.uid] = pending[ev.uid]
    <3>1. ev.uid \in UIDs /\ ev.uid # u /\ queue # <<>>
      BY <1>0, <2>1, InFlightFacts DEF FlightInv
    <3>2. 1 \in 1..Len(queue)
      BY <3>1, <1>4 DEF TypeOK
    <3> QED BY <1>1, <1>4, <3>1, <3>2
  <2> QED BY <1>0, <2>1, PublishKeepsFlight
<1>8. KnownInv'
  <2> SUFFICES ASSUME NEW v \in UIDs PROVE KnownOf(v)'
    BY DEF KnownInv
  <2>1. CASE v = u
    <3>1. ~Recording(u) /\ ~Recording(u)'
      BY <1>0, InFlightFacts DEF Recording
    <3>2. u \in known' <=> ~Absent(sent[u])
      BY <1>0, <3>1 DEF KnownInv, KnownOf
    <3>3. (Absent(sent[u]))' <=> Absent(sent[u])
      BY <1>0, <1>c DEF Absent
    <3>4. u \in known' \/ ~(Absent(latest[u]))'
      BY <1>0, <1>c DEF Absent
    <3>5. pending'[u] # None /\ sent'[u] < pending'[u].at
      BY <1>0, <1>1, <1>2, <1>c
    <3> QED BY <2>1, <3>1, <3>2, <3>3, <3>4, <3>5 DEF KnownOf
  <2>2. CASE v # u
    BY <2>2, <1>0, <1>1, PublishKeepsOthers
  <2> QED BY <2>1, <2>2
<1> QED BY <1>3, <1>5, <1>6, <1>7, <1>8

LEMMA CoalesceKeepsInv ==
  ASSUME IndInv, NEW u \in UIDs, NEW deleted \in BOOLEAN, Change(u, deleted),
         Coalesce(u, deleted), UNCHANGED <<cancelled, runner, view>>
  PROVE  IndInv'
<1> USE DEF IndInv, runner
<1>0. /\ ~closed /\ pending[u] # None
      /\ deleted => u \in known \/ inFlight = u
      /\ pending' = [pending EXCEPT ![u] = Replacement(u)]
      /\ wake' = TRUE
      /\ UNCHANGED <<out, queue, known, inFlight, closed, sent, passed>>
  BY DEF Coalesce, Unseen, Signal
<1>c. /\ log' \in Seq([uid : UIDs, deleted : BOOLEAN]) /\ latest' \in [UIDs -> Nat]
      /\ Len(log) \in Nat /\ Len(log') = Len(log) + 1
      /\ \A i \in 1..Len(log) : log'[i] = log[i]
      /\ log'[Len(log) + 1] = [uid |-> u, deleted |-> deleted]
      /\ latest'[u] = Len(log) + 1 /\ sent[u] \in 0..Len(log)
      /\ \A v \in UIDs : v # u => latest'[v] = latest[v]
  BY ChangeFacts
<1>1. \A v \in UIDs : pending'[v] = IF v = u THEN Replacement(u) ELSE pending[v]
  BY <1>0 DEF TypeOK
<1>2. /\ Replacement(u) \in Element /\ Replacement(u) # None
      /\ Replacement(u).at = Len(log) + 1
  <2>1. pending[u] \in Element
    BY <1>0 DEF TypeOK
  <2>2. Replacement(u) \in Element /\ Replacement(u).at = Len(log) + 1
    BY <2>1, <1>c DEF Replacement, Element
  <2> QED BY <2>2, NoneAssumption
<1>3. SourceInv'
  BY <1>0, PublishKeepsSource
<1>4. TypeOK'
  <2>1. pending' \in [UIDs -> Element \cup {None}]
    BY <1>0, <1>2 DEF TypeOK
  <2> QED BY <1>0, <1>c, <2>1 DEF TypeOK
<1>5. QueueInv'
  <2>1. \A v \in UIDs : pending'[v] # None <=> pending[v] # None
    BY <1>0, <1>1, <1>2
  <2>2. \A v \in UIDs : pending'[v] # None => pending'[v].at = latest'[v] /\ latest'[v] # 0
    BY <1>1, <1>2, <1>c DEF QueueInv
  <2> QED BY <1>0, <2>1, <2>2 DEF QueueInv
<1>6. FlightInv'
  <2>1. ASSUME rpc \in {"send", "record"}
        PROVE  /\ queue' # <<>> /\ queue'[1] = queue[1]
               /\ \/ pending'[ev.uid] = pending[ev.uid]
                  \/ pending'[ev.uid] = Replacement(ev.uid)
    BY <1>0, <1>1, <2>1, InFlightFacts DEF FlightInv
  <2> QED BY <1>0, <2>1, PublishKeepsFlight
<1>7. KnownInv'
  <2> SUFFICES ASSUME NEW v \in UIDs PROVE KnownOf(v)'
    BY DEF KnownInv
  <2>1. CASE v = u
    <3>1. Recording(u)' <=> Recording(u)
      BY <1>0 DEF Recording
    <3>2. ~Recording(u) => (u \in known' <=> ~Absent(sent[u]))
      BY <1>0 DEF KnownInv, KnownOf
    <3>3. (Absent(sent[u]))' <=> Absent(sent[u])
      BY <1>0, <1>c DEF Absent
    <3>4. u \in known' \/ ~(Absent(latest[u]))' \/ inFlight' = u
      BY <1>0, <1>c DEF Absent
    <3>5. pending'[u] # None /\ sent'[u] < pending'[u].at
      BY <1>0, <1>1, <1>2, <1>c
    <3> QED BY <2>1, <3>1, <3>2, <3>3, <3>4, <3>5 DEF KnownOf
  <2>2. CASE v # u
    BY <2>2, <1>0, <1>1, PublishKeepsOthers
  <2> QED BY <2>1, <2>2
<1> QED BY <1>3, <1>4, <1>5, <1>6, <1>7

LEMMA IndStep ==
  ASSUME IndInv, [Next]_vars
  PROVE  IndInv'
<1>1. ASSUME NEW u \in UIDs, NEW deleted \in BOOLEAN, Publish(u, deleted) PROVE IndInv'
  BY <1>1, PublishClosedKeepsInv, PublishDirectKeepsInv, CancelUnseenKeepsInv,
     EnqueueKeepsInv, CoalesceKeepsInv DEF Publish
<1>2. CASE RunStep
  BY <1>2, TakeKeepsInv, QuietKeepsInv, SendKeepsInv, DeliveredKeepsInv,
     CloseKeepsInv DEF RunStep
<1>3. CASE Receive
  BY <1>3, ReceiveKeepsInv
<1>4. CASE Cancel
  BY <1>4, QuietKeepsInv
<1>5. CASE UNCHANGED vars
  BY <1>5 DEF vars, publisher, delivery, runner, IndInv, TypeOK, SourceInv,
     QueueInv, FlightInv, KnownInv, KnownOf, Announced, Absent, Recording
<1> QED BY <1>1, <1>2, <1>3, <1>4, <1>5 DEF Next

\* publish, run, start and stop keep the queue, its maps and known in order, and
\* what was announced of each UID with them: the invariant of the proofs below.
THEOREM Invariance == Spec => []IndInv
BY InitInv, IndStep, PTL DEF Spec

-----------------------------------------------------------------------------
(* What the invariant gives.                                               *)

\* Every variable of eventDelivery keeps its type; Out never exceeds Cap.
THEOREM TypeCorrect == Spec => []TypeOK
BY Invariance, PTL DEF IndInv

\* publish and run never lose an update: a UID with no element has had its
\* newest state, or its absence, put into Out.
THEOREM NothingLost == Spec => []NoLostUpdate
<1>1. IndInv => NoLostUpdate
  BY DEF IndInv, KnownInv, KnownOf, NoLostUpdate
<1> QED BY <1>1, Invariance, PTL

\* The bound on memory claimed above eventDelivery.
THEOREM MemoryBounded == Spec => []MemoryBound
<1>1. ASSUME IndInv PROVE MemoryBound
  <2>1. \A i \in DOMAIN queue : queue[i] \in UIDs
    BY <1>1 DEF IndInv, TypeOK
  <2> QED BY <1>1, <2>1 DEF IndInv, KnownInv, KnownOf, QueueInv, MemoryBound
<1> QED BY <1>1, Invariance, PTL

\* run never sleeps on a queue that holds an element without a token in wake.
THEOREM NoWakeupMissed == Spec => []NoMissedWakeup
<1>1. Init => NoMissedWakeup
  BY DEF Init, NoMissedWakeup
<1>2. ASSUME NoMissedWakeup, TypeOK, QueueInv, [Next]_vars PROVE NoMissedWakeup'
  <2> USE DEF NoMissedWakeup
  <2>1. ASSUME NEW u \in UIDs, NEW deleted \in BOOLEAN, Publish(u, deleted)
        PROVE  NoMissedWakeup'
    <3>1. ASSUME CancelUnseen(u, deleted), rpc = "wait", queue' # <<>> PROVE wake'
      <4>1. queue # <<>>
        <5>1. CASE pending[u] = None
          BY <5>1, <3>1 DEF CancelUnseen
        <5>2. CASE pending[u] # None
          BY <5>2, <1>2, EmptySeq, WithoutFacts
        <5> QED BY <5>1, <5>2
      <4> QED BY <1>2, <3>1, <4>1 DEF CancelUnseen
    <3> QED BY <1>2, <2>1, <3>1 DEF Publish, PublishClosed, PublishDirect, Enqueue,
              Coalesce, Signal, delivery, runner
  <2>2. CASE RunStep
    BY <1>2, <2>2 DEF RunStep, Take, Idle, Wake, Send, Delivered, Quit, Close, delivery
  <2>3. CASE Receive \/ Cancel \/ UNCHANGED vars
    BY <1>2, <2>3 DEF Receive, Cancel, vars, delivery, runner
  <2> QED BY <1>2, <2>1, <2>2, <2>3 DEF Next
<1> QED BY <1>1, <1>2, Invariance, PTL DEF Spec, IndInv

-----------------------------------------------------------------------------
(* Nobody starves: the order of the queue.                                 *)

LEMMA QueueFacts ==
  ASSUME TypeOK
  PROVE  Len(queue) \in Nat /\ DOMAIN queue = 1..Len(queue)
BY DEF TypeOK

\* FairInv's order of a waiting UID u and a UID v sent since survives the
\* removal of an element.
LEMMA RemovalKeepsOrder ==
  ASSUME IndInv, FairInv, NEW w \in UIDs, pending[w] # None,
         NEW u \in UIDs, pending[u] # None, NEW v \in passed[u],
         NEW i \in DOMAIN Without(w), NEW j \in DOMAIN Without(w),
         Without(w)[i] = u, Without(w)[j] = v
  PROVE  i < j \/ Recording(v)
<1> USE DEF IndInv
<1>1. v # u
  BY DEF FairInv
<1>2. i \in Nat /\ j \in Nat
  BY WithoutFacts
<1>3. CASE j < i
  <2>1. PICK k, l \in DOMAIN queue : k < l /\ queue[k] = v /\ queue[l] = u
    BY <1>3, WithoutFacts
  <2>2. l < k \/ Recording(v)
    BY <2>1 DEF FairInv
  <2>3. k \in Nat /\ l \in Nat
    BY <2>1, QueueFacts
  <2> QED BY <2>1, <2>2, <2>3
<1> QED BY <1>1, <1>2, <1>3

LEMMA PublishKeepsFair ==
  ASSUME IndInv, FairInv, NEW u \in UIDs, NEW deleted \in BOOLEAN, Publish(u, deleted)
  PROVE  FairInv'
<1> USE DEF IndInv
<1>0. rpc' = rpc /\ ev' = ev /\ Change(u, deleted)
  BY DEF Publish, runner
<1>1. \A v : Recording(v)' <=> Recording(v)
  BY <1>0 DEF Recording
<1>2. CASE PublishClosed
  BY <1>0, <1>1, <1>2 DEF PublishClosed, delivery, FairInv
<1>3. CASE PublishDirect(u, deleted)
  <2>1. queue = <<>> /\ UNCHANGED pending
    BY <1>3 DEF PublishDirect, FastPath
  <2>2. \A v \in UIDs : pending[v] = None
    BY <2>1 DEF QueueInv
  <2>3. rpc # "record"
    BY <2>1 DEF FlightInv
  <2> QED BY <1>0, <2>1, <2>2, <2>3 DEF FairInv
<1>4. CASE CancelUnseen(u, deleted)
  <2>1. passed' = passed
    BY <1>4 DEF CancelUnseen
  <2>2. CASE pending[u] = None
    BY <1>0, <1>1, <1>4, <2>1, <2>2 DEF CancelUnseen, FairInv
  <2>3. CASE pending[u] # None
    <3>1. /\ queue' = Without(u)
          /\ \A v \in UIDs : pending'[v] = IF v = u THEN None ELSE pending[v]
      BY <1>4, <2>3 DEF CancelUnseen, RemoveElement, TypeOK
    <3>2. ASSUME NEW x \in UIDs, pending'[x] # None, NEW v \in passed'[x]
          PROVE  /\ v # x
                 /\ \A i, j \in DOMAIN queue' :
                      queue'[i] = x /\ queue'[j] = v => i < j \/ Recording(v)'
      <4>1. pending[x] # None /\ v \in passed[x]
        BY <2>1, <3>1, <3>2
      <4> QED BY <1>1, <2>3, <3>1, <4>1, RemovalKeepsOrder DEF FairInv
    <3> QED BY <1>0, <2>1, <3>2 DEF FairInv
  <2> QED BY <2>2, <2>3
<1>5. CASE Enqueue(u, deleted)
  <2>1. /\ pending[u] = None /\ queue' = Append(queue, u)
        /\ \A v \in UIDs : pending'[v] # None => v = u \/ pending[v] # None
        /\ passed' = [passed EXCEPT ![u] = {}]
    BY <1>5 DEF Enqueue, TypeOK
  <2>2. /\ DOMAIN queue = 1..Len(queue) /\ Len(queue) \in Nat
        /\ DOMAIN queue' = 1..(Len(queue) + 1)
        /\ \A i \in 1..Len(queue) : queue'[i] = queue[i]
        /\ queue'[Len(queue) + 1] = u
    BY <2>1, AppendProperties DEF TypeOK
  <2>3. ASSUME NEW x \in UIDs, pending'[x] # None, NEW v \in passed'[x]
        PROVE  /\ v # x
               /\ \A i, j \in DOMAIN queue' :
                    queue'[i] = x /\ queue'[j] = v => i < j \/ Recording(v)'
    <3>1. x # u /\ v \in passed[x] /\ pending[x] # None
      BY <2>1, <2>3 DEF TypeOK
    <3>2. v # x /\ \A i, j \in DOMAIN queue :
                      queue[i] = x /\ queue[j] = v => i < j \/ Recording(v)
      BY <3>1 DEF FairInv
    <3>3. ASSUME NEW i \in DOMAIN queue', NEW j \in DOMAIN queue',
                 queue'[i] = x, queue'[j] = v
          PROVE  i < j \/ Recording(v)'
      <4>1. i \in 1..Len(queue) /\ queue[i] = x
        BY <2>2, <3>1, <3>3
      <4>2. CASE j = Len(queue) + 1
        BY <2>2, <4>1, <4>2
      <4>3. CASE j \in 1..Len(queue)
        BY <1>1, <2>2, <3>2, <3>3, <4>1, <4>3
      <4> QED BY <2>2, <4>2, <4>3
    <3> QED BY <3>2, <3>3
  <2>4. rpc' = "record" => passed'[ev'.uid] = {}
    BY <1>0, <2>1 DEF FairInv, TypeOK
  <2> QED BY <2>3, <2>4 DEF FairInv
<1>6. CASE Coalesce(u, deleted)
  <2>1. /\ UNCHANGED <<queue, passed>>
        /\ \A v \in UIDs : pending'[v] # None => pending[v] # None
    BY <1>6 DEF Coalesce, TypeOK
  <2> QED BY <1>0, <1>1, <2>1 DEF FairInv
<1> QED BY <1>2, <1>3, <1>4, <1>5, <1>6 DEF Publish

LEMMA DeliveredKeepsFair ==
  ASSUME IndInv, FairInv, Delivered
  PROVE  FairInv'
<1> USE DEF IndInv
<1>u. PICK u \in UIDs : u = ev.uid
  BY InFlightFacts DEF Delivered
<1>0. rpc = "record" /\ rpc' = "check" /\ passed' = passed /\ pending[u] # None
  BY <1>u, InFlightFacts DEF Delivered
<1>1. passed[u] = {}
  BY <1>u, <1>0 DEF FairInv
<1>2. \A x \in UIDs : pending'[x] # None => pending[x] # None
  BY <1>u DEF Delivered, Settle, RemoveElement, TypeOK
<1>3. SUFFICES ASSUME NEW x \in UIDs, pending'[x] # None, NEW v \in passed[x],
                      NEW i \in DOMAIN queue', NEW j \in DOMAIN queue',
                      queue'[i] = x, queue'[j] = v
               PROVE  i < j
  BY <1>0, <1>2 DEF FairInv, Recording
<1>4. pending[x] # None /\ x # u /\ v # x
  BY <1>1, <1>2, <1>3 DEF FairInv
<1>5. CASE queue' = Without(u)
  <2>1. v # u
    BY <1>0, <1>3, <1>5, WithoutFacts
  <2> QED BY <1>u, <1>0, <1>3, <1>4, <1>5, <2>1, RemovalKeepsOrder DEF Recording
<1>6. CASE queue' = Append(Without(u), u)
  <2> DEFINE w == Without(u)
  <2>1. w \in Seq(UIDs)
    BY <1>0, WithoutFacts
  <2> HIDE DEF w
  <2>2. /\ DOMAIN w = 1..Len(w) /\ Len(w) \in Nat
        /\ DOMAIN queue' = 1..(Len(w) + 1)
        /\ \A k \in 1..Len(w) : queue'[k] = w[k]
        /\ queue'[Len(w) + 1] = u
    BY <1>6, <2>1, AppendProperties DEF w
  <2>3. i \in DOMAIN w /\ w[i] = x
    BY <1>3, <1>4, <2>2
  <2>4. CASE j = Len(w) + 1
    BY <2>2, <2>3, <2>4
  <2>5. CASE j \in DOMAIN w
    <3>1. w[j] = v
      BY <1>3, <2>2, <2>5
    <3>2. v # u
      BY <1>0, <2>5, <3>1, WithoutFacts DEF w
    <3> QED BY <1>u, <1>0, <1>3, <1>4, <2>3, <2>5, <3>1, <3>2, RemovalKeepsOrder
            DEF Recording, w
  <2> QED BY <1>3, <2>2, <2>4, <2>5
<1> QED BY <1>u, <1>5, <1>6 DEF Delivered, Settle, RemoveElement

LEMMA FairStep ==
  ASSUME IndInv, FairInv, [Next]_vars
  PROVE  FairInv'
<1> USE DEF IndInv
<1>1. ASSUME NEW u \in UIDs, NEW deleted \in BOOLEAN, Publish(u, deleted) PROVE FairInv'
  BY <1>1, PublishKeepsFair
<1>2. CASE Take \/ Idle \/ Wake \/ Quit \/ Receive \/ Cancel \/ UNCHANGED vars
  BY <1>2 DEF Take, Idle, Wake, Quit, Receive, Cancel, vars, publisher, delivery, runner,
     FairInv, Recording
<1>3. CASE Send
  <2>1. ev.uid \in UIDs /\ queue[1] = ev.uid /\ UNCHANGED <<queue, pending, ev>>
    BY <1>3, InFlightFacts DEF Send, delivery, FlightInv
  <2>2. /\ rpc = "send" /\ rpc' = "record" /\ passed'[ev.uid] = {}
        /\ \A x \in UIDs : pending[x] # None /\ x # ev.uid =>
             passed'[x] = passed[x] \cup {ev.uid}
    BY <1>3, <2>1 DEF Send, SendOut
  <2> QED BY <2>1, <2>2 DEF FairInv, Recording
<1>4. CASE Delivered
  BY <1>4, DeliveredKeepsFair
<1>5. CASE Close
  BY <1>5 DEF Close, FairInv
<1> QED BY <1>1, <1>2, <1>3, <1>4, <1>5 DEF Next, RunStep

\* Whoever was sent while u waited now waits behind u: publish puts an element
\* that changed in flight at the end, and moves none forward.
THEOREM FairInvariance == Spec => []FairInv
<1>1. Init => FairInv
  BY DEF Init, FairInv
<1> QED BY <1>1, FairStep, Invariance, PTL DEF Spec

\* "A hot UID must not starve other resources": while u waits in the queue,
\* publish and run put no other UID into Out twice, since an element that was
\* replaced while in flight moves behind u.
THEOREM NobodyStarves == Spec => NoStarvation
<1> DEFINE Step == \A u \in UIDs : Len(out') > Len(out) /\ pending[u] # None
                     => log'[out'[Len(out')]].uid \notin passed[u] \ {u}
<1>1. ASSUME IndInv, FairInv, [Next]_vars PROVE [Step]_vars
  <2> USE <1>1 DEF IndInv
  <2>0. SUFFICES ASSUME NEW u \in UIDs, Len(out') > Len(out), pending[u] # None
                 PROVE  log'[out'[Len(out')]].uid \notin passed[u] \ {u}
    OBVIOUS
  <2>1. queue # <<>>
    BY <2>0 DEF QueueInv
  <2>2. Send
    <3>1. ~Receive
      BY <2>0, HeadTailProperties DEF Receive, TypeOK
    <3>2. out' # out
      BY <2>0 DEF TypeOK
    <3> QED BY <2>1, <3>1, <3>2 DEF Next, RunStep, Publish, PublishClosed, PublishDirect,
          FastPath, CancelUnseen, Enqueue, Coalesce, Take, Idle, Wake, Delivered, Quit,
          Close, Cancel, vars
  <2>3. /\ ev.uid \in UIDs /\ queue[1] = ev.uid /\ ev.at \in 1..Len(log)
        /\ log[ev.at].uid = ev.uid /\ rpc = "send"
    BY <2>2, InFlightFacts DEF Send, FlightInv
  <2>4. log'[out'[Len(out')]].uid = ev.uid
    <3>1. out' = Append(out, ev.at) /\ log' = log
      BY <2>2 DEF Send, SendOut, publisher
    <3>2. out'[Len(out')] = ev.at
      BY <2>3, <3>1, AppendProperties DEF TypeOK
    <3> QED BY <2>3, <3>1, <3>2
  <2>5. PICK i \in DOMAIN queue : queue[i] = u
    BY <2>0 DEF QueueInv
  <2>6. 1 \in DOMAIN queue /\ ~(i < 1)
    BY SMTT(30), <2>1, <2>5 DEF TypeOK
  <2> QED BY <2>0, <2>3, <2>4, <2>5, <2>6 DEF FairInv, Recording
<1>2. Spec => [][Step]_vars
  BY <1>1, Invariance, FairInvariance, PTL DEF Spec
<1> QED BY <1>2 DEF NoStarvation

-----------------------------------------------------------------------------
(* The refinement of ReplicatedView: what is in Out.                       *)

LEMMA LogFacts ==
  ASSUME TypeOK
  PROVE  Len(log) \in Nat /\ \A i \in 1..Len(log) : log[i].uid \in UIDs
<1>1. log \in Seq([uid : UIDs, deleted : BOOLEAN])
  BY DEF TypeOK
<1>2. \A i \in 1..Len(log) : log[i] \in [uid : UIDs, deleted : BOOLEAN]
  BY <1>1, ElementOfSeq
<1> QED BY <1>1, <1>2

\* Out holds events of the log, so a longer log tells the consumer nothing new.
LEMMA ToldOfGrowth ==
  ASSUME IndInv, OutInv, \A i \in 1..Len(log) : log'[i] = log[i], UNCHANGED <<out, view>>
  PROVE  /\ Len(out) \in Nat /\ \A k \in 1..Len(out) : out[k] \in 1..Len(log)
         /\ \A v, k : k \in 1..(Len(out) + 1) => HeardOf(v, k)' = HeardOf(v, k)
<1>1. Len(out) \in Nat
  BY DEF IndInv, TypeOK
<1>2. \A k \in 1..Len(out) : out[k] \in 1..Len(log)
  BY DEF OutInv
<1>3. ASSUME NEW v, NEW k \in 1..(Len(out) + 1) PROVE HeardOf(v, k)' = HeardOf(v, k)
  <2>1. \A i \in 1..(k - 1) : i \in 1..Len(out)
    BY <1>1
  <2>2. {i \in 1..(k - 1) : log'[out[i]].uid = v} = {i \in 1..(k - 1) : log[out[i]].uid = v}
    BY <1>2, <2>1
  <2> QED BY <2>2 DEF HeardOf
<1> QED BY <1>1, <1>2, <1>3

LEMMA LogGrowthKeepsOut ==
  ASSUME IndInv, OutInv, NEW u \in UIDs, NEW deleted \in BOOLEAN, Change(u, deleted),
         UNCHANGED <<out, view, sent>>
  PROVE  OutInv'
<1> USE DEF IndInv
<1>1. Len(log) \in Nat /\ Len(log') = Len(log) + 1 /\ \A i \in 1..Len(log) : log'[i] = log[i]
  BY ChangeFacts
<1>2. Len(out) \in Nat /\ \A k \in 1..Len(out) : out[k] \in 1..Len(log)
  BY <1>1, ToldOfGrowth
<1>3. \A v, k : k \in 1..(Len(out) + 1) => HeardOf(v, k)' = HeardOf(v, k)
  BY <1>1, ToldOfGrowth
<1>4. \A v \in UIDs : Newest(sent[v], HeardOf(v, Len(out) + 1))'
  BY <1>2, <1>3 DEF OutInv, Newest
<1>5. ASSUME NEW k \in 1..Len(out)
      PROVE  out[k] \in 1..Len(log') /\ \E p \in 0..Len(log') : Follows(k, p)'
  <2>1. PICK p \in 0..Len(log) : Follows(k, p)
    BY DEF OutInv
  <2>2. log'[out[k]] = log[out[k]] /\ (Absent(p)' <=> Absent(p)) /\ p \in 0..Len(log')
    BY <1>1, <1>2, <2>1 DEF Absent
  <2>3. PICK w : w = log[out[k]].uid
    OBVIOUS
  <2>4. HeardOf(w, k)' = HeardOf(w, k) /\ out' = out
    BY <1>2, <1>3
  <2>5. Follows(k, p)'
    BY <2>1, <2>2, <2>3, <2>4 DEF Follows, Newest
  <2> QED BY <1>1, <1>2, <2>2, <2>5
<1> QED BY <1>1, <1>2, <1>4, <1>5 DEF OutInv

\* What the consumer will have been told, once an event has joined Out.
LEMMA ToldOfSend ==
  ASSUME IndInv, OutInv, NEW u \in UIDs, NEW i \in 1..Len(log'),
         \A j \in 1..Len(log) : log'[j] = log[j], log'[i].uid = u,
         out' = Append(out, i), view' = view
  PROVE  /\ Len(out) \in Nat /\ Len(out') = Len(out) + 1
         /\ \A k \in 1..Len(out) : out[k] \in 1..Len(log) /\ out'[k] = out[k]
         /\ out'[Len(out) + 1] = i
         /\ \A v, k : k \in 1..(Len(out) + 1) => HeardOf(v, k)' = HeardOf(v, k)
         /\ \A v, k : k = Len(out) + 2 =>
              HeardOf(v, k)' = HeardOf(v, Len(out) + 1) \cup (IF v = u THEN {i} ELSE {})
<1> USE DEF IndInv
<1>0. out \in Seq(Nat) /\ i \in Nat /\ Len(log) \in Nat
  <2>1. i \in Nat
    OBVIOUS
  <2> QED BY <2>1, LogFacts DEF TypeOK
<1>n. PICK n \in Nat : n = Len(out)
  BY <1>0
<1>1. /\ Len(out') = n + 1 /\ n + 1 \in Nat
      /\ \A k \in 1..n : out'[k] = out[k]
      /\ out'[n + 1] = i
  BY <1>0, <1>n, AppendProperties
<1>k. \A k \in 1..n : out[k] \in 1..Len(log) /\ log'[out'[k]] = log[out[k]]
  <2>1. \A k \in 1..n : out[k] \in 1..Len(log)
    BY <1>n DEF OutInv
  <2> QED BY <1>1, <2>1
<1>2. \A v, k : k \in 1..(n + 1) => HeardOf(v, k)' = HeardOf(v, k)
  <2>1. \A k \in 1..(n + 1) : \A j \in 1..(k - 1) :
          j \in 1..n /\ out'[j] = out[j] /\ log'[out'[j]] = log[out[j]]
    BY <1>1, <1>k
  <2>2. ASSUME NEW v, NEW k \in 1..(n + 1) PROVE HeardOf(v, k)' = HeardOf(v, k)
    <3> DEFINE A == {l \in 1..(k - 1) : log[out[l]].uid = v}
               B == {l \in 1..(k - 1) : log'[out'[l]].uid = v}
    <3>1. A = B
      BY <2>1
    <3>2. \A j \in A : out'[j] = out[j]
      BY <2>1
    <3>3. {out[j] : j \in A} = {out'[j] : j \in B}
      <4> HIDE DEF A, B
      <4> QED BY <3>1, <3>2
    <3> QED BY <3>3 DEF HeardOf
  <2> QED BY <2>2
<1>3. ASSUME NEW v
      PROVE  HeardOf(v, n + 2)' = HeardOf(v, n + 1) \cup (IF v = u THEN {i} ELSE {})
  <2> DEFINE S == {out[j] : j \in {k \in 1..n : log[out[k]].uid = v}}
             T == {out'[j] : j \in {k \in 1..(n + 1) : log'[out'[k]].uid = v}}
  <2>1. HeardOf(v, n + 1) = {view[v]} \cup S
    <3>1. (n + 1) - 1 = n
      OBVIOUS
    <3> QED BY <3>1 DEF HeardOf
  <2>2. HeardOf(v, n + 2)' = {view[v]} \cup T
    <3>1. (n + 2) - 1 = n + 1
      OBVIOUS
    <3> QED BY <3>1 DEF HeardOf
  <2>3. T = S \cup (IF v = u THEN {i} ELSE {})
    <3>1. \A k \in 1..n : k \in 1..(n + 1) /\ out'[k] = out[k] /\ log'[out'[k]] = log[out[k]]
      BY <1>1, <1>k
    <3>2. \A k \in 1..(n + 1) : k \in 1..n \/ k = n + 1
      OBVIOUS
    <3>3. n + 1 \in 1..(n + 1) /\ out'[n + 1] = i /\ log'[out'[n + 1]].uid = u
      BY <1>1
    <3>4. S \subseteq T /\ (v = u => i \in T)
      <4>1. ASSUME NEW k \in 1..n, log[out[k]].uid = v PROVE out[k] \in T
        BY <3>1, <4>1
      <4>2. v = u => i \in T
        BY <3>3
      <4> QED BY <4>1, <4>2
    <3>5. ASSUME NEW k \in 1..(n + 1), log'[out'[k]].uid = v
          PROVE  out'[k] \in S \cup (IF v = u THEN {i} ELSE {})
      <4>1. CASE k \in 1..n
        BY <3>1, <3>5, <4>1
      <4>2. CASE k = n + 1
        BY <1>1, <3>3, <3>5, <4>2
      <4> QED BY <3>2, <4>1, <4>2
    <3> QED BY <3>4, <3>5
  <2> HIDE DEF S, T
  <2> QED BY <2>1, <2>2, <2>3
<1> QED BY <1>n, <1>1, <1>2, <1>3, <1>k

\* Putting a newer event of u, perhaps just reported, into Out extends u's chain.
LEMMA SendingKeepsOut ==
  ASSUME IndInv, OutInv, NEW u \in UIDs, NEW i \in 1..Len(log'),
         Len(log') \in Nat, Len(log') >= Len(log),
         \A j \in 1..Len(log) : log'[j] = log[j],
         log'[i].uid = u, sent[u] < i, log'[i].deleted => ~Absent(sent[u]),
         out' = Append(out, i), sent' = [sent EXCEPT ![u] = i], view' = view
  PROVE  OutInv'
<1> USE DEF IndInv
<1>0. out \in Seq(Nat) /\ Len(log) \in Nat
  BY LogFacts DEF TypeOK
<1>n. PICK n \in Nat : n = Len(out)
  BY <1>0
<1>1. /\ Len(out') = n + 1 /\ Len(out') + 1 = n + 2
      /\ \A k \in 1..n : out[k] \in 1..Len(log) /\ out'[k] = out[k]
      /\ out'[n + 1] = i
  BY <1>n, ToldOfSend
<1>2. \A v, k : k \in 1..(n + 1) => HeardOf(v, k)' = HeardOf(v, k)
  BY <1>n, ToldOfSend
<1>3. \A v : HeardOf(v, n + 2)' = HeardOf(v, n + 1) \cup (IF v = u THEN {i} ELSE {})
  BY <1>n, ToldOfSend
<1>k. /\ \A k \in 1..n : log'[out'[k]] = log[out[k]]
      /\ \A p \in 0..Len(log) : Absent(p)' <=> Absent(p)
  <2>1. \A p \in 0..Len(log) : p # 0 => p \in 1..Len(log)
    BY <1>0
  <2> QED BY <1>1, <2>1 DEF Absent
<1>4. ASSUME NEW v \in UIDs PROVE Newest(sent'[v], HeardOf(v, n + 2)')
  <2>1. Newest(sent[v], HeardOf(v, n + 1))
    BY <1>n DEF OutInv
  <2>2. HeardOf(v, n + 1) \subseteq Nat /\ sent[v] \in Nat
    <3>1. view[v] \in Nat /\ sent[v] \in Nat
      BY DEF TypeOK
    <3>2. \A j \in 1..n : out[j] \in Nat
      BY <1>0, <1>n
    <3> QED BY <3>1, <3>2 DEF HeardOf
  <2>3. sent'[v] = IF v = u THEN i ELSE sent[v]
    BY DEF TypeOK
  <2> QED BY <1>3, <2>1, <2>2, <2>3 DEF Newest
<1>5. ASSUME NEW k \in 1..(n + 1)
      PROVE  out'[k] \in 1..Len(log') /\ \E p \in 0..Len(log') : Follows(k, p)'
  <2>1. CASE k \in 1..n
    <3>1. PICK p \in 0..Len(log) : Follows(k, p)
      BY <1>n, <2>1 DEF OutInv
    <3>2. PICK w : w = log[out[k]].uid
      OBVIOUS
    <3>3. /\ out'[k] = out[k] /\ log'[out'[k]] = log[out[k]]
          /\ HeardOf(w, k)' = HeardOf(w, k)
      BY <1>1, <1>2, <1>k, <2>1, SMTT(30)
    <3>4. Follows(k, p)'
      BY <1>k, <3>1, <3>2, <3>3 DEF Follows
    <3>5. out[k] \in 1..Len(log)
      BY <1>1, <2>1
    <3> QED BY <3>3, <3>4, <3>5
  <2>2. CASE k = n + 1
    <3>1. Newest(sent[u], HeardOf(u, k))
      BY <1>n, <2>2 DEF OutInv
    <3>2. out'[k] = i /\ HeardOf(u, k)' = HeardOf(u, k)
      BY <1>1, <1>2, <2>2
    <3>s. PICK s \in Nat : s = sent[u]
      BY DEF TypeOK
    <3>3. s \in 0..Len(log')
      BY <1>0, <3>s
    <3>4. s \in 0..Len(log)
      BY <1>0, <3>s DEF SourceInv, TypeOK
    <3>5. Follows(k, s)'
      BY <1>k, <3>s, <3>1, <3>2, <3>4 DEF Follows
    <3> QED BY <3>2, <3>3, <3>5
  <2>3. k \in 1..n \/ k = n + 1
    OBVIOUS
  <2> QED BY <2>1, <2>2, <2>3
<1> QED BY <1>n, <1>1, <1>4, <1>5 DEF OutInv

\* The front of Out is newer than what the consumer shows of its UID, and is
\* not a tombstone of a resource the consumer does not show.
LEMMA FrontOfOut ==
  ASSUME IndInv, OutInv, out # <<>>
  PROVE  /\ Head(out) \in 1..Len(log) /\ log[Head(out)].uid \in UIDs
         /\ view[log[Head(out)].uid] < Head(out)
         /\ log[Head(out)].deleted => ~Absent(view[log[Head(out)].uid])
<1> DEFINE u == log[out[1]].uid
<1>1. 1 \in 1..Len(out) /\ Head(out) = out[1]
  BY DEF IndInv, TypeOK
<1>2. out[1] \in 1..Len(log)
  BY <1>1 DEF OutInv
<1>3. u \in UIDs
  BY <1>2, LogFacts DEF IndInv
<1>4. HeardOf(u, 1) = {view[u]}
  BY DEF HeardOf
<1>5. PICK p \in 0..Len(log) : Follows(1, p)
  BY <1>1 DEF OutInv
<1>6. p = view[u]
  BY <1>4, <1>5 DEF Follows, Newest
<1> QED BY <1>1, <1>2, <1>3, <1>5, <1>6 DEF Follows

\* What the consumer will have been told, once it has received the front of Out.
LEMMA ToldOfReceive ==
  ASSUME IndInv, OutInv, Receive
  PROVE  /\ Len(out) \in Nat /\ Len(out') = Len(out) - 1
         /\ \A v \in UIDs, k \in 1..Len(out) :
              IF v = log[Head(out)].uid
              THEN /\ HeardOf(v, k)' \subseteq HeardOf(v, k + 1)
                   /\ HeardOf(v, k + 1) \subseteq HeardOf(v, k)' \cup {view[v]}
                   /\ Head(out) \in HeardOf(v, k)'
              ELSE HeardOf(v, k)' = HeardOf(v, k + 1)
<1> DEFINE h == Head(out)
           u == log[h].uid
<1> USE DEF IndInv
<1>1. /\ Len(out) \in Nat /\ Len(out') = Len(out) - 1 /\ 1 \in 1..Len(out)
      /\ \A k \in 1..(Len(out) - 1) : out'[k] = out[k + 1]
      /\ out[1] = h
  BY HeadTailProperties DEF Receive, TypeOK
<1>2. h \in 1..Len(log) /\ u \in UIDs /\ view[u] < h
  BY FrontOfOut DEF Receive
<1>3. /\ UNCHANGED <<log, sent>>
      /\ \A v \in UIDs : view'[v] = IF v = u THEN h ELSE view[v]
  BY DEF Receive, publisher, TypeOK
<1>4. ASSUME NEW v \in UIDs, NEW k \in 1..Len(out)
      PROVE  IF v = u THEN /\ HeardOf(v, k)' \subseteq HeardOf(v, k + 1)
                           /\ HeardOf(v, k + 1) \subseteq HeardOf(v, k)' \cup {view[u]}
                           /\ h \in HeardOf(v, k)'
                      ELSE HeardOf(v, k)' = HeardOf(v, k + 1)
  <2> DEFINE S == {out[j] : j \in {i \in 1..k : log[out[i]].uid = v}}
             T == {out'[j] : j \in {i \in 1..(k - 1) : log[out'[i]].uid = v}}
  <2>1. HeardOf(v, k)' = {view'[v]} \cup T /\ HeardOf(v, k + 1) = {view[v]} \cup S
    <3>1. (k + 1) - 1 = k
      OBVIOUS
    <3> QED BY <1>3, <3>1 DEF HeardOf
  <2>2. T \subseteq S
    <3>1. \A j \in 1..(k - 1) : j + 1 \in 1..k /\ out'[j] = out[j + 1]
      BY <1>1
    <3> QED BY <3>1
  <2>3. S \subseteq T \cup {h}
    <3>1. ASSUME NEW j \in 1..k, j # 1 PROVE j - 1 \in 1..(k - 1) /\ out'[j - 1] = out[j]
      <4>1. j - 1 \in 1..(k - 1) /\ j - 1 \in 1..(Len(out) - 1) /\ (j - 1) + 1 = j
        BY <1>1, <3>1
      <4> QED BY <1>1, <4>1
    <3> QED BY <1>1, <3>1
  <2>4. v = u => h \in S
    <3>1. 1 \in 1..k
      OBVIOUS
    <3> QED BY <1>1, <3>1
  <2>5. v # u => S \subseteq T
    <3>1. ASSUME v # u, NEW j \in {i \in 1..k : log[out[i]].uid = v} PROVE out[j] \in T
      <4>1. j # 1
        BY <1>1, <3>1
      <4>2. j - 1 \in 1..(k - 1) /\ j - 1 \in 1..(Len(out) - 1) /\ (j - 1) + 1 = j
        BY <1>1, <4>1
      <4>3. out'[j - 1] = out[j]
        BY <1>1, <4>2
      <4> QED BY <4>2, <4>3
    <3> QED BY <3>1
  <2> HIDE DEF S, T
  <2> QED BY <1>3, <2>1, <2>2, <2>3, <2>4, <2>5
<1> QED BY <1>1, <1>4

LEMMA ReceiveKeepsOut ==
  ASSUME IndInv, OutInv, Receive
  PROVE  OutInv'
<1> DEFINE h == Head(out)
           u == log[h].uid
<1> USE DEF IndInv
<1>1. /\ Len(out) \in Nat /\ Len(out') = Len(out) - 1 /\ 1 \in 1..Len(out)
      /\ \A k \in 1..(Len(out) - 1) : out'[k] = out[k + 1]
      /\ out[1] = h
  BY HeadTailProperties DEF Receive, TypeOK
<1>2. h \in 1..Len(log) /\ u \in UIDs /\ view[u] < h
  BY FrontOfOut DEF Receive
<1>3. /\ UNCHANGED <<log, sent>>
      /\ \A v \in UIDs : view'[v] = IF v = u THEN h ELSE view[v]
  BY DEF Receive, publisher, TypeOK
<1>4. \A v \in UIDs, k \in 1..Len(out) :
        IF v = u THEN /\ HeardOf(v, k)' \subseteq HeardOf(v, k + 1)
                      /\ HeardOf(v, k + 1) \subseteq HeardOf(v, k)' \cup {view[u]}
                      /\ h \in HeardOf(v, k)'
                 ELSE HeardOf(v, k)' = HeardOf(v, k + 1)
  BY ToldOfReceive
<1>5. ASSUME NEW v \in UIDs, NEW k \in 1..Len(out), NEW p \in Nat, Newest(p, HeardOf(v, k + 1))
      PROVE  Newest(p, HeardOf(v, k)')
  <2>1. CASE v = u
    <3>1. h <= p
      BY <1>4, <1>5, <2>1 DEF Newest
    <3>2. view[u] \in Nat /\ h \in Nat
      <4>1. view \in [UIDs -> Nat] /\ Len(log) \in Nat
        BY LogFacts DEF TypeOK
      <4> QED BY <1>2, <4>1
    <3>3. p # view[u]
      BY <1>2, <1>5, <3>1, <3>2
    <3> QED BY <1>4, <1>5, <2>1, <3>3 DEF Newest
  <2>2. CASE v # u
    BY <1>4, <1>5, <2>2
  <2> QED BY <2>1, <2>2
<1>6. ASSUME NEW v \in UIDs PROVE Newest(sent[v], HeardOf(v, Len(out) + 1))'
  <2>1. PICK s \in Nat, n \in 1..Len(out) : s = sent[v] /\ s = sent'[v] /\ n = Len(out)
    BY <1>1, <1>3, SMTT(30) DEF TypeOK
  <2>2. Newest(sent[v], HeardOf(v, Len(out) + 1))
    BY DEF OutInv
  <2>3. Newest(s, HeardOf(v, n + 1)) /\ Len(out') + 1 = n
    BY <1>1, <2>1, <2>2
  <2>4. Newest(s, HeardOf(v, n)')
    BY <1>5, <2>1, <2>3
  <2> QED BY <2>1, <2>3, <2>4
<1>7. ASSUME NEW k \in 1..(Len(out) - 1)
      PROVE  out'[k] \in 1..Len(log) /\ \E p \in 0..Len(log) : Follows(k, p)'
  <2>1. k + 1 \in 1..Len(out) /\ k \in 1..Len(out) /\ out'[k] = out[k + 1]
    BY <1>1
  <2>2. PICK p \in 0..Len(log) : Follows(k + 1, p)
    BY <2>1 DEF OutInv
  <2>3. out[k + 1] \in 1..Len(log)
    BY <2>1 DEF OutInv
  <2>4. log[out[k + 1]].uid \in UIDs
    BY <2>3, LogFacts
  <2>5. PICK w \in UIDs : w = log[out[k + 1]].uid
    BY <2>4
  <2>6. Newest(p, HeardOf(w, k)')
    BY <1>5, <2>1, <2>2, <2>5 DEF Follows
  <2>7. Follows(k, p)'
    BY <1>3, <2>1, <2>2, <2>5, <2>6 DEF Follows, Absent
  <2> QED BY <1>3, <2>1, <2>3, <2>7
<1> QED BY <1>1, <1>3, <1>6, <1>7 DEF OutInv, Newest

\* The direct send: with an empty queue every UID's newest state is in Out, so
\* a deletion the informer reports follows an event that shows the resource.
LEMMA DirectKeepsOut ==
  ASSUME IndInv, OutInv, NEW u \in UIDs, NEW deleted \in BOOLEAN, Change(u, deleted),
         PublishDirect(u, deleted), view' = view
  PROVE  OutInv'
<1> USE DEF IndInv
<1>1. /\ Len(log) \in Nat /\ Len(log') = Len(log) + 1
      /\ \A i \in 1..Len(log) : log'[i] = log[i]
      /\ log'[Len(log) + 1] = [uid |-> u, deleted |-> deleted]
      /\ \A v \in UIDs : sent[v] \in 0..Len(log)
      /\ deleted => ~Absent(latest[u])
  BY ChangeFacts
<1>2. Announced(u)
  <2>1. ~closed /\ pending[u] = None
    BY DEF PublishDirect, FastPath, QueueInv
  <2> QED BY <2>1 DEF KnownInv, KnownOf
<1>3. PICK n \in Nat : n = Len(log) + 1
  BY <1>1
<1>4. out' = Append(out, n) /\ sent' = [sent EXCEPT ![u] = n]
  BY <1>3 DEF PublishDirect, SendOut
<1>5. n \in 1..Len(log') /\ log'[n] = [uid |-> u, deleted |-> deleted] /\ sent[u] < n
  BY <1>1, <1>3
<1>6. log'[n].deleted => ~Absent(sent[u])
  BY <1>1, <1>2, <1>5 DEF Announced
<1>7. Len(log') \in Nat /\ Len(log') >= Len(log) /\ log'[n].uid = u
  BY <1>1, <1>5
<1> QED BY <1>1, <1>4, <1>5, <1>6, <1>7, SendingKeepsOut

LEMMA OutStep ==
  ASSUME IndInv, OutInv, [Next]_vars
  PROVE  OutInv'
<1>1. ASSUME NEW u \in UIDs, NEW deleted \in BOOLEAN, Publish(u, deleted) PROVE OutInv'
  <2>1. Change(u, deleted) /\ view' = view
    BY <1>1 DEF Publish
  <2>2. CASE PublishDirect(u, deleted)
    BY <2>1, <2>2, DirectKeepsOut
  <2>3. CASE ~PublishDirect(u, deleted)
    <3>1. UNCHANGED <<out, sent>>
      BY <1>1, <2>3 DEF Publish, PublishClosed, CancelUnseen, Enqueue, Coalesce
    <3> QED BY <2>1, <3>1, LogGrowthKeepsOut
  <2> QED BY <2>2, <2>3
<1>2. CASE Send
  <2>1. /\ ev.uid \in UIDs /\ ev.at \in 1..Len(log) /\ log[ev.at].uid = ev.uid
        /\ sent[ev.uid] < ev.at
        /\ log[ev.at].deleted => ~Absent(sent[ev.uid])
    BY <1>2 DEF Send, IndInv, FlightInv
  <2>2. /\ out' = Append(out, ev.at) /\ sent' = [sent EXCEPT ![ev.uid] = ev.at]
        /\ UNCHANGED <<log, view>>
    BY <1>2 DEF Send, SendOut, publisher
  <2>3. Len(log) \in Nat /\ Len(log') \in Nat /\ Len(log') >= Len(log)
    BY <2>2, LogFacts DEF IndInv
  <2>4. /\ \A j \in 1..Len(log) : log'[j] = log[j]
        /\ ev.at \in 1..Len(log') /\ log'[ev.at].uid = ev.uid
        /\ log'[ev.at].deleted => ~Absent(sent[ev.uid])
    BY <2>1, <2>2
  <2>5. PICK i : i = ev.at
    OBVIOUS
  <2> QED BY <2>1, <2>2, <2>3, <2>4, <2>5, SendingKeepsOut
<1>3. CASE Receive
  BY <1>3, ReceiveKeepsOut
<1>4. CASE Take \/ Idle \/ Wake \/ Delivered \/ Quit \/ Close \/ Cancel \/ UNCHANGED vars
  <2>1. UNCHANGED <<log, out, view, sent>>
    BY <1>4 DEF Take, Idle, Wake, Delivered, Quit, Close, Cancel, vars, publisher
  <2> QED BY <2>1 DEF OutInv, Follows, HeardOf, Newest, Absent
<1> QED BY <1>1, <1>2, <1>3, <1>4 DEF Next, RunStep

\* The events of a UID in Out continue what the consumer has of it, each newer
\* than the one before, and the last is the one run records as sent.
THEOREM OutInvariance == Spec => []OutInv
<1>1. Init => OutInv
  <2> SUFFICES ASSUME Init PROVE OutInv
    OBVIOUS
  <2>1. out = <<>> /\ Len(out) = 0
    BY DEF Init
  <2>2. \A u \in UIDs : HeardOf(u, Len(out) + 1) = {0} /\ sent[u] = 0
    BY <2>1 DEF Init, HeardOf
  <2> QED BY <2>1, <2>2 DEF OutInv, Newest
<1> QED BY <1>1, OutStep, Invariance, PTL DEF Spec

\* Every step of the delivery is an event of the source, an event the consumer
\* learns in the order of its UID, or nothing the contract speaks of.
LEMMA StepRefines ==
  ASSUME IndInv, OutInv, [Next]_vars
  PROVE  [Promise!Next]_(Promise!vars)
<1> USE DEF Promise!vars
<1>1. ASSUME NEW u \in UIDs, NEW deleted \in BOOLEAN, Publish(u, deleted)
      PROVE  Promise!Next
  BY <1>1 DEF Publish, Change, Absent, Promise!Next, Promise!Change, Promise!Absent
<1>2. CASE Receive
  <2> DEFINE h == Head(out)
  <2>1. /\ h \in 1..Len(log)
        /\ view[log[h].uid] < h
        /\ log[h].deleted => ~Absent(view[log[h].uid])
    BY <1>2, FrontOfOut DEF Receive
  <2>2. h \in DOMAIN log
    BY <2>1 DEF IndInv, TypeOK
  <2>3. Promise!Apply(h)
    BY <1>2, <2>1 DEF Receive, publisher, Absent, Promise!Apply, Promise!Absent
  <2> QED BY <2>2, <2>3 DEF Promise!Next
<1>3. CASE RunStep \/ Cancel \/ UNCHANGED vars
  BY <1>3 DEF RunStep, Take, Idle, Wake, Send, Delivered, Quit, Close, Cancel, vars, publisher
<1> QED BY <1>1, <1>2, <1>3 DEF Next

\* The queue, the goroutines and the channel implement the contract stated
\* above eventDelivery: the consumer sees each UID's events in their order,
\* may skip some, and sees no tombstone of a resource it does not show.
THEOREM Refinement == Spec => Refines
<1>1. Init => Promise!Init
  BY DEF Init, Promise!Init
<1> QED BY <1>1, StepRefines, Invariance, OutInvariance, PTL DEF Spec, Refines, Promise!Spec
=============================================================================
