----------------------------- MODULE Logs_proof -----------------------------
(***************************************************************************)
(* Proofs about the logs.  LogStream, for any texts, limits and capacity:  *)
(* the lines taken are those read, as often as written, wherever the tail  *)
(* began and over any number of reconnects; where the tail splits no group *)
(* of one time they are one piece of the log, and the end that is told is  *)
(* the one there was.  LogSession, for any pods, containers and bounds:    *)
(* the lines shown are of the pod that is named, and no stream is left     *)
(* behind.  LogBuffer, for any lines, capacity and viewport: the matches   *)
(* that are kept are those a full scan finds, and lines that arrive leave  *)
(* the reader's place.                                                     *)
(***************************************************************************)
EXTENDS LogStream, LogSession, LogBuffer, Ordered_proof

-----------------------------------------------------------------------------
(* Counting lines.                                                         *)

LEMMA SomeLines ==
  ASSUME NEW n \in Nat, NEW S \in SUBSET (1..n)
  PROVE  IsFiniteSet(S) /\ Cardinality(S) \in Nat
<1>1. IsFiniteSet(1..n)
  BY FS_Interval
<1> QED BY <1>1, FS_Subset, FS_CardinalityType

\* The lines older than a time are the first of the log: as many as they are.
LEMMA FirstLines ==
  ASSUME NEW n \in Nat, NEW S \in SUBSET (1..n), \A i \in S, j \in 1..n : j <= i => j \in S
  PROVE  Cardinality(S) \in 0..n /\ S = 1..Cardinality(S)
<1>1. CASE S = {}
  BY <1>1, FS_EmptySet
<1>2. CASE S # {}
  <2>1. PICK m \in S : \A j \in S : j <= m
    BY <1>2, GreatestExists
  <2>2. m \in 1..n /\ S = 1..m
    <3>1. m \in 1..n /\ \A j \in S : j \in 1..n
      OBVIOUS
    <3>2. \A j \in 1..m : j \in S
      BY <3>1
    <3>3. \A j \in S : j \in 1..m
      BY <2>1, <3>1
    <3> QED BY <3>1, <3>2, <3>3
  <2>3. Cardinality(1..m) = m
    BY <2>2, FS_Interval
  <2> QED BY <2>2, <2>3
<1> QED BY <1>1, <1>2

-----------------------------------------------------------------------------
(* LogStream.                                                              *)

LEMMA FollowInitially == StreamInit => FollowInv
<1> SUFFICES ASSUME StreamInit PROVE FollowInv
  OBVIOUS
<1>1. MaxTime \in Nat \ {0} /\ MaxLines \in Nat /\ NoCounts \in [Texts -> Nat]
  BY BoundAssumption DEF NoCounts
<1>2. log = <<>> /\ terminated = FALSE /\ accepted = <<>> /\ stream = NoStream /\ now = 1 /\ spc = "start"
      /\ cursor = [at |-> 0, seen |-> NoCounts, overlap |-> NoCounts]
  BY DEF StreamInit
<1>3. stream \in [pos : 0..Len(log), whole : BOOLEAN, first : BOOLEAN, open : BOOLEAN] /\ stream.pos = 0
  BY <1>2 DEF NoStream
<1>4. StreamTypeOK
  <2>1. log \in Seq(Line) /\ Len(log) <= MaxLines /\ now \in 1..MaxTime
    BY <1>1, <1>2
  <2>2. terminated \in BOOLEAN
    BY <1>2, Zenon
  <2>4. accepted \in Seq(DOMAIN log)
    BY <1>2, SMT
  <2>3. cursor \in [at : 0..MaxTime, seen : [Texts -> Nat], overlap : [Texts -> Nat]]
    BY <1>1, <1>2
  <2>5. saying \in Controls
    BY DEF StreamInit, Controls
  <2> QED BY <1>2, <1>3, <2>1, <2>2, <2>3, <2>4, <2>5 DEF StreamTypeOK
<1>5. StampsRise /\ CursorInv
  BY <1>2, <1>3 DEF StampsRise, CursorInv
<1> QED BY <1>4, <1>5 DEF FollowInv

\* Steps that neither read nor write the log.
LEMMA Unmoved ==
  ASSUME FollowInv, UNCHANGED <<log, now, stream, cursor, accepted>>, terminated' \in BOOLEAN,
         saying' \in Controls,
         spc' \in {"start", "scan", "scanned", "count", "say", "backoff", "open", "done"},
         spc' = "start" => spc = "start"
  PROVE  FollowInv'
<1>1. StreamTypeOK'
  BY DEF FollowInv, StreamTypeOK
<1>2. StampsRise'
  BY DEF FollowInv, StampsRise
<1>3. CursorInv'
  <2>1. spc' = "start" => accepted' = <<>>
    BY DEF FollowInv, CursorInv
  <2>2. accepted' = <<>> =>
          /\ cursor' = [at |-> 0, seen |-> NoCounts, overlap |-> NoCounts]
          /\ stream'.pos \in 1..(Len(log') - 1) => TailWhole(stream.pos + 1)'
          /\ stream'.pos # 0 /\ stream'.pos = Len(log') => log'[stream'.pos].at < now'
    BY DEF FollowInv, CursorInv, TailWhole
  <2>3. accepted' # <<>> =>
          /\ \A j \in DOMAIN accepted' : accepted'[j] = accepted'[1] + j - 1
          /\ TailWhole(accepted[1])' /\ cursor'.at = log'[LastTaken'].at /\ stream'.pos <= LastTaken'
    BY DEF FollowInv, CursorInv, TailWhole, LastTaken
  <2>4. accepted' # <<>> =>
          \A t \in Texts : /\ cursor'.seen[t] = Cardinality(SameTime(0, t)')
                          /\ cursor'.overlap[t] = Cardinality(SameTime(stream.pos, t)')
    <3>1. \A t \in Texts : SameTime(0, t)' = SameTime(0, t) /\ SameTime(stream.pos, t)' = SameTime(stream.pos, t)
      BY Zenon DEF SameTime, LastTaken
    <3> QED BY <3>1 DEF FollowInv, CursorInv
  <2> QED BY <2>1, <2>2, <2>3, <2>4 DEF CursorInv
<1> QED BY <1>1, <1>2, <1>3 DEF FollowInv

StreamInv == StreamTypeOK /\ StampsRise

\* The lines there are: those before the last are older, the taken ones among them.
LEMMA StreamFacts ==
  ASSUME StreamInv
  PROVE  /\ Len(log) \in Nat /\ DOMAIN log = 1..Len(log) /\ now \in Nat \ {0} /\ stream.pos \in 0..Len(log)
         /\ \A i \in DOMAIN log : log[i].at \in 1..MaxTime /\ log[i].at \in Nat \ {0} /\ log[i].text \in Texts
         /\ Len(accepted) \in Nat /\ DOMAIN accepted = 1..Len(accepted)
         /\ accepted # <<>> => /\ Len(accepted) \in DOMAIN accepted /\ 1 \in DOMAIN accepted
                               /\ LastTaken \in DOMAIN log /\ accepted[1] \in DOMAIN log
<1>1. StreamTypeOK /\ MaxTime \in Nat
  BY BoundAssumption DEF StreamInv
<1>2. Len(log) \in Nat /\ DOMAIN log = 1..Len(log) /\ now \in Nat \ {0}
  BY <1>1 DEF StreamTypeOK
<1>3. \A i \in DOMAIN log : log[i].at \in 1..MaxTime /\ log[i].at \in Nat \ {0} /\ log[i].text \in Texts
  <2>1. ASSUME NEW i \in DOMAIN log PROVE log[i] \in [at : 1..MaxTime, text : Texts]
    <3>1. log[i] \in Line
      BY <1>1 DEF StreamTypeOK
    <3> QED BY <3>1 DEF Line
  <2> QED BY <1>1, <2>1
<1>4. stream.pos \in 0..Len(log)
  BY <1>1 DEF StreamTypeOK
<1>5. Len(accepted) \in Nat /\ DOMAIN accepted = 1..Len(accepted)
  BY <1>1 DEF StreamTypeOK
<1>6. ASSUME accepted # <<>>
      PROVE  /\ Len(accepted) \in DOMAIN accepted /\ 1 \in DOMAIN accepted
             /\ LastTaken \in DOMAIN log /\ accepted[1] \in DOMAIN log
  BY <1>1, <1>6 DEF StreamTypeOK, LastTaken
<1> QED BY <1>2, <1>3, <1>4, <1>5, <1>6

LEMMA LogFacts ==
  ASSUME FollowInv
  PROVE  /\ Len(log) \in Nat /\ DOMAIN log = 1..Len(log) /\ now \in Nat \ {0} /\ stream.pos \in 0..Len(log)
         /\ \A i \in DOMAIN log : log[i].at \in 1..MaxTime /\ log[i].at \in Nat \ {0} /\ log[i].text \in Texts
         /\ Len(accepted) \in Nat /\ DOMAIN accepted = 1..Len(accepted)
         /\ accepted # <<>> => /\ Len(accepted) \in DOMAIN accepted /\ 1 \in DOMAIN accepted
                               /\ LastTaken \in DOMAIN log /\ accepted[1] \in DOMAIN log
BY StreamFacts DEF FollowInv, StreamInv

LEMMA WriteFollows == ASSUME FollowInv, NEW text \in Texts, Write(text) PROVE FollowInv'
<1> DEFINE l == [at |-> now, text |-> text]
<1>1. /\ Len(log) < MaxLines /\ log' = Append(log, l)
      /\ UNCHANGED <<now, terminated, spc, saying, stream, cursor, accepted>>
  BY DEF Write, streamer, lines, locals
<1>2. l \in Line /\ l.at = now
  BY DEF FollowInv, StreamTypeOK, Line
<1> HIDE DEF l
<1>3. /\ log \in Seq(Line) /\ MaxLines \in Nat /\ accepted \in Seq(DOMAIN log)
      /\ stream \in [pos : 0..Len(log), whole : BOOLEAN, first : BOOLEAN, open : BOOLEAN]
  BY BoundAssumption DEF FollowInv, StreamTypeOK
<1>4. /\ log' \in Seq(Line) /\ Len(log') = Len(log) + 1 /\ log'[Len(log) + 1] = l
      /\ \A i \in 1..Len(log) : log'[i] = log[i]
      /\ DOMAIN log' = 1..(Len(log) + 1) /\ DOMAIN log = 1..Len(log) /\ Len(log) \in Nat
  BY <1>1, <1>2, <1>3
<1>5. accepted' \in Seq(DOMAIN log')
  <2>1. Seq(DOMAIN log) \subseteq Seq(DOMAIN log')
    BY <1>4
  <2> QED BY <1>1, <1>3, <2>1
<1>6. stream' \in [pos : 0..Len(log'), whole : BOOLEAN, first : BOOLEAN, open : BOOLEAN]
  <2>1. 0..Len(log) \subseteq 0..Len(log')
    BY <1>4
  <2> QED BY <1>1, <1>3, <2>1
<1>7. StreamTypeOK'
  BY <1>1, <1>3, <1>4, <1>5, <1>6 DEF FollowInv, StreamTypeOK
<1>8. StampsRise'
  BY <1>1, <1>2, <1>4, LogFacts DEF FollowInv, StampsRise
<1>9. CursorInv'
  <2>1. CASE accepted = <<>>
    <3>1. stream.pos \in 1..Len(log) => log'[stream.pos] = log[stream.pos]
      BY <1>4
    <3>2. ASSUME stream'.pos \in 1..(Len(log') - 1) PROVE TailWhole(stream.pos + 1)'
      <4>1. stream.pos \in 1..Len(log)
        BY <1>1, <1>4, <3>2
      <4>2. CASE stream.pos = Len(log)
        <5>1. log[stream.pos].at < now
          BY <2>1, <4>1, <4>2 DEF FollowInv, CursorInv
        <5>2. PICK f \in Nat : f = stream.pos + 1 /\ f - 1 = stream.pos
          BY <4>1
        <5>3. f = stream'.pos + 1 /\ log'[f].at = now' /\ log'[f - 1] = log[stream.pos]
          BY <1>1, <1>2, <1>4, <3>1, <4>1, <4>2, <5>2
        <5>4. log'[f - 1].at < log'[f].at
          BY <1>1, <5>1, <5>3
        <5> QED BY <5>3, <5>4 DEF TailWhole
      <4>3. CASE stream.pos # Len(log)
        <5>1. TailWhole(stream.pos + 1) /\ stream.pos + 1 - 1 = stream.pos
          BY <1>4, <2>1, <4>1, <4>3 DEF FollowInv, CursorInv
        <5>2. log'[stream.pos + 1] = log[stream.pos + 1]
          BY <1>4, <4>1, <4>3
        <5> QED BY <1>1, <3>1, <4>1, <5>1, <5>2 DEF TailWhole
      <4> QED BY <4>2, <4>3
    <3>3. ~(stream'.pos # 0 /\ stream'.pos = Len(log'))
      BY <1>1, <1>3, <1>4
    <3> QED BY <1>1, <2>1, <3>2, <3>3 DEF FollowInv, CursorInv
  <2>2. CASE accepted # <<>>
    <3>1. LastTaken' = LastTaken /\ LastTaken \in 1..Len(log) /\ accepted[1] \in 1..Len(log)
      BY <1>1, <1>4, <2>2, LogFacts DEF LastTaken
    <3>2. \A j \in 1..LastTaken : log'[j] = log[j]
      BY <1>4, <3>1
    <3>3. \A p \in Nat, t \in Texts : SameTime(p, t)' = SameTime(p, t)
      BY <1>1, <3>1, <3>2 DEF SameTime
    <3>4. TailWhole(accepted[1]) => TailWhole(accepted[1])'
      BY <1>1, <1>4, <3>1 DEF TailWhole
    <3>5. stream.pos \in Nat
      BY <1>3
    <3> QED BY <1>1, <2>2, <3>1, <3>2, <3>3, <3>4, <3>5 DEF FollowInv, CursorInv
  <2> QED BY <2>1, <2>2
<1> QED BY <1>7, <1>8, <1>9 DEF FollowInv

LEMMA TickFollows == ASSUME FollowInv, Tick PROVE FollowInv'
<1>1. now' = now + 1 /\ now < MaxTime /\ UNCHANGED <<log, terminated, spc, saying, stream, cursor, accepted>>
  BY DEF Tick, streamer, lines, locals
<1>2. now' \in 1..MaxTime
  BY <1>1, BoundAssumption DEF FollowInv, StreamTypeOK
<1>3. StreamTypeOK'
  BY <1>1, <1>2 DEF FollowInv, StreamTypeOK
<1>4. StampsRise'
  BY <1>1, LogFacts DEF FollowInv, StampsRise
<1>5. stream.pos # 0 /\ stream.pos = Len(log) => log[stream.pos].at \in Nat /\ now \in Nat
  BY LogFacts
<1>6. CursorInv'
  <2>1. CASE accepted = <<>>
    <3>1. stream.pos # 0 /\ stream.pos = Len(log) => log[stream.pos].at < now'
      BY <1>1, <1>5, <2>1 DEF FollowInv, CursorInv
    <3>2. stream.pos \in 1..(Len(log) - 1) => TailWhole(stream.pos + 1)'
      BY <1>1, <2>1 DEF FollowInv, CursorInv, TailWhole
    <3> QED BY <1>1, <2>1, <3>1, <3>2 DEF FollowInv, CursorInv
  <2>2. CASE accepted # <<>>
    BY <1>1, <2>2 DEF FollowInv, CursorInv, LastTaken, SameTime, TailWhole
  <2> QED BY <2>1, <2>2
<1> QED BY <1>3, <1>4, <1>6 DEF FollowInv

\* The tail begins between two time stamps.
LEMMA StartFollows ==
  ASSUME FollowInv, ~TailSplitsTie, NEW pos \in 0..MaxLines, Start(pos) PROVE FollowInv'
<1>1. /\ spc = "start" /\ spc' = "scan" /\ (pos = 0 \/ pos < Len(log)) /\ ~SplitsTie(pos)
      /\ stream' = [pos |-> pos, whole |-> terminated, first |-> TRUE, open |-> TRUE]
      /\ UNCHANGED <<log, now, terminated, saying, cursor, accepted>>
  BY DEF Start, Opened, container, locals, lines
<1>2. accepted = <<>> /\ stream'.pos = pos
  BY <1>1 DEF FollowInv, CursorInv
<1>3. pos \in 0..Len(log) /\ pos \in Nat
  BY <1>1, BoundAssumption, LogFacts
<1>4. StreamTypeOK'
  BY <1>1, <1>3 DEF FollowInv, StreamTypeOK
<1>5. StampsRise'
  BY <1>1 DEF FollowInv, StampsRise
<1>6. pos \in 1..(Len(log) - 1) => TailWhole(pos + 1)
  <2> SUFFICES ASSUME pos \in 1..(Len(log) - 1) PROVE TailWhole(pos + 1)
    OBVIOUS
  <2>1. pos + 1 - 1 = pos /\ pos \in DOMAIN log /\ pos + 1 \in DOMAIN log
    BY <1>3, LogFacts
  <2>2. log[pos].at # log[pos + 1].at
    BY <1>1 DEF SplitsTie
  <2>3. log[pos].at <= log[pos + 1].at
    BY <1>3, <2>1 DEF FollowInv, StampsRise
  <2>4. log[pos].at < log[pos + 1].at
    BY <2>1, <2>2, <2>3, LogFacts
  <2> QED BY <2>1, <2>4 DEF TailWhole
<1>7. ~(pos # 0 /\ pos = Len(log))
  BY <1>1, LogFacts
<1>8. CursorInv'
  BY <1>1, <1>2, <1>6, <1>7 DEF FollowInv, CursorInv, TailWhole
<1> QED BY <1>4, <1>5, <1>8 DEF FollowInv

\* A stream that begins before the cursor's time replays all that was counted.
LEMMA Replays ==
  ASSUME FollowInv, accepted # <<>>, NEW pos \in 0..Len(log),
         \A i \in 1..pos : log[i].at < cursor.at
  PROVE  pos < LastTaken /\ \A t \in Texts : SameTime(pos, t) = SameTime(0, t)
<1>1. LastTaken \in DOMAIN log /\ Len(log) \in Nat /\ DOMAIN log = 1..Len(log)
  BY LogFacts
<1>2. cursor.at = log[LastTaken].at
  BY DEF FollowInv, CursorInv
<1>3. \A i \in DOMAIN log : log[i].at \in Nat
  BY LogFacts
<1>4. pos \in Nat /\ LastTaken \in Nat /\ cursor.at \in Nat
  BY <1>1, <1>2, <1>3
<1>5. \A i \in 1..pos : log[i].at # cursor.at
  BY <1>1, <1>3, <1>4
<1>6. LastTaken \notin 1..pos
  BY <1>2, <1>5
<1>7. pos < LastTaken
  BY <1>1, <1>4, <1>6
<1>8. ASSUME NEW t \in Texts PROVE SameTime(pos, t) = SameTime(0, t)
  <2>1. \A j \in 1..LastTaken : log[j].at = cursor.at => j \in (pos + 1)..LastTaken
    <3>1. SUFFICES ASSUME NEW j \in 1..LastTaken, log[j].at = cursor.at
                   PROVE  j \in (pos + 1)..LastTaken
      OBVIOUS
    <3>2. j \notin 1..pos
      BY <1>5, <3>1
    <3> QED BY <1>4, <3>2
  <2>2. (pos + 1)..LastTaken \subseteq 1..LastTaken
    BY <1>4
  <2>3. 0 + 1 = 1
    OBVIOUS
  <2> QED BY <2>1, <2>2, <2>3 DEF SameTime
<1> QED BY <1>7, <1>8

\* The cursor at the beginning of a stream that serves the log from behind its
\* first pos lines, none of which the cursor has counted.
LEMMA LoopFollows ==
  ASSUME FollowInv, NEW pos \in 0..Len(log), spc # "start",
         stream'.pos = pos, spc' = "scan", cursor' = BeginStream(cursor),
         stream' \in [pos : 0..Len(log), whole : BOOLEAN, first : BOOLEAN, open : BOOLEAN],
         UNCHANGED <<log, now, terminated, saying, accepted>>,
         accepted # <<>> => \A i \in 1..pos : log[i].at < cursor.at,
         accepted = <<>> => /\ pos \in 1..(Len(log) - 1) => TailWhole(pos + 1)
                            /\ pos # 0 /\ pos = Len(log) => log[pos].at < now
  PROVE  FollowInv'
<1>1. cursor \in [at : 0..MaxTime, seen : [Texts -> Nat], overlap : [Texts -> Nat]]
  BY DEF FollowInv, StreamTypeOK
<1>2. /\ cursor' \in [at : 0..MaxTime, seen : [Texts -> Nat], overlap : [Texts -> Nat]]
      /\ cursor'.at = cursor.at /\ cursor'.seen = cursor.seen /\ cursor'.overlap = cursor.seen
  BY <1>1 DEF BeginStream
<1>3. StreamTypeOK'
  BY <1>2 DEF FollowInv, StreamTypeOK
<1>4. StampsRise'
  BY DEF FollowInv, StampsRise
<1>5. CursorInv'
  <2>1. CASE accepted = <<>>
    <3>1. cursor = [at |-> 0, seen |-> NoCounts, overlap |-> NoCounts]
      BY <2>1 DEF FollowInv, CursorInv
    <3>2. cursor' = cursor
      BY <3>1 DEF BeginStream
    <3> QED BY <2>1, <3>1, <3>2 DEF CursorInv, TailWhole
  <2>2. CASE accepted # <<>>
    <3>1. pos < LastTaken /\ \A t \in Texts : SameTime(pos, t) = SameTime(0, t)
      BY <2>2, Replays
    <3>2. LastTaken' = LastTaken
      BY DEF LastTaken
    <3>3. cursor'.at = log'[LastTaken'].at
      <4>1. cursor.at = log[LastTaken].at
        BY <2>2 DEF FollowInv, CursorInv
      <4> QED BY <1>2, <3>2, <4>1
    <3>4. \A t \in Texts : SameTime(0, t)' = SameTime(0, t)
      BY <1>2, <3>2 DEF SameTime
    <3>5. \A t \in Texts : SameTime(stream.pos, t)' = SameTime(pos, t)
      BY <1>2, <3>2 DEF SameTime
    <3>6. \A t \in Texts : cursor.seen[t] = Cardinality(SameTime(0, t))
      BY <2>2 DEF FollowInv, CursorInv
    <3>7. /\ \A j \in DOMAIN accepted : accepted[j] = accepted[1] + j - 1
          /\ TailWhole(accepted[1])
      BY <2>2 DEF FollowInv, CursorInv
    <3>8. TailWhole(accepted[1])'
      BY <3>7 DEF TailWhole
    <3>9. \A t \in Texts : /\ cursor'.seen[t] = Cardinality(SameTime(0, t)')
                           /\ cursor'.overlap[t] = Cardinality(SameTime(stream.pos, t)')
      BY <1>2, <3>1, <3>4, <3>5, <3>6
    <3>10. stream'.pos <= LastTaken'
      <4>1. LastTaken \in 1..Len(log) /\ Len(log) \in Nat
        BY <2>2, LogFacts
      <4> QED BY SMTT(20), <3>1, <3>2, <4>1
    <3> QED BY <2>2, <3>3, <3>7, <3>8, <3>9, <3>10 DEF CursorInv
  <2> QED BY <2>1, <2>2
<1> QED BY <1>3, <1>4, <1>5 DEF FollowInv

\* A stream that is reopened at a time begins behind the lines that are older.
LEMMA OlderLines ==
  ASSUME StreamInv, NEW since \in 1..MaxTime
  PROVE  LET pos == Cardinality({i \in DOMAIN log : log[i].at < since}) IN
         /\ pos \in 0..Len(log)
         /\ \A i \in 1..pos : log[i].at < since
         /\ \A i \in DOMAIN log : i > pos => log[i].at >= since
<1> DEFINE old == {i \in DOMAIN log : log[i].at < since}
           pos == Cardinality(old)
<1>1. since \in Nat /\ Len(log) \in Nat /\ DOMAIN log = 1..Len(log)
  BY BoundAssumption, StreamFacts
<1>2. \A i \in DOMAIN log : i \in old <=> log[i].at < since
  OBVIOUS
<1>3. \A i \in DOMAIN log : log[i].at \in Nat
  BY StreamFacts
<1>4. \A i \in old, j \in 1..Len(log) : j <= i => j \in old
  <2> SUFFICES ASSUME NEW i \in old, NEW j \in 1..Len(log), j <= i PROVE log[j].at < since
    BY <1>1
  <2>1. log[j].at <= log[i].at /\ log[i].at < since /\ i \in DOMAIN log
    BY <1>1 DEF StreamInv, StampsRise
  <2> QED BY <1>1, <1>3, <2>1
<1>5. old \in SUBSET (1..Len(log))
  BY <1>1
<1> HIDE DEF old
<1>6. pos \in 0..Len(log) /\ old = 1..pos
  BY <1>1, <1>4, <1>5, FirstLines
<1> HIDE DEF pos
<1>7. (\A i \in 1..pos : log[i].at < since) /\ (\A i \in DOMAIN log : i > pos => log[i].at >= since)
  BY <1>1, <1>2, <1>3, <1>6
<1> QED BY <1>6, <1>7 DEF pos, old

LEMMA ReopenFollows ==
  ASSUME FollowInv, NEW since \in 1..MaxTime, Reopen(since) PROVE FollowInv'
<1> DEFINE old == {i \in DOMAIN log : log[i].at < since}
           pos == Cardinality(old)
<1>1. /\ spc = "open" /\ since <= (IF cursor.at = 0 THEN now ELSE cursor.at)
      /\ stream' = [pos |-> pos, whole |-> terminated, first |-> FALSE, open |-> TRUE]
      /\ spc' = "scan" /\ cursor' = BeginStream(cursor)
      /\ UNCHANGED <<log, now, terminated, saying, accepted>>
  BY DEF Reopen, Opened, Loop, container, lines
<1>2. since \in Nat \ {0} /\ Len(log) \in Nat /\ DOMAIN log = 1..Len(log)
  BY BoundAssumption, LogFacts
<1>3. pos \in 0..Len(log) /\ terminated \in BOOLEAN
  BY OlderLines DEF FollowInv, StreamInv, StreamTypeOK
<1>4. /\ \A i \in 1..pos : log[i].at < since
      /\ \A i \in DOMAIN log : i > pos => log[i].at >= since
  BY OlderLines DEF FollowInv, StreamInv
<1> HIDE DEF pos, old
<1>5. PICK q \in 0..Len(log) : q = pos
  BY <1>3
<1>6. /\ stream'.pos = q
      /\ stream' \in [pos : 0..Len(log), whole : BOOLEAN, first : BOOLEAN, open : BOOLEAN]
  BY <1>1, <1>3, <1>5
<1>7. ASSUME accepted # <<>> PROVE \A i \in 1..q : log[i].at < cursor.at
  <2>1. cursor.at = log[LastTaken].at /\ LastTaken \in DOMAIN log
    BY <1>7, LogFacts DEF FollowInv, CursorInv
  <2>2. cursor.at \in Nat \ {0} /\ since <= cursor.at
    BY <1>1, <2>1, LogFacts
  <2> QED BY <1>2, <1>4, <1>5, <2>2, LogFacts
<1>8. ASSUME accepted = <<>>
      PROVE  /\ q \in 1..(Len(log) - 1) => TailWhole(q + 1)
             /\ q # 0 /\ q = Len(log) => log[q].at < now
  <2>1. since <= now
    BY <1>1, <1>8 DEF FollowInv, CursorInv
  <2>2. ASSUME q \in 1..(Len(log) - 1) PROVE TailWhole(q + 1)
    <3>1. q + 1 - 1 = q /\ q \in DOMAIN log /\ q + 1 \in DOMAIN log
      BY <1>2, <2>2
    <3>2. log[q].at < since /\ log[q + 1].at >= since
      BY <1>2, <1>4, <1>5, <3>1
    <3>3. log[q].at < log[q + 1].at
      BY <1>2, <3>1, <3>2, LogFacts
    <3> QED BY <3>1, <3>3 DEF TailWhole
  <2>3. ASSUME q # 0, q = Len(log) PROVE log[q].at < now
    <3>1. q \in DOMAIN log /\ log[q].at < since
      BY <1>2, <1>4, <1>5, <2>3
    <3> QED BY <1>2, <2>1, <3>1, LogFacts
  <2> QED BY <2>2, <2>3
<1>9. spc # "start"
  BY <1>1
<1> QED BY <1>1, <1>6, <1>7, <1>8, <1>9, LoopFollows

LEMMA ReopenFailsFollows == ASSUME FollowInv, ReopenFails PROVE FollowInv'
<1>1. /\ spc = "open" /\ stream' = NoStream /\ spc' = "scan" /\ cursor' = BeginStream(cursor)
      /\ UNCHANGED <<log, now, terminated, saying, accepted>>
  BY DEF ReopenFails, Loop, container, lines
<1>2. 0 \in 0..Len(log) /\ \A i \in 1..0 : FALSE
  BY LogFacts
<1>3. /\ stream'.pos = 0
      /\ stream' \in [pos : 0..Len(log), whole : BOOLEAN, first : BOOLEAN, open : BOOLEAN]
  BY <1>1, <1>2 DEF NoStream
<1>4. spc # "start"
  BY <1>1
<1> QED BY <1>1, <1>2, <1>3, <1>4, LoopFollows

\* The same line counted once more, or once less.
LEMMA OneMore ==
  ASSUME NEW n \in Nat, NEW S \in SUBSET (1..n), NEW i \in 1..n, i \notin S
  PROVE  Cardinality(S \cup {i}) = Cardinality(S) + 1
BY SomeLines, FS_AddElement

LEMMA OneLess ==
  ASSUME NEW n \in Nat, NEW S \in SUBSET (1..n), NEW i \in S
  PROVE  Cardinality(S \ {i}) = Cardinality(S) - 1 /\ Cardinality(S) \in Nat \ {0}
<1>1. IsFiniteSet(S) /\ Cardinality(S) \in Nat
  BY SomeLines
<1>2. Cardinality(S \ {i}) = Cardinality(S) - 1
  BY <1>1, FS_RemoveElement
<1>3. Cardinality(S) # 0
  BY <1>1, FS_EmptySet
<1> QED BY <1>1, <1>2, <1>3

\* What is common to the three ways a line is read.
LEMMA StreamReads ==
  ASSUME StreamInv, Scan
  PROVE  \E i \in DOMAIN log :
           /\ i = stream.pos + 1 /\ i - 1 = stream.pos /\ spc = "scan" /\ spc' = spc
           /\ stream' = [stream EXCEPT !.pos = i] /\ stream'.pos = i
           /\ stream' \in [pos : 0..Len(log), whole : BOOLEAN, first : BOOLEAN, open : BOOLEAN]
           /\ cursor' = Accept(cursor, log[i])
           /\ UNCHANGED <<log, now, terminated, saying>>
           /\ Replayed(cursor, log[i]) => accepted' = accepted
           /\ ~Replayed(cursor, log[i]) => accepted' = Append(accepted, i)
<1>1. /\ spc = "scan" /\ spc' = spc /\ stream.pos < Len(log)
      /\ stream' = [stream EXCEPT !.pos = stream.pos + 1]
      /\ cursor' = Accept(cursor, log[stream.pos + 1])
      /\ UNCHANGED <<log, now, terminated, saying>>
      /\ Replayed(cursor, log[stream.pos + 1]) => accepted' = accepted
      /\ ~Replayed(cursor, log[stream.pos + 1]) => accepted' = Append(accepted, stream.pos + 1)
  BY DEF Scan, container, lines
<1>2. stream.pos \in 0..Len(log) /\ Len(log) \in Nat /\ DOMAIN log = 1..Len(log)
  BY StreamFacts
<1>3. PICK i \in DOMAIN log : i = stream.pos + 1 /\ i - 1 = stream.pos
  BY <1>1, <1>2
<1>4. stream \in [pos : 0..Len(log), whole : BOOLEAN, first : BOOLEAN, open : BOOLEAN]
  BY DEF StreamInv, StreamTypeOK
<1>5. i \in 0..Len(log)
  BY <1>2
<1>6. /\ stream' = [stream EXCEPT !.pos = i] /\ stream'.pos = i
      /\ stream' \in [pos : 0..Len(log), whole : BOOLEAN, first : BOOLEAN, open : BOOLEAN]
  BY <1>1, <1>3, <1>4, <1>5
<1> QED BY <1>1, <1>3, <1>6

LEMMA ReadOne ==
  ASSUME FollowInv, Scan
  PROVE  \E i \in DOMAIN log :
           /\ i = stream.pos + 1 /\ i - 1 = stream.pos /\ spc = "scan" /\ spc' = spc
           /\ stream' = [stream EXCEPT !.pos = i] /\ stream'.pos = i
           /\ stream' \in [pos : 0..Len(log), whole : BOOLEAN, first : BOOLEAN, open : BOOLEAN]
           /\ cursor' = Accept(cursor, log[i])
           /\ UNCHANGED <<log, now, terminated, saying>>
           /\ Replayed(cursor, log[i]) => accepted' = accepted
           /\ ~Replayed(cursor, log[i]) => accepted' = Append(accepted, i)
BY StreamReads DEF FollowInv, StreamInv

\* The cursor's counts are taken from the field's own type.
LEMMA CursorType ==
  ASSUME FollowInv
  PROVE  /\ cursor \in [at : 0..MaxTime, seen : [Texts -> Nat], overlap : [Texts -> Nat]]
         /\ cursor.at \in Nat /\ \A t \in Texts : cursor.seen[t] \in Nat /\ cursor.overlap[t] \in Nat
BY BoundAssumption DEF FollowInv, StreamTypeOK

\* What Accept makes of a cursor, by cases.
LEMMA AcceptOld ==
  ASSUME NEW c, NEW l, l.at < c.at
  PROVE  Replayed(c, l) /\ Accept(c, l) = c
BY DEF Replayed, Accept

LEMMA AcceptCounted ==
  ASSUME NEW c \in [at : Nat, seen : [Texts -> Nat], overlap : [Texts -> Nat]],
         NEW l \in [at : Nat \ {0}, text : Texts], l.at = c.at, c.overlap[l.text] > 0
  PROVE  /\ Replayed(c, l)
         /\ Accept(c, l).at = c.at /\ Accept(c, l).seen = c.seen
         /\ Accept(c, l).overlap = [c.overlap EXCEPT ![l.text] = @ - 1]
         /\ Accept(c, l) \in [at : Nat, seen : [Texts -> Nat], overlap : [Texts -> Nat]]
<1>1. l.at \in Nat \ {0} /\ l.text \in Texts /\ c.at # 0 /\ ~(l.at > c.at) /\ ~(l.at < c.at)
  OBVIOUS
<1>2. Moved(c, l) = c
  BY <1>1 DEF Moved
<1>3. Replayed(c, l)
  BY <1>2 DEF Replayed
<1>4. Accept(c, l) = [c EXCEPT !.overlap[l.text] = @ - 1]
  BY <1>1, <1>2, <1>3 DEF Accept
<1>5. c.overlap[l.text] - 1 \in Nat
  BY <1>1
<1>6. [c.overlap EXCEPT ![l.text] = @ - 1] \in [Texts -> Nat]
  BY <1>1, <1>5
<1> QED BY <1>3, <1>4, <1>6

LEMMA AcceptAgain ==
  ASSUME NEW c \in [at : Nat, seen : [Texts -> Nat], overlap : [Texts -> Nat]],
         NEW l \in [at : Nat \ {0}, text : Texts], l.at = c.at, c.overlap[l.text] = 0
  PROVE  /\ ~Replayed(c, l)
         /\ Accept(c, l).at = c.at /\ Accept(c, l).overlap = c.overlap
         /\ Accept(c, l).seen = [c.seen EXCEPT ![l.text] = @ + 1]
         /\ Accept(c, l) \in [at : Nat, seen : [Texts -> Nat], overlap : [Texts -> Nat]]
<1>1. l.at \in Nat \ {0} /\ l.text \in Texts /\ c.at # 0 /\ ~(l.at > c.at) /\ ~(l.at < c.at)
  OBVIOUS
<1>2. Moved(c, l) = c
  BY <1>1 DEF Moved
<1>3. ~Replayed(c, l)
  BY <1>1, <1>2 DEF Replayed
<1>4. Accept(c, l) = [c EXCEPT !.seen[l.text] = @ + 1]
  BY <1>1, <1>2, <1>3 DEF Accept
<1>5. c.seen[l.text] + 1 \in Nat
  BY <1>1
<1>6. [c.seen EXCEPT ![l.text] = @ + 1] \in [Texts -> Nat]
  BY <1>1, <1>5
<1> QED BY <1>3, <1>4, <1>6

LEMMA AcceptNewer ==
  ASSUME NEW c \in [at : Nat, seen : [Texts -> Nat], overlap : [Texts -> Nat]],
         NEW l \in [at : Nat \ {0}, text : Texts], c.at = 0 \/ l.at > c.at
  PROVE  /\ ~Replayed(c, l)
         /\ Accept(c, l).at = l.at /\ Accept(c, l).overlap = NoCounts
         /\ Accept(c, l).seen = [NoCounts EXCEPT ![l.text] = 1]
         /\ Accept(c, l) \in [at : Nat, seen : [Texts -> Nat], overlap : [Texts -> Nat]]
<1>1. l.at \in Nat \ {0} /\ l.text \in Texts /\ c.at \in Nat /\ ~(l.at < c.at)
  OBVIOUS
<1>2. Moved(c, l) = [at |-> l.at, seen |-> NoCounts, overlap |-> NoCounts]
  BY <1>1 DEF Moved
<1>3. NoCounts \in [Texts -> Nat] /\ NoCounts[l.text] = 0
  BY <1>1 DEF NoCounts
<1>4. ~Replayed(c, l)
  BY <1>1, <1>2, <1>3 DEF Replayed
<1>5. Accept(c, l) = [at |-> l.at, seen |-> [NoCounts EXCEPT ![l.text] = @ + 1], overlap |-> NoCounts]
  BY <1>1, <1>2, <1>4 DEF Accept
<1>6. [NoCounts EXCEPT ![l.text] = @ + 1] = [NoCounts EXCEPT ![l.text] = 1]
  BY <1>3
<1>7. [NoCounts EXCEPT ![l.text] = 1] \in [Texts -> Nat]
  BY <1>3
<1> QED BY <1>1, <1>3, <1>4, <1>5, <1>6, <1>7

\* The lines from first to last that carry the time at and say t.
Counted(first, last, at, t) == {j \in first..last : log[j].at = at /\ log[j].text = t}

LEMMA CountNone ==
  ASSUME NEW p \in Nat, NEW at, NEW t PROVE Cardinality(Counted(p + 1, p, at, t)) = 0
<1>1. Counted(p + 1, p, at, t) = {}
  BY DEF Counted
<1> QED BY <1>1, FS_EmptySet

LEMMA CountNext ==
  ASSUME NEW i \in Nat \ {0}, NEW first \in 1..i, NEW at, NEW t
  PROVE  LET n == Cardinality(Counted(first, i - 1, at, t)) IN
         /\ n \in Nat
         /\ Cardinality(Counted(first, i, at, t)) =
              IF log[i].at = at /\ log[i].text = t THEN n + 1 ELSE n
<1> DEFINE S == Counted(first, i - 1, at, t)
<1>1. S \in SUBSET (1..i) /\ i \notin S /\ i \in 1..i /\ i \in Nat
  BY DEF Counted
<1>2. Counted(first, i, at, t) = IF log[i].at = at /\ log[i].text = t THEN S \cup {i} ELSE S
  BY DEF Counted
<1> HIDE DEF S
<1>3. Cardinality(S) \in Nat
  BY <1>1, SomeLines
<1>4. Cardinality(S \cup {i}) = Cardinality(S) + 1
  BY <1>1, OneMore
<1> QED BY <1>2, <1>3, <1>4 DEF S

LEMMA CountRest ==
  ASSUME NEW i \in Nat \ {0}, NEW last \in Nat, i <= last, NEW at, NEW t
  PROVE  LET n == Cardinality(Counted(i + 1, last, at, t)) IN
         /\ n \in Nat
         /\ Cardinality(Counted(i, last, at, t)) =
              IF log[i].at = at /\ log[i].text = t THEN n + 1 ELSE n
<1> DEFINE S == Counted(i + 1, last, at, t)
<1>1. S \in SUBSET (1..last) /\ i \notin S /\ i \in 1..last
  BY DEF Counted
<1>2. Counted(i, last, at, t) = IF log[i].at = at /\ log[i].text = t THEN S \cup {i} ELSE S
  BY DEF Counted
<1> HIDE DEF S
<1>3. Cardinality(S) \in Nat
  BY <1>1, SomeLines
<1>4. Cardinality(S \cup {i}) = Cardinality(S) + 1
  BY <1>1, OneMore
<1> QED BY <1>2, <1>3, <1>4 DEF S

\* A line newer than all before it is the only one of its time.
LEMMA CountFirst ==
  ASSUME FollowInv, NEW i \in DOMAIN log, \A j \in 1..(i - 1) : log[j].at < log[i].at,
         NEW t \in Texts
  PROVE  Cardinality(Counted(1, i, log[i].at, t)) = [NoCounts EXCEPT ![log[i].text] = 1][t]
<1>1. i \in Nat \ {0} /\ 1 \in 1..i /\ i \in 1..Len(log) /\ Len(log) \in Nat
  BY LogFacts
<1>2. \A j \in 1..(i - 1) : log[j].at # log[i].at
  <2>1. \A j \in 1..(i - 1) : j \in DOMAIN log
    BY <1>1, LogFacts
  <2> QED BY <2>1, LogFacts
<1>3. Counted(1, i - 1, log[i].at, t) = {}
  BY <1>2 DEF Counted
<1>4. Cardinality(Counted(1, i - 1, log[i].at, t)) = 0
  BY <1>3, FS_EmptySet
<1>5. Cardinality(Counted(1, i, log[i].at, t)) = IF log[i].text = t THEN 1 ELSE 0
  BY <1>1, <1>4, CountNext
<1> QED BY <1>5 DEF NoCounts

\* The counts of the cursor in these terms.
LEMMA CursorCounts ==
  ASSUME FollowInv, accepted # <<>>, NEW t \in Texts
  PROVE  /\ cursor.seen[t] = Cardinality(Counted(1, LastTaken, cursor.at, t))
         /\ cursor.overlap[t] = Cardinality(Counted(stream.pos + 1, LastTaken, cursor.at, t))
<1>1. /\ cursor.seen[t] = Cardinality(SameTime(0, t))
      /\ cursor.overlap[t] = Cardinality(SameTime(stream.pos, t))
  BY DEF FollowInv, CursorInv
<1>2. SameTime(0, t) = Counted(1, LastTaken, cursor.at, t)
  BY DEF SameTime, Counted
<1>3. SameTime(stream.pos, t) = Counted(stream.pos + 1, LastTaken, cursor.at, t)
  BY DEF SameTime, Counted
<1> QED BY <1>1, <1>2, <1>3

\* CursorInv once line i was read, from the same counts.
LEMMA ReadFollows ==
  ASSUME FollowInv, UNCHANGED <<log, now, terminated, saying>>, spc' = "scan",
         NEW i \in DOMAIN log, NEW last \in i..Len(log), stream'.pos = i,
         stream' \in [pos : 0..Len(log), whole : BOOLEAN, first : BOOLEAN, open : BOOLEAN],
         cursor' \in [at : Nat, seen : [Texts -> Nat], overlap : [Texts -> Nat]],
         accepted' \in Seq(DOMAIN log), accepted' # <<>>, accepted'[Len(accepted')] = last,
         \A j \in DOMAIN accepted' : accepted'[j] = accepted'[1] + j - 1,
         accepted'[1] \in DOMAIN log, TailWhole(accepted'[1]), cursor'.at = log[last].at,
         \A t \in Texts : /\ cursor'.seen[t] = Cardinality(Counted(1, last, log[last].at, t))
                          /\ cursor'.overlap[t] = Cardinality(Counted(i + 1, last, log[last].at, t))
  PROVE  FollowInv'
<1>1. i \in Nat /\ last \in Nat /\ DOMAIN log = 1..Len(log) /\ i <= last /\ last \in DOMAIN log
  BY LogFacts
<1>2. log[last].at \in 0..MaxTime
  <2>1. log[last].at \in 1..MaxTime
    BY <1>1, LogFacts
  <2> QED BY <2>1, BoundAssumption
<1>3. cursor' \in [at : 0..MaxTime, seen : [Texts -> Nat], overlap : [Texts -> Nat]]
  <2>1. cursor'.at \in 0..MaxTime
    BY <1>2
  <2> QED BY <2>1
<1>4. StreamTypeOK'
  BY <1>3 DEF FollowInv, StreamTypeOK
<1>5. StampsRise'
  BY DEF FollowInv, StampsRise
<1>6. LastTaken' = last
  BY DEF LastTaken
<1> DEFINE at == log[last].at
<1>7. \A t \in Texts : SameTime(0, t)' = Counted(1, last, at, t)
  BY <1>6 DEF SameTime, Counted
<1>8. \A t \in Texts : SameTime(stream.pos, t)' = Counted(i + 1, last, at, t)
  BY <1>6 DEF SameTime, Counted
<1>9. TailWhole(accepted[1])'
  BY DEF TailWhole
<1>10. \A t \in Texts : /\ cursor'.seen[t] = Cardinality(SameTime(0, t)')
                        /\ cursor'.overlap[t] = Cardinality(SameTime(stream.pos, t)')
  BY <1>7, <1>8
<1>11. cursor'.at = log'[LastTaken'].at /\ stream'.pos <= LastTaken'
  BY <1>1, <1>6
<1>12. CursorInv'
  BY <1>9, <1>10, <1>11 DEF CursorInv
<1> QED BY <1>4, <1>5, <1>12 DEF FollowInv

LEMMA StreamCursor ==
  ASSUME StreamInv
  PROVE  cursor \in [at : Nat, seen : [Texts -> Nat], overlap : [Texts -> Nat]]
<1>1. cursor.at \in Nat /\ cursor \in [at : 0..MaxTime, seen : [Texts -> Nat], overlap : [Texts -> Nat]]
  BY BoundAssumption DEF StreamInv, StreamTypeOK
<1> QED BY <1>1

LEMMA CursorNatType ==
  ASSUME FollowInv
  PROVE  cursor \in [at : Nat, seen : [Texts -> Nat], overlap : [Texts -> Nat]]
BY StreamCursor DEF FollowInv, StreamInv

LEMMA StreamLine ==
  ASSUME StreamInv, NEW i \in DOMAIN log
  PROVE  log[i] \in [at : Nat \ {0}, text : Texts] /\ log[i] \in Line
<1>1. log[i] \in Line
  BY DEF StreamInv, StreamTypeOK
<1>2. log[i].at \in Nat \ {0}
  BY StreamFacts
<1> QED BY <1>1, <1>2 DEF Line

LEMMA LineType ==
  ASSUME FollowInv, NEW i \in DOMAIN log
  PROVE  log[i] \in [at : Nat \ {0}, text : Texts]
BY StreamLine DEF FollowInv, StreamInv

\* The first line taken.
LEMMA FirstScanFollows ==
  ASSUME FollowInv, Scan, accepted = <<>> PROVE FollowInv'
<1>1. PICK i \in DOMAIN log :
        /\ i = stream.pos + 1 /\ i - 1 = stream.pos /\ spc' = "scan" /\ stream'.pos = i
        /\ stream' \in [pos : 0..Len(log), whole : BOOLEAN, first : BOOLEAN, open : BOOLEAN]
        /\ cursor' = Accept(cursor, log[i])
        /\ UNCHANGED <<log, now, terminated, saying>>
        /\ ~Replayed(cursor, log[i]) => accepted' = Append(accepted, i)
  BY ReadOne
<1>2. cursor.at = 0 /\ (stream.pos \in 1..(Len(log) - 1) => TailWhole(stream.pos + 1))
  BY DEF FollowInv, CursorInv
<1>3. /\ ~Replayed(cursor, log[i]) /\ cursor'.at = log[i].at /\ cursor'.overlap = NoCounts
      /\ cursor'.seen = [NoCounts EXCEPT ![log[i].text] = 1]
      /\ cursor' \in [at : Nat, seen : [Texts -> Nat], overlap : [Texts -> Nat]]
  BY <1>1, <1>2, CursorNatType, LineType, AcceptNewer
<1>4. /\ accepted' = <<i>> /\ accepted' \in Seq(DOMAIN log) /\ accepted' # <<>>
      /\ accepted'[1] = i /\ accepted'[Len(accepted')] = i /\ DOMAIN accepted' = 1..1
  <2>1. accepted' = <<i>>
    BY <1>1, <1>3
  <2> QED BY <2>1
<1>5. i \in Nat \ {0} /\ i \in 1..Len(log) /\ Len(log) \in Nat /\ stream.pos \in 0..Len(log)
  BY LogFacts
<1>6. TailWhole(i)
  <2>1. CASE i = 1
    BY <2>1 DEF TailWhole
  <2>2. CASE i # 1
    <3>1. stream.pos \in 1..(Len(log) - 1)
      BY <1>1, <1>5, <2>2
    <3> QED BY <1>1, <1>2, <3>1
  <2> QED BY <2>1, <2>2
<1>7. \A j \in 1..(i - 1) : log[j].at < log[i].at
  <2> SUFFICES ASSUME NEW j \in 1..(i - 1) PROVE log[j].at < log[i].at
    OBVIOUS
  <2>1. j \in DOMAIN log /\ i - 1 \in DOMAIN log /\ j <= i - 1 /\ i # 1
    BY <1>5, LogFacts
  <2>2. log[j].at <= log[i - 1].at
    BY <2>1 DEF FollowInv, StampsRise
  <2>3. log[i - 1].at < log[i].at
    BY <1>6, <2>1 DEF TailWhole
  <2> QED BY <2>1, <2>2, <2>3, LogFacts
<1>8. ASSUME NEW t \in Texts
      PROVE  /\ cursor'.seen[t] = Cardinality(Counted(1, i, log[i].at, t))
             /\ cursor'.overlap[t] = Cardinality(Counted(i + 1, i, log[i].at, t))
  <2>1. cursor'.seen[t] = Cardinality(Counted(1, i, log[i].at, t))
    BY <1>3, <1>7, CountFirst
  <2>2. cursor'.overlap[t] = 0
    BY <1>3 DEF NoCounts
  <2> QED BY <1>5, <2>1, <2>2, CountNone
<1>9. \A j \in DOMAIN accepted' : accepted'[j] = accepted'[1] + j - 1
  BY <1>4, <1>5
<1>10. i \in i..Len(log)
  BY <1>5
<1>11. TailWhole(accepted'[1]) /\ accepted'[1] \in DOMAIN log
  BY <1>4, <1>6
<1> QED BY SMTT(30), <1>1, <1>3, <1>4, <1>8, <1>9, <1>10, <1>11, ReadFollows

\* A line behind the last one taken is recognised.
LEMMA ReplayedBehind ==
  ASSUME FollowInv, accepted # <<>>, NEW i \in DOMAIN log, i = stream.pos + 1,
         stream.pos < LastTaken
  PROVE  Replayed(cursor, log[i])
<1>1. PICK last \in DOMAIN log : last = LastTaken
  BY LogFacts
<1>2. i \in Nat \ {0} /\ last \in Nat /\ i <= last
  BY <1>1, LogFacts
<1>3. cursor.at = log[last].at
  BY <1>1 DEF FollowInv, CursorInv
<1>4. log[i].at <= cursor.at /\ log[i].at \in Nat /\ cursor.at \in Nat /\ log[i].text \in Texts
  <2>1. log[i].at <= log[last].at
    BY <1>2 DEF FollowInv, StampsRise
  <2> QED BY <1>3, <2>1, LogFacts
<1>5. CASE log[i].at < cursor.at
  BY <1>5, AcceptOld
<1>6. CASE log[i].at = cursor.at
  <2>1. cursor.overlap[log[i].text] = Cardinality(Counted(i, last, cursor.at, log[i].text))
    BY <1>1, <1>4, CursorCounts
  <2>2. PICK n \in Nat : Cardinality(Counted(i, last, cursor.at, log[i].text)) = n + 1
    <3>1. LET n == Cardinality(Counted(i + 1, last, cursor.at, log[i].text)) IN
          /\ n \in Nat
          /\ Cardinality(Counted(i, last, cursor.at, log[i].text)) =
               IF log[i].at = cursor.at /\ log[i].text = log[i].text THEN n + 1 ELSE n
      BY <1>2, CountRest
    <3> QED BY <1>6, <3>1
  <2>3. cursor.overlap[log[i].text] > 0
    BY <2>1, <2>2
  <2> QED BY <1>6, <2>3, CursorNatType, LineType, AcceptCounted
<1> QED BY <1>4, <1>5, <1>6

\* A line the open stream replays.
LEMMA ReplayScanFollows ==
  ASSUME FollowInv, Scan, accepted # <<>>, stream.pos < LastTaken PROVE FollowInv'
<1>1. PICK i \in DOMAIN log :
        /\ i = stream.pos + 1 /\ i - 1 = stream.pos /\ spc' = "scan" /\ stream'.pos = i
        /\ stream' \in [pos : 0..Len(log), whole : BOOLEAN, first : BOOLEAN, open : BOOLEAN]
        /\ cursor' = Accept(cursor, log[i])
        /\ UNCHANGED <<log, now, terminated, saying>>
        /\ Replayed(cursor, log[i]) => accepted' = accepted
  BY ReadOne
<1>2. PICK last \in DOMAIN log : last = LastTaken
  BY LogFacts
<1>3. i \in Nat \ {0} /\ last \in i..Len(log) /\ Len(log) \in Nat /\ last \in Nat /\ i <= last
  BY <1>1, <1>2, LogFacts
<1>4. /\ \A j \in DOMAIN accepted : accepted[j] = accepted[1] + j - 1
      /\ TailWhole(accepted[1]) /\ cursor.at = log[last].at
  BY <1>2 DEF FollowInv, CursorInv
<1>5. /\ accepted \in Seq(DOMAIN log) /\ accepted[1] \in DOMAIN log
      /\ accepted[Len(accepted)] = last
  BY <1>2, LogFacts DEF FollowInv, StreamTypeOK, LastTaken
<1>6. log[i].at <= cursor.at /\ log[i].at \in Nat /\ cursor.at \in Nat
  BY <1>2, <1>3, <1>4, LogFacts DEF FollowInv, StampsRise
<1>7. \A t \in Texts :
        /\ cursor.seen[t] = Cardinality(Counted(1, last, log[last].at, t))
        /\ cursor.overlap[t] = Cardinality(Counted(i, last, log[last].at, t))
  BY <1>1, <1>2, <1>4, CursorCounts
<1>8. \A t \in Texts : LET n == Cardinality(Counted(i + 1, last, log[last].at, t)) IN
        /\ n \in Nat
        /\ Cardinality(Counted(i, last, log[last].at, t)) =
             IF log[i].at = log[last].at /\ log[i].text = t THEN n + 1 ELSE n
  BY <1>3, CountRest
<1>11. ASSUME accepted' = accepted
       PROVE  /\ accepted' \in Seq(DOMAIN log) /\ accepted' # <<>> /\ accepted'[Len(accepted')] = last
              /\ \A j \in DOMAIN accepted' : accepted'[j] = accepted'[1] + j - 1
              /\ accepted'[1] \in DOMAIN log /\ TailWhole(accepted'[1])
  BY <1>4, <1>5, <1>11
<1>9. CASE log[i].at < cursor.at
  <2>1. Replayed(cursor, log[i]) /\ cursor' = cursor
    BY <1>1, <1>9, AcceptOld
  <2>2. log[i].at # log[last].at
    BY <1>4, <1>6, <1>9
  <2>3. \A t \in Texts :
          /\ cursor'.seen[t] = Cardinality(Counted(1, last, log[last].at, t))
          /\ cursor'.overlap[t] = Cardinality(Counted(i + 1, last, log[last].at, t))
    BY <1>7, <1>8, <2>1, <2>2
  <2>4. cursor' \in [at : Nat, seen : [Texts -> Nat], overlap : [Texts -> Nat]]
    BY <2>1, CursorNatType
  <2>5. accepted' = accepted /\ cursor'.at = log[last].at
    BY <1>1, <1>4, <2>1
  <2> QED BY <1>1, <1>3, <1>11, <2>3, <2>4, <2>5, ReadFollows
<1>10. CASE log[i].at = cursor.at
  <2>1. log[i].text \in Texts /\ cursor.overlap[log[i].text] > 0
    <3>1. log[i].text \in Texts /\ log[i].at = log[last].at
      BY <1>4, <1>10, LogFacts
    <3>2. PICK n \in Nat : cursor.overlap[log[i].text] = n + 1
      BY <1>7, <1>8, <3>1
    <3> QED BY <3>1, <3>2
  <2>2. /\ Replayed(cursor, log[i])
        /\ cursor'.at = cursor.at /\ cursor'.seen = cursor.seen
        /\ cursor'.overlap = [cursor.overlap EXCEPT ![log[i].text] = @ - 1]
        /\ cursor' \in [at : Nat, seen : [Texts -> Nat], overlap : [Texts -> Nat]]
    BY <1>1, <1>10, <2>1, CursorNatType, LineType, AcceptCounted
  <2>3. ASSUME NEW t \in Texts
        PROVE  /\ cursor'.seen[t] = Cardinality(Counted(1, last, log[last].at, t))
               /\ cursor'.overlap[t] = Cardinality(Counted(i + 1, last, log[last].at, t))
    <3>1. PICK n \in Nat : n = Cardinality(Counted(i + 1, last, log[last].at, t))
      BY <1>8
    <3>2. cursor.overlap[t] = IF log[i].text = t THEN n + 1 ELSE n
      BY <1>4, <1>7, <1>8, <1>10, <3>1
    <3>3. cursor'.overlap[t] = IF log[i].text = t THEN cursor.overlap[t] - 1 ELSE cursor.overlap[t]
      <4>1. cursor.overlap \in [Texts -> Nat]
        BY CursorNatType
      <4> QED BY <2>2, <4>1
    <3>4. cursor'.overlap[t] = n
      BY <3>2, <3>3
    <3> QED BY <1>7, <2>2, <3>1, <3>4
  <2>4. accepted' = accepted /\ cursor'.at = log[last].at
    BY <1>1, <1>4, <2>2
  <2> QED BY ZenonT(30), <1>1, <1>3, <1>11, <2>2, <2>3, <2>4, ReadFollows
<1> QED BY <1>6, <1>9, <1>10

\* A line past the cursor.
LEMMA NextScanFollows ==
  ASSUME FollowInv, Scan, accepted # <<>>, stream.pos = LastTaken PROVE FollowInv'
<1>1. PICK i \in DOMAIN log :
        /\ i = stream.pos + 1 /\ i - 1 = stream.pos /\ spc' = "scan" /\ stream'.pos = i
        /\ stream' \in [pos : 0..Len(log), whole : BOOLEAN, first : BOOLEAN, open : BOOLEAN]
        /\ cursor' = Accept(cursor, log[i])
        /\ UNCHANGED <<log, now, terminated, saying>>
        /\ ~Replayed(cursor, log[i]) => accepted' = Append(accepted, i)
  BY ReadOne
<1>2. LastTaken \in DOMAIN log /\ i - 1 = LastTaken /\ LastTaken + 1 = i
  BY <1>1, LogFacts
<1>3. i \in Nat \ {0} /\ i \in i..Len(log) /\ Len(log) \in Nat /\ i - 1 \in DOMAIN log /\ 1 \in 1..i
  BY <1>1, <1>2, LogFacts
<1>4. /\ \A j \in DOMAIN accepted : accepted[j] = accepted[1] + j - 1
      /\ TailWhole(accepted[1]) /\ cursor.at = log[i - 1].at
  BY <1>2 DEF FollowInv, CursorInv
<1>5. accepted \in Seq(DOMAIN log) /\ accepted[1] \in DOMAIN log /\ accepted[Len(accepted)] = i - 1
  BY <1>2, LogFacts DEF FollowInv, StreamTypeOK, LastTaken
<1>6. cursor.at <= log[i].at /\ log[i].at \in Nat /\ cursor.at \in Nat /\ log[i].text \in Texts
  <2>1. log[i].at \in Nat /\ cursor.at \in Nat /\ log[i].text \in Texts
    BY <1>3, <1>4, LogFacts
  <2>2. i - 1 <= i
    BY <1>3
  <2>3. log[i - 1].at <= log[i].at
    BY <1>3, <2>2 DEF FollowInv, StampsRise
  <2> QED BY <1>4, <2>1, <2>3
<1>7. \A t \in Texts : /\ cursor.seen[t] = Cardinality(Counted(1, i - 1, cursor.at, t))
                       /\ cursor.overlap[t] = 0
  <2> SUFFICES ASSUME NEW t \in Texts
               PROVE  /\ cursor.seen[t] = Cardinality(Counted(1, i - 1, cursor.at, t))
                      /\ cursor.overlap[t] = 0
    OBVIOUS
  <2>1. /\ cursor.seen[t] = Cardinality(Counted(1, i - 1, cursor.at, t))
        /\ cursor.overlap[t] = Cardinality(Counted(stream.pos + 1, LastTaken, cursor.at, t))
    BY <1>2, CursorCounts
  <2>2. Cardinality(Counted(stream.pos + 1, LastTaken, cursor.at, t)) = 0
    <3>1. stream.pos \in Nat
      BY LogFacts
    <3> QED BY <3>1, CountNone
  <2> QED BY <2>1, <2>2
<1>8. ASSUME accepted' = Append(accepted, i)
      PROVE  /\ accepted' \in Seq(DOMAIN log) /\ accepted' # <<>> /\ accepted'[Len(accepted')] = i
             /\ accepted'[1] = accepted[1]
             /\ \A j \in DOMAIN accepted' : accepted'[j] = accepted'[1] + j - 1
  <2>1. Len(accepted) \in Nat \ {0} /\ DOMAIN accepted = 1..Len(accepted)
    BY LogFacts
  <2>2. /\ accepted' \in Seq(DOMAIN log) /\ Len(accepted') = Len(accepted) + 1
        /\ accepted'[Len(accepted) + 1] = i
        /\ \A j \in 1..Len(accepted) : accepted'[j] = accepted[j]
    BY <1>5, <1>8
  <2>3. i = accepted[1] + (Len(accepted) + 1) - 1
    <3>1. accepted[Len(accepted)] = accepted[1] + Len(accepted) - 1
      BY <1>4, <2>1
    <3>2. PICK f \in Nat, n \in Nat : f = accepted[1] /\ n = Len(accepted)
      <4>1. accepted[1] \in Nat
        BY <1>5, LogFacts
      <4> QED BY <2>1, <4>1
    <3>3. i - 1 = f + n - 1
      BY <1>5, <3>1, <3>2
    <3>4. i = f + (n + 1) - 1
      BY <1>3, <3>2, <3>3
    <3> QED BY <3>2, <3>4
  <2>4. accepted'[1] = accepted[1]
    BY <2>1, <2>2
  <2>5. ASSUME NEW j \in DOMAIN accepted' PROVE accepted'[j] = accepted'[1] + j - 1
    <3>1. j \in 1..Len(accepted) \/ j = Len(accepted) + 1
      BY <2>1, <2>2
    <3> QED BY <1>4, <2>1, <2>2, <2>3, <2>4, <3>1
  <2> QED BY <2>1, <2>2, <2>4, <2>5
<1>9. CASE log[i].at = cursor.at
  <2>1. /\ ~Replayed(cursor, log[i])
        /\ cursor'.at = cursor.at /\ cursor'.overlap = cursor.overlap
        /\ cursor'.seen = [cursor.seen EXCEPT ![log[i].text] = @ + 1]
        /\ cursor' \in [at : Nat, seen : [Texts -> Nat], overlap : [Texts -> Nat]]
    BY <1>1, <1>6, <1>7, <1>9, CursorNatType, LineType, AcceptAgain
  <2>2. ASSUME NEW t \in Texts
        PROVE  /\ cursor'.seen[t] = Cardinality(Counted(1, i, log[i].at, t))
               /\ cursor'.overlap[t] = Cardinality(Counted(i + 1, i, log[i].at, t))
    <3>1. Cardinality(Counted(i + 1, i, log[i].at, t)) = 0
      BY <1>3, CountNone
    <3>2. PICK n \in Nat : n = Cardinality(Counted(1, i - 1, log[i].at, t))
      BY <1>3, CountNext
    <3>3. Cardinality(Counted(1, i, log[i].at, t)) = IF log[i].text = t THEN n + 1 ELSE n
      BY <1>3, <3>2, CountNext
    <3>4. cursor.seen[t] = n
      BY <1>7, <1>9, <3>2
    <3>5. cursor'.seen[t] = IF log[i].text = t THEN cursor.seen[t] + 1 ELSE cursor.seen[t]
      <4>1. cursor.seen \in [Texts -> Nat]
        BY CursorNatType
      <4> QED BY <2>1, <4>1
    <3> QED BY <1>7, <2>1, <3>1, <3>3, <3>4, <3>5
  <2>3. accepted' = Append(accepted, i) /\ cursor'.at = log[i].at
    BY <1>1, <1>9, <2>1
  <2>4. TailWhole(accepted'[1]) /\ accepted'[1] \in DOMAIN log
    BY <1>4, <1>5, <1>8, <2>3
  <2> QED BY ZenonT(30), <1>1, <1>3, <1>8, <2>1, <2>2, <2>3, <2>4, ReadFollows
<1>10. CASE log[i].at > cursor.at
  <2>1. /\ ~Replayed(cursor, log[i]) /\ cursor'.at = log[i].at /\ cursor'.overlap = NoCounts
        /\ cursor'.seen = [NoCounts EXCEPT ![log[i].text] = 1]
        /\ cursor' \in [at : Nat, seen : [Texts -> Nat], overlap : [Texts -> Nat]]
    BY <1>1, <1>10, CursorNatType, LineType, AcceptNewer
  <2>2. \A j \in 1..(i - 1) : log[j].at < log[i].at
    <3> SUFFICES ASSUME NEW j \in 1..(i - 1) PROVE log[j].at < log[i].at
      OBVIOUS
    <3>1. j \in DOMAIN log /\ j <= i - 1
      BY <1>3, LogFacts
    <3>2. log[j].at <= cursor.at /\ log[j].at \in Nat
      BY <1>3, <1>4, <3>1, LogFacts DEF FollowInv, StampsRise
    <3> QED BY <1>6, <1>10, <3>2
  <2>3. ASSUME NEW t \in Texts
        PROVE  /\ cursor'.seen[t] = Cardinality(Counted(1, i, log[i].at, t))
               /\ cursor'.overlap[t] = Cardinality(Counted(i + 1, i, log[i].at, t))
    <3>1. cursor'.seen[t] = Cardinality(Counted(1, i, log[i].at, t))
      BY <2>1, <2>2, CountFirst
    <3>2. cursor'.overlap[t] = 0
      BY <2>1 DEF NoCounts
    <3> QED BY <1>3, <3>1, <3>2, CountNone
  <2>4. accepted' = Append(accepted, i)
    BY <1>1, <2>1
  <2>5. TailWhole(accepted'[1]) /\ accepted'[1] \in DOMAIN log
    BY <1>4, <1>5, <1>8, <2>4
  <2>6. /\ cursor'.at = log[i].at
        /\ cursor' \in [at : Nat, seen : [Texts -> Nat], overlap : [Texts -> Nat]]
    BY <2>1
  <2>7. /\ accepted' \in Seq(DOMAIN log) /\ accepted' # <<>> /\ accepted'[Len(accepted')] = i
        /\ \A j \in DOMAIN accepted' : accepted'[j] = accepted'[1] + j - 1
    BY <1>8, <2>4
  <2> QED BY <1>1, <1>3, <2>3, <2>5, <2>6, <2>7, ReadFollows
<1> QED BY <1>6, <1>9, <1>10

LEMMA ScanFollows == ASSUME FollowInv, Scan PROVE FollowInv'
<1>1. CASE accepted = <<>>
  BY <1>1, FirstScanFollows
<1>2. CASE accepted # <<>>
  <2>1. stream.pos <= LastTaken
    BY <1>2 DEF FollowInv, CursorInv
  <2>2. stream.pos \in Nat /\ LastTaken \in Nat
    BY <1>2, LogFacts
  <2>3. stream.pos < LastTaken \/ stream.pos = LastTaken
    BY <2>1, <2>2
  <2> QED BY <1>2, <2>3, ReplayScanFollows, NextScanFollows
<1> QED BY <1>1, <1>2

LEMMA ScanEndsFollows ==
  ASSUME FollowInv, NEW isClean, ScanEnds(isClean) PROVE FollowInv'
<1>1. /\ UNCHANGED <<log, now, terminated, saying, stream, cursor, accepted>> /\ spc' = "scanned"
  BY DEF ScanEnds, container, lines
<1>2. terminated \in BOOLEAN /\ saying \in Controls
  BY DEF FollowInv, StreamTypeOK
<1> QED BY <1>1, <1>2, Unmoved

\* Steps of runStream that leave the stream and the cursor alone.
LEMMA QuietFollows ==
  ASSUME FollowInv,
         \/ Skip \/ ReturnCancelled \/ ReturnComplete
         \/ \E complete \in BOOLEAN : LogsComplete(complete)
         \/ Count \/ Say \/ Backoff \/ ReopenFatal
  PROVE  FollowInv'
<1> DEFINE Quiet == /\ UNCHANGED <<log, now, terminated, stream, cursor, accepted>>
                    /\ spc' \in {"scanned", "say", "count", "backoff", "open", "done"}
                    /\ saying' \in Controls
<1>1. terminated \in BOOLEAN /\ saying \in Controls
  BY DEF FollowInv, StreamTypeOK
<1>2. CASE Skip
  BY <1>1, <1>2, Unmoved DEF Skip, container, lines
<1>3. CASE ReturnCancelled \/ ReturnComplete \/ ReopenFatal
  <2>1. Quiet
    BY <1>3 DEF ReturnCancelled, ReturnComplete, ReturnBecause, ReopenFatal, container, lines, Controls
  <2> QED BY <1>1, <2>1, Unmoved
<1>4. ASSUME NEW complete \in BOOLEAN, LogsComplete(complete) PROVE FollowInv'
  <2>1. Quiet
    BY <1>1, <1>4 DEF LogsComplete, container, lines
  <2> QED BY <1>1, <2>1, Unmoved
<1>5. CASE Count
  <2>1. Quiet
    BY <1>5 DEF Count, container, lines, Controls
  <2> QED BY <1>1, <2>1, Unmoved
<1>6. CASE Say
  <2>1. UNCHANGED <<log, now, terminated, stream, cursor, accepted>> /\ spc = "say"
    BY <1>6 DEF Say, container
  <2>2. CASE saying = "reconnecting"
    BY <1>1, <1>6, <2>1, <2>2, Unmoved DEF Say
  <2>3. CASE saying = "err"
    <3>1. spc' = "say" /\ saying' = "eos"
      BY <1>6, <2>1, <2>3 DEF Say
    <3> QED BY <1>1, <2>1, <3>1, Unmoved DEF Controls
  <2>4. CASE saying = "eos"
    <3>1. spc' = "done" /\ saying' = "eos"
      BY <1>6, <2>4 DEF Say
    <3> QED BY <1>1, <2>1, <3>1, Unmoved DEF Controls
  <2> QED BY <1>1, <2>2, <2>3, <2>4 DEF Controls
<1>7. CASE Backoff
  BY <1>1, <1>7, Unmoved DEF Backoff, container, locals, lines
<1> QED BY <1>2, <1>3, <1>4, <1>5, <1>6, <1>7

\* Steps of the others that leave the log alone.
LEMMA OthersFollow ==
  ASSUME FollowInv, Terminate \/ Cancel \/ ForwardLogs \/ UNCHANGED streamVars PROVE FollowInv'
<1>1. UNCHANGED <<log, now, spc, saying, stream, cursor, accepted>>
      /\ terminated' \in {terminated, TRUE}
  BY DEF Terminate, Cancel, ForwardLogs, ReceiveLine, ReceiveControl, FlushTimer, OutClosed,
         streamVars, container, streamer, locals, lines
<1>2. terminated \in BOOLEAN /\ saying \in Controls
      /\ spc \in {"start", "scan", "scanned", "count", "say", "backoff", "open", "done"}
  BY DEF FollowInv, StreamTypeOK
<1> QED BY <1>1, <1>2, Unmoved

LEMMA FollowStep ==
  ASSUME ~TailSplitsTie, FollowInv, [StreamNext]_streamVars PROVE FollowInv'
<1>1. ASSUME NEW text \in Texts, Write(text) PROVE FollowInv'
  BY <1>1, WriteFollows
<1>2. CASE Tick
  BY <1>2, TickFollows
<1>3. ASSUME NEW pos \in 0..MaxLines, Start(pos) PROVE FollowInv'
  BY <1>3, StartFollows
<1>4. ASSUME NEW isClean \in BOOLEAN, Break(isClean) PROVE FollowInv'
  BY <1>4, ScanEndsFollows DEF Break
<1>5. CASE Scan
  BY <1>5, ScanFollows
<1>6. CASE LogEnds \/ Interrupt
  BY <1>6, ScanEndsFollows DEF LogEnds, Interrupt
<1>7. ASSUME NEW since \in 1..MaxTime, Reopen(since) PROVE FollowInv'
  BY <1>7, ReopenFollows
<1>8. CASE ReopenFails
  BY <1>8, ReopenFailsFollows
<1>9. CASE \/ Skip \/ ReturnCancelled \/ ReturnComplete
           \/ \E complete \in BOOLEAN : LogsComplete(complete)
           \/ Count \/ Say \/ Backoff \/ ReopenFatal
  BY <1>9, QuietFollows
<1>10. CASE Terminate \/ Cancel \/ ForwardLogs \/ UNCHANGED streamVars
  BY <1>10, OthersFollow
<1> QED BY <1>1, <1>2, <1>3, <1>4, <1>5, <1>6, <1>7, <1>8, <1>9, <1>10 DEF StreamNext, Run

\* When the tail begins between two time stamps, what the cursor has counted is
\* what a reopened stream replays, and what was taken is one piece of the log
\* (logCursor in logstream.go).
THEOREM FollowInvariance == ~TailSplitsTie => (StreamSpec => []FollowInv)
<1> SUFFICES ASSUME ~TailSplitsTie PROVE StreamSpec => []FollowInv
  OBVIOUS
<1>1. FollowInv /\ [StreamNext]_streamVars => FollowInv'
  BY FollowStep
<1> QED BY FollowInitially, <1>1, PTL DEF StreamSpec

-----------------------------------------------------------------------------
(* The lines taken, wherever the tail began.                               *)

\* What a step does to the log, the stream and what was taken.
StreamRests ==
  /\ UNCHANGED <<log, stream, cursor, accepted>> /\ now' \in 1..MaxTime /\ now <= now'
  /\ spc' = "start" => spc = "start"

StreamLoops ==
  /\ UNCHANGED <<log, now, accepted>> /\ cursor' = BeginStream(cursor) /\ spc' # "start"
  /\ stream' \in [pos : 0..Len(log), whole : BOOLEAN, first : BOOLEAN, open : BOOLEAN]
  /\ cursor.at # 0 => \A i \in 1..stream'.pos : log[i].at < cursor.at

LEMMA StreamMoves ==
  ASSUME StreamInv, [StreamNext]_streamVars
  PROVE  \/ StreamRests \/ StreamLoops \/ Scan
         \/ \E text \in Texts : Write(text)
         \/ \E pos \in 0..MaxLines : Start(pos)
<1>1. now \in 1..MaxTime /\ now \in Nat /\ MaxTime \in Nat
  BY BoundAssumption DEF StreamInv, StreamTypeOK
<1>2. CASE \/ Terminate \/ Cancel \/ ForwardLogs \/ UNCHANGED streamVars
  <2>1. UNCHANGED <<log, now, stream, cursor, accepted, spc>>
    BY <1>2 DEF Terminate, Cancel, ForwardLogs, ReceiveLine, ReceiveControl, FlushTimer, OutClosed,
                streamVars, container, streamer, locals, lines
  <2> QED BY <1>1, <2>1 DEF StreamRests
<1>3. CASE Tick
  BY <1>1, <1>3 DEF Tick, streamer, locals, lines, StreamRests
<1>4. CASE \/ \E isClean \in BOOLEAN : Break(isClean)
           \/ LogEnds \/ Interrupt \/ Skip \/ Backoff
           \/ \E complete \in BOOLEAN : LogsComplete(complete)
  <2>1. UNCHANGED <<log, now, stream, cursor, accepted>> /\ spc' # "start"
    BY <1>4 DEF Break, ScanEnds, LogEnds, Interrupt, Skip, Backoff, LogsComplete, container, locals, lines
  <2> QED BY <1>1, <2>1 DEF StreamRests
<1>5. CASE ReturnCancelled \/ ReturnComplete \/ Count \/ ReopenFatal
  <2>1. UNCHANGED <<log, now, stream, cursor, accepted>> /\ spc' # "start"
    BY <1>5 DEF ReturnCancelled, ReturnComplete, ReturnBecause, Count, ReopenFatal, container, lines
  <2> QED BY <1>1, <2>1 DEF StreamRests
<1>6. CASE Say
  <2>1. UNCHANGED <<log, now, stream, cursor, accepted>> /\ spc = "say"
    BY <1>6 DEF Say, container
  <2>2. saying \in {"reconnecting", "err", "eos"}
    BY DEF StreamInv, StreamTypeOK, Controls
  <2>3. spc' # "start"
    BY <1>6, <2>1, <2>2 DEF Say
  <2> QED BY <1>1, <2>1, <2>3 DEF StreamRests
<1>7. ASSUME NEW since \in 1..MaxTime, Reopen(since) PROVE StreamLoops
  <2> DEFINE pos == Cardinality({i \in DOMAIN log : log[i].at < since})
  <2>1. /\ since <= (IF cursor.at = 0 THEN now ELSE cursor.at)
        /\ stream' = [pos |-> pos, whole |-> terminated, first |-> FALSE, open |-> TRUE]
        /\ UNCHANGED <<log, now, accepted>> /\ cursor' = BeginStream(cursor) /\ spc' = "scan"
    BY <1>7 DEF Reopen, Opened, Loop, container, lines
  <2>2. /\ pos \in 0..Len(log) /\ terminated \in BOOLEAN
        /\ \A i \in 1..pos : log[i].at < since
    BY OlderLines DEF StreamInv, StreamTypeOK
  <2> HIDE DEF pos
  <2>3. stream' \in [pos : 0..Len(log), whole : BOOLEAN, first : BOOLEAN, open : BOOLEAN]
        /\ stream'.pos = pos
    BY <2>1, <2>2
  <2>4. ASSUME cursor.at # 0, NEW i \in 1..pos PROVE log[i].at < cursor.at
    <3>1. since <= cursor.at /\ log[i].at < since /\ i \in DOMAIN log
      BY <2>1, <2>2, <2>4, StreamFacts
    <3>2. since \in Nat /\ cursor.at \in Nat /\ log[i].at \in Nat
      BY <1>1, <3>1, StreamFacts, StreamCursor
    <3> QED BY <3>1, <3>2
  <2> QED BY <2>1, <2>3, <2>4 DEF StreamLoops
<1>8. CASE ReopenFails
  <2>1. /\ stream' = NoStream /\ UNCHANGED <<log, now, accepted>>
        /\ cursor' = BeginStream(cursor) /\ spc' = "scan"
    BY <1>8 DEF ReopenFails, Loop, container, lines
  <2>2. 0 \in 0..Len(log) /\ \A i \in 1..0 : FALSE
    BY StreamFacts
  <2>3. /\ stream'.pos = 0
        /\ stream' \in [pos : 0..Len(log), whole : BOOLEAN, first : BOOLEAN, open : BOOLEAN]
    BY <2>1, <2>2 DEF NoStream
  <2> QED BY <2>1, <2>2, <2>3 DEF StreamLoops
<1> QED BY <1>2, <1>3, <1>4, <1>5, <1>6, <1>7, <1>8 DEF StreamNext, Run

\* The locals that have a type of their own.
LEMMA StreamTypes ==
  ASSUME StreamInv, [StreamNext]_streamVars
  PROVE  /\ terminated' \in BOOLEAN /\ saying' \in Controls
         /\ spc' \in {"start", "scan", "scanned", "count", "say", "backoff", "open", "done"}
<1>1. /\ terminated \in BOOLEAN /\ saying \in Controls
      /\ spc \in {"start", "scan", "scanned", "count", "say", "backoff", "open", "done"}
  BY DEF StreamInv, StreamTypeOK
<1>2. CASE \/ \E text \in Texts : Write(text)
           \/ Tick \/ Terminate \/ Cancel \/ ForwardLogs \/ UNCHANGED streamVars
  BY <1>1, <1>2 DEF Write, Tick, Terminate, Cancel, ForwardLogs, ReceiveLine, ReceiveControl,
                    FlushTimer, OutClosed, streamVars, streamer, locals, container
<1>3. CASE \/ \E pos \in 0..MaxLines : Start(pos)
           \/ \E isClean \in BOOLEAN : Break(isClean)
           \/ Scan \/ LogEnds \/ Interrupt
  BY <1>1, <1>3 DEF Start, Break, ScanEnds, Scan, LogEnds, Interrupt, locals, container
<1>4. CASE \/ Skip \/ Backoff
           \/ \E complete \in BOOLEAN : LogsComplete(complete)
           \/ \E since \in 1..MaxTime : Reopen(since)
           \/ ReopenFails
  BY <1>1, <1>4 DEF Skip, LogsComplete, Backoff, Reopen, ReopenFails, Loop, locals, container
<1>5. CASE ReturnCancelled \/ ReturnComplete \/ Count \/ ReopenFatal
  BY <1>1, <1>5 DEF ReturnCancelled, ReturnComplete, ReturnBecause, Count, ReopenFatal, Controls, container
<1>6. CASE Say
  BY <1>1, <1>6 DEF Say, Controls, container
<1> QED BY <1>2, <1>3, <1>4, <1>5, <1>6 DEF StreamNext, Run

\* The four ways a line can be read.
LEMMA StreamAccepts ==
  ASSUME StreamInv, NEW i \in DOMAIN log
  PROVE  /\ Accept(cursor, log[i]) \in [at : 0..MaxTime, seen : [Texts -> Nat], overlap : [Texts -> Nat]]
         /\ log[i].at < cursor.at \/ log[i].at = cursor.at \/ log[i].at > cursor.at
         /\ log[i].at < cursor.at => Replayed(cursor, log[i]) /\ Accept(cursor, log[i]) = cursor
         /\ log[i].at = cursor.at /\ cursor.overlap[log[i].text] > 0 =>
              /\ Replayed(cursor, log[i])
              /\ Accept(cursor, log[i]).at = cursor.at /\ Accept(cursor, log[i]).seen = cursor.seen
              /\ Accept(cursor, log[i]).overlap = [cursor.overlap EXCEPT ![log[i].text] = @ - 1]
         /\ log[i].at = cursor.at /\ cursor.overlap[log[i].text] = 0 =>
              /\ ~Replayed(cursor, log[i])
              /\ Accept(cursor, log[i]).at = cursor.at /\ Accept(cursor, log[i]).overlap = cursor.overlap
              /\ Accept(cursor, log[i]).seen = [cursor.seen EXCEPT ![log[i].text] = @ + 1]
         /\ log[i].at > cursor.at =>
              /\ ~Replayed(cursor, log[i])
              /\ Accept(cursor, log[i]).at = log[i].at /\ Accept(cursor, log[i]).overlap = NoCounts
              /\ Accept(cursor, log[i]).seen = [NoCounts EXCEPT ![log[i].text] = 1]
<1> DEFINE c == cursor
           l == log[i]
<1>1. c \in [at : Nat, seen : [Texts -> Nat], overlap : [Texts -> Nat]] /\ c.at \in 0..MaxTime
  BY StreamCursor DEF StreamInv, StreamTypeOK
<1>2. l \in [at : Nat \ {0}, text : Texts] /\ l.at \in 1..MaxTime
  BY StreamLine, StreamFacts
<1>3. MaxTime \in Nat
  BY BoundAssumption
<1> HIDE DEF c, l
<1>4. c.overlap[l.text] \in Nat
  BY <1>1, <1>2
<1>5. CASE l.at < c.at
  <2>1. Replayed(c, l) /\ Accept(c, l) = c
    BY <1>5, AcceptOld
  <2> QED BY <1>1, <1>2, <1>5, <2>1 DEF c, l
<1>6. CASE l.at = c.at /\ c.overlap[l.text] > 0
  <2>1. /\ Replayed(c, l)
        /\ Accept(c, l).at = c.at /\ Accept(c, l).seen = c.seen
        /\ Accept(c, l).overlap = [c.overlap EXCEPT ![l.text] = @ - 1]
        /\ Accept(c, l) \in [at : Nat, seen : [Texts -> Nat], overlap : [Texts -> Nat]]
    BY <1>1, <1>2, <1>6, AcceptCounted
  <2>2. Accept(c, l) \in [at : 0..MaxTime, seen : [Texts -> Nat], overlap : [Texts -> Nat]]
    BY <1>1, <2>1
  <2>3. ~(l.at < c.at) /\ ~(l.at > c.at) /\ c.overlap[l.text] # 0
    BY <1>1, <1>2, <1>6
  <2> QED BY <1>6, <2>1, <2>2, <2>3 DEF c, l
<1>7. CASE l.at = c.at /\ c.overlap[l.text] = 0
  <2>1. /\ ~Replayed(c, l)
        /\ Accept(c, l).at = c.at /\ Accept(c, l).overlap = c.overlap
        /\ Accept(c, l).seen = [c.seen EXCEPT ![l.text] = @ + 1]
        /\ Accept(c, l) \in [at : Nat, seen : [Texts -> Nat], overlap : [Texts -> Nat]]
    BY <1>1, <1>2, <1>7, AcceptAgain
  <2>2. Accept(c, l) \in [at : 0..MaxTime, seen : [Texts -> Nat], overlap : [Texts -> Nat]]
    BY <1>1, <2>1
  <2>3. ~(l.at < c.at) /\ ~(l.at > c.at) /\ ~(c.overlap[l.text] > 0)
    BY <1>1, <1>2, <1>7
  <2> QED BY <1>7, <2>1, <2>2, <2>3 DEF c, l
<1>8. CASE l.at > c.at
  <2>1. /\ ~Replayed(c, l)
        /\ Accept(c, l).at = l.at /\ Accept(c, l).overlap = NoCounts
        /\ Accept(c, l).seen = [NoCounts EXCEPT ![l.text] = 1]
        /\ Accept(c, l) \in [at : Nat, seen : [Texts -> Nat], overlap : [Texts -> Nat]]
    BY <1>1, <1>2, <1>8, AcceptNewer
  <2>2. l.at \in 0..MaxTime /\ ~(l.at < c.at) /\ l.at # c.at
    BY <1>1, <1>2, <1>3, <1>8
  <2>3. Accept(c, l) \in [at : 0..MaxTime, seen : [Texts -> Nat], overlap : [Texts -> Nat]]
    BY <2>1, <2>2
  <2> QED BY <1>8, <2>1, <2>2, <2>3 DEF c, l
<1> QED BY <1>1, <1>2, <1>4, <1>5, <1>6, <1>7, <1>8

\* The stamps rise over what is written, and every position read is one of the log.
LEMMA StreamStep ==
  ASSUME StreamInv, [StreamNext]_streamVars PROVE StreamInv'
<1> DEFINE Streams(l) == [pos : 0..Len(l), whole : BOOLEAN, first : BOOLEAN, open : BOOLEAN]
           Cursors == [at : 0..MaxTime, seen : [Texts -> Nat], overlap : [Texts -> Nat]]
<1>1. /\ terminated' \in BOOLEAN /\ saying' \in Controls
      /\ spc' \in {"start", "scan", "scanned", "count", "say", "backoff", "open", "done"}
  BY StreamTypes
<1>2. /\ log \in Seq(Line) /\ Len(log) <= MaxLines /\ now \in 1..MaxTime /\ stream \in Streams(log)
      /\ cursor \in Cursors /\ accepted \in Seq(DOMAIN log) /\ MaxLines \in Nat /\ MaxTime \in Nat \ {0}
      /\ Len(log) \in Nat /\ DOMAIN log = 1..Len(log) /\ terminated \in BOOLEAN
  BY BoundAssumption DEF StreamInv, StreamTypeOK
<1>3. CASE StreamRests
  <2>1. StreamTypeOK'
    BY <1>1, <1>2, <1>3 DEF StreamRests, StreamTypeOK
  <2>2. \A i \in DOMAIN log : log[i].at <= now /\ log[i].at \in Nat /\ now \in Nat /\ now' \in Nat
    BY <1>2, <1>3, StreamFacts DEF StreamInv, StampsRise, StreamRests
  <2>3. StampsRise'
    BY <1>3, <2>2 DEF StreamRests, StreamInv, StampsRise
  <2> QED BY <2>1, <2>3 DEF StreamInv
<1>4. CASE StreamLoops
  <2>1. cursor' \in Cursors
    BY <1>2, <1>4 DEF StreamLoops, BeginStream
  <2>2. StreamTypeOK'
    BY <1>1, <1>2, <1>4, <2>1 DEF StreamLoops, StreamTypeOK
  <2>3. StampsRise'
    BY <1>4 DEF StreamLoops, StreamInv, StampsRise
  <2> QED BY <2>2, <2>3 DEF StreamInv
<1>5. ASSUME NEW text \in Texts, Write(text) PROVE StreamInv'
  <2> DEFINE l == [at |-> now, text |-> text]
  <2>1. /\ Len(log) < MaxLines /\ log' = Append(log, l) /\ UNCHANGED <<now, stream, cursor, accepted>>
    BY <1>5 DEF Write, streamer, lines, locals
  <2>2. l \in Line /\ l.at = now
    BY <1>2 DEF Line
  <2> HIDE DEF l
  <2>3. /\ log' \in Seq(Line) /\ Len(log') = Len(log) + 1 /\ log'[Len(log) + 1] = l
        /\ \A i \in 1..Len(log) : log'[i] = log[i]
        /\ DOMAIN log' = 1..(Len(log) + 1)
    BY <1>2, <2>1, <2>2
  <2>4. accepted' \in Seq(DOMAIN log')
    <3>1. Seq(DOMAIN log) \subseteq Seq(DOMAIN log')
      BY <1>2, <2>3
    <3> QED BY <1>2, <2>1, <3>1
  <2>5. stream' \in Streams(log')
    <3>1. 0..Len(log) \subseteq 0..Len(log')
      BY <1>2, <2>3
    <3> QED BY <1>2, <2>1, <3>1
  <2>6. StreamTypeOK'
    BY <1>1, <1>2, <2>1, <2>3, <2>4, <2>5 DEF StreamTypeOK
  <2>7. StampsRise'
    BY SMTT(20), <1>2, <2>1, <2>2, <2>3, StreamFacts DEF StreamInv, StampsRise
  <2> QED BY <2>6, <2>7 DEF StreamInv
<1>6. ASSUME NEW pos \in 0..MaxLines, Start(pos) PROVE StreamInv'
  <2>1. /\ pos = 0 \/ pos < Len(log)
        /\ stream' = [pos |-> pos, whole |-> terminated, first |-> TRUE, open |-> TRUE]
        /\ UNCHANGED <<log, now, cursor, accepted>>
    BY <1>6 DEF Start, Opened, container, locals, lines
  <2>2. stream' \in Streams(log)
    <3>1. pos \in 0..Len(log)
      BY <1>2, <2>1
    <3> QED BY <1>2, <2>1, <3>1
  <2>3. StreamTypeOK'
    BY <1>1, <1>2, <2>1, <2>2 DEF StreamTypeOK
  <2>4. StampsRise'
    BY <2>1 DEF StreamInv, StampsRise
  <2> QED BY <2>3, <2>4 DEF StreamInv
<1>7. CASE Scan
  <2>1. PICK i \in DOMAIN log :
          /\ stream' \in Streams(log) /\ cursor' = Accept(cursor, log[i])
          /\ UNCHANGED <<log, now>>
          /\ accepted' = accepted \/ accepted' = Append(accepted, i)
    BY <1>7, StreamReads
  <2>2. accepted' \in Seq(DOMAIN log)
    <3>1. Append(accepted, i) \in Seq(DOMAIN log)
      BY <1>2
    <3> QED BY <1>2, <2>1, <3>1
  <2>3. cursor' \in Cursors
    BY <2>1, StreamAccepts
  <2>4. StreamTypeOK'
    BY <1>1, <1>2, <2>1, <2>2, <2>3 DEF StreamTypeOK
  <2>5. StampsRise'
    BY <2>1 DEF StreamInv, StampsRise
  <2> QED BY <2>4, <2>5 DEF StreamInv
<1> QED BY <1>3, <1>4, <1>5, <1>6, <1>7, StreamMoves

\* Counting the copies of a line in a piece of the log.
LEMMA CopiesType ==
  ASSUME NEW l, NEW first \in Nat \ {0}, NEW last \in Nat
  PROVE  Copies(l, first, last) \in Nat
<1>1. {n \in first..last : log[n] = l} \in SUBSET (1..last)
  OBVIOUS
<1> QED BY <1>1, SomeLines DEF Copies

LEMMA CopiesNext ==
  ASSUME NEW l, NEW first \in Nat \ {0}, NEW i \in Nat \ {0}
  PROVE  Copies(l, first, i) = IF first <= i /\ log[i] = l THEN Copies(l, first, i - 1) + 1
                                                          ELSE Copies(l, first, i - 1)
<1> DEFINE S == {n \in first..(i - 1) : log[n] = l}
<1>1. S \in SUBSET (1..i) /\ i \notin S /\ i \in 1..i /\ i \in Nat
  OBVIOUS
<1>2. {n \in first..i : log[n] = l} = IF first <= i /\ log[i] = l THEN S \cup {i} ELSE S
  <2>1. \A n \in Int : n \in first..i <=> n \in first..(i - 1) \/ (n = i /\ first <= i)
    OBVIOUS
  <2>2. CASE first <= i /\ log[i] = l
    BY <2>1, <2>2
  <2>3. CASE ~(first <= i /\ log[i] = l)
    BY <2>1, <2>3
  <2> QED BY <2>2, <2>3
<1> HIDE DEF S
<1>3. Cardinality(S \cup {i}) = Cardinality(S) + 1
  BY <1>1, OneMore
<1>4. Copies(l, first, i - 1) = Cardinality(S)
  BY DEF Copies, S
<1>5. Copies(l, first, i) = Cardinality({n \in first..i : log[n] = l})
  BY DEF Copies
<1>6. CASE first <= i /\ log[i] = l
  BY <1>2, <1>3, <1>4, <1>5, <1>6
<1>7. CASE ~(first <= i /\ log[i] = l)
  BY <1>2, <1>4, <1>5, <1>7
<1> QED BY <1>6, <1>7

LEMMA CopiesMore ==
  ASSUME NEW l, NEW first \in Nat \ {0}, NEW last \in Nat, NEW n \in Nat, last <= n
  PROVE  Copies(l, first, last) <= Copies(l, 1, n)
<1> DEFINE S == {k \in first..last : log[k] = l}
           T == {k \in 1..n : log[k] = l}
<1>1. S \subseteq T /\ T \in SUBSET (1..n)
  OBVIOUS
<1> HIDE DEF S, T
<1>2. IsFiniteSet(T)
  BY <1>1, SomeLines
<1>3. Cardinality(S) <= Cardinality(T)
  BY <1>1, <1>2, FS_Subset
<1> QED BY <1>3 DEF Copies, S, T

\* Lines that are not it do not count.
LEMMA CopiesSame ==
  ASSUME NEW l, NEW first \in Nat \ {0}, NEW p \in Nat, NEW n \in Nat, p <= n,
         \A k \in (p + 1)..n : log[k] # l
  PROVE  Copies(l, first, n) = Copies(l, first, p)
<1>1. \A k \in first..n : log[k] = l => k \in first..p
  OBVIOUS
<1>2. first..p \subseteq first..n
  OBVIOUS
<1>3. {k \in first..n : log[k] = l} = {k \in first..p : log[k] = l}
  BY <1>1, <1>2
<1> QED BY <1>3 DEF Copies

LEMMA CopiesNone ==
  ASSUME NEW l, NEW first \in Nat \ {0}, NEW last \in Nat, \A k \in first..last : log[k] # l
  PROVE  Copies(l, first, last) = 0
<1>1. {k \in first..last : log[k] = l} = {}
  OBVIOUS
<1> QED BY <1>1, FS_EmptySet DEF Copies

\* Counting how often it was taken.
LEMMA TakenType == ASSUME StreamInv, NEW l PROVE TimesTaken(l) \in Nat
<1>1. Len(accepted) \in Nat /\ {j \in DOMAIN accepted : log[accepted[j]] = l} \in SUBSET (1..Len(accepted))
  BY StreamFacts
<1> QED BY <1>1, SomeLines DEF TimesTaken

LEMMA TakenNext ==
  ASSUME StreamInv, NEW i \in DOMAIN log, accepted' = Append(accepted, i), log' = log, NEW l
  PROVE  TimesTaken(l)' = IF log[i] = l THEN TimesTaken(l) + 1 ELSE TimesTaken(l)
<1> DEFINE S == {j \in DOMAIN accepted : log[accepted[j]] = l}
           n == Len(accepted) + 1
<1>1. /\ Len(accepted) \in Nat /\ DOMAIN accepted = 1..Len(accepted)
      /\ accepted \in Seq(DOMAIN log)
  BY StreamFacts DEF StreamInv, StreamTypeOK
<1>2. /\ DOMAIN accepted' = 1..n /\ accepted'[n] = i
      /\ \A j \in 1..Len(accepted) : accepted'[j] = accepted[j]
  BY <1>1
<1>3. S \in SUBSET (1..n) /\ n \notin S /\ n \in 1..n /\ n \in Nat
  BY <1>1
<1>4. {j \in DOMAIN accepted' : log[accepted'[j]] = l} = IF log[i] = l THEN S \cup {n} ELSE S
  <2>1. \A j : j \in 1..n <=> j \in 1..Len(accepted) \/ j = n
    BY <1>1
  <2>2. CASE log[i] = l
    BY <1>1, <1>2, <2>1, <2>2
  <2>3. CASE log[i] # l
    BY <1>1, <1>2, <2>1, <2>3
  <2> QED BY <2>2, <2>3
<1> HIDE DEF S, n
<1>5. Cardinality(S \cup {n}) = Cardinality(S) + 1
  BY <1>3, OneMore
<1>6. TimesTaken(l)' = Cardinality({j \in DOMAIN accepted' : log[accepted'[j]] = l})
  BY DEF TimesTaken
<1>7. TimesTaken(l) = Cardinality(S)
  BY DEF TimesTaken, S
<1> QED BY <1>4, <1>5, <1>6, <1>7

\* What is known of the lines once one was taken.
LEMMA TakenFacts ==
  ASSUME AnyTailInv, accepted # <<>>
  PROVE  /\ StreamInv /\ Len(log) \in Nat /\ DOMAIN log = 1..Len(log)
         /\ accepted[1] \in Nat \ {0} /\ accepted[1] \in DOMAIN log /\ stream.pos \in 0..Len(log)
         /\ stream.pos \in Nat /\ cursor.at \in Nat \ {0}
         /\ cursor.at = log[LastTaken].at /\ LastTaken \in DOMAIN log
         /\ cursor.seen \in [Texts -> Nat] /\ cursor.overlap \in [Texts -> Nat]
         /\ \A i \in DOMAIN log : log[i].at \in Nat \ {0} /\ (i <= stream.pos => log[i].at <= cursor.at)
         /\ \A j \in DOMAIN accepted : accepted[j] \in DOMAIN log /\ log[accepted[j]].at <= cursor.at
         /\ cursor.at <= now /\ now \in Nat
<1>1. /\ StreamInv /\ Len(log) \in Nat /\ DOMAIN log = 1..Len(log) /\ stream.pos \in 0..Len(log)
      /\ accepted[1] \in DOMAIN log /\ LastTaken \in DOMAIN log /\ now \in Nat
      /\ \A i \in DOMAIN log : log[i].at \in Nat \ {0}
  BY StreamFacts DEF AnyTailInv, StreamInv
<1>2. /\ cursor.at = log[LastTaken].at /\ StampsKept
      /\ stream.pos # 0 => log[stream.pos].at <= cursor.at
  BY DEF AnyTailInv, TakenInv
<1>3. cursor.seen \in [Texts -> Nat] /\ cursor.overlap \in [Texts -> Nat] /\ cursor.at \in Nat \ {0}
  BY <1>1, <1>2, StreamCursor
<1>4. ASSUME NEW i \in DOMAIN log, i <= stream.pos PROVE log[i].at <= cursor.at
  <2>1. stream.pos \in DOMAIN log /\ stream.pos # 0
    BY <1>1, <1>4
  <2>2. log[i].at <= log[stream.pos].at
    BY <1>4, <2>1 DEF AnyTailInv, StampsRise
  <2> QED BY <1>1, <1>2, <1>3, <2>1, <2>2
<1>5. ASSUME NEW j \in DOMAIN accepted PROVE accepted[j] \in DOMAIN log /\ log[accepted[j]].at <= cursor.at
  <2>1. accepted \in Seq(DOMAIN log) /\ DOMAIN accepted = 1..Len(accepted) /\ Len(accepted) \in Nat
        /\ Len(accepted) \in DOMAIN accepted
    BY <1>1, StreamFacts DEF StreamInv, StreamTypeOK
  <2>2. accepted[j] \in DOMAIN log /\ j <= Len(accepted)
    BY <2>1
  <2>3. log[accepted[j]].at <= log[accepted[Len(accepted)]].at
    BY <1>2, <2>1, <2>2 DEF StampsKept
  <2> QED BY <1>2, <2>2, <2>3 DEF LastTaken
<1>6. log[LastTaken].at <= now
  BY <1>1 DEF StreamInv, StampsRise
<1> QED BY <1>1, <1>2, <1>3, <1>4, <1>5, <1>6

LEMMA TakenInitially == StreamInit => AnyTailInv
<1> SUFFICES ASSUME StreamInit PROVE AnyTailInv
  OBVIOUS
<1>1. StreamTypeOK /\ StampsRise
  BY FollowInitially DEF FollowInv
<1>2. TakenInv
  BY DEF StreamInit, TakenInv
<1> QED BY <1>1, <1>2 DEF AnyTailInv

LEMMA RestsTaken == ASSUME AnyTailInv, StreamRests PROVE TakenInv'
<1>1. UNCHANGED <<log, stream, cursor, accepted>> /\ (spc' = "start" => spc = "start")
  BY DEF StreamRests
<1>2. \A l \in Line : CountedInv(l)' = CountedInv(l)
  BY <1>1 DEF CountedInv, Copies, TimesTaken
<1>3. StampsKept' = StampsKept /\ LastTaken' = LastTaken
  BY <1>1 DEF StampsKept, LastTaken
<1> QED BY <1>1, <1>2, <1>3 DEF AnyTailInv, TakenInv

\* A stream that begins before the cursor's time has read none of what was counted.
LEMMA LoopsTaken == ASSUME AnyTailInv, StreamLoops PROVE TakenInv'
<1>1. /\ UNCHANGED <<log, accepted>> /\ cursor' = BeginStream(cursor) /\ spc' # "start"
      /\ stream'.pos \in 0..Len(log)
      /\ cursor.at # 0 => \A i \in 1..stream'.pos : log[i].at < cursor.at
  BY DEF StreamLoops
<1>2. cursor \in [at : Nat, seen : [Texts -> Nat], overlap : [Texts -> Nat]]
  BY StreamCursor DEF AnyTailInv, StreamInv
<1>3. cursor'.at = cursor.at /\ cursor'.seen = cursor.seen /\ cursor'.overlap = cursor.seen
  BY <1>1, <1>2 DEF BeginStream
<1>4. CASE accepted = <<>>
  <2>1. cursor = [at |-> 0, seen |-> NoCounts, overlap |-> NoCounts]
    BY <1>4 DEF AnyTailInv, TakenInv
  <2>2. cursor' = cursor
    BY <1>1, <2>1 DEF BeginStream
  <2> QED BY <1>1, <1>4, <2>1, <2>2 DEF TakenInv
<1>5. CASE accepted # <<>>
  <2>1. StampsKept' /\ cursor'.at = log'[LastTaken'].at
    BY <1>1, <1>3, <1>5 DEF AnyTailInv, TakenInv, StampsKept, LastTaken
  <2>2. stream'.pos # 0 => log'[stream'.pos].at <= cursor'.at
    <3> SUFFICES ASSUME stream'.pos # 0 PROVE log[stream'.pos].at <= cursor.at
      BY <1>1, <1>3
    <3>1. stream'.pos \in DOMAIN log /\ stream'.pos \in 1..stream'.pos
      BY <1>1, <1>5, TakenFacts
    <3>2. log[stream'.pos].at < cursor.at
      BY <1>1, <1>5, <3>1, TakenFacts
    <3> QED BY <1>5, <3>1, <3>2, TakenFacts
  <2>3. ASSUME NEW l \in Line PROVE CountedInv(l)'
    <3>1. CountedInv(l) /\ TimesTaken(l)' = TimesTaken(l) /\ Copies(l, 1, Len(log))' = Copies(l, 1, Len(log))
          /\ Copies(l, accepted[1], Len(log))' = Copies(l, accepted[1], Len(log))
      BY <1>1, <1>5, <2>3 DEF AnyTailInv, TakenInv, TimesTaken, Copies
    <3>2. Copies(l, accepted[1], stream.pos)' = Copies(l, accepted[1], stream'.pos)
          /\ Copies(l, 1, stream.pos)' = Copies(l, 1, stream'.pos)
      BY <1>1 DEF Copies
    <3>3. ASSUME l.at = cursor.at
          PROVE  Copies(l, accepted[1], stream'.pos) = 0 /\ Copies(l, 1, stream'.pos) = 0
      <4>1. accepted[1] \in Nat \ {0} /\ stream'.pos \in Nat /\ cursor.at \in Nat \ {0}
        BY <1>1, <1>5, TakenFacts
      <4>2. \A k \in 1..stream'.pos : log[k] # l
        <5> SUFFICES ASSUME NEW k \in 1..stream'.pos PROVE log[k] # l
          OBVIOUS
        <5>1. k \in DOMAIN log /\ log[k].at < cursor.at
          BY <1>1, <1>5, <4>1, TakenFacts
        <5>2. log[k].at \in Nat
          BY <1>5, <5>1, TakenFacts
        <5> QED BY <3>3, <4>1, <5>1, <5>2
      <4>3. \A k \in accepted[1]..stream'.pos : log[k] # l
        BY <4>1, <4>2
      <4> QED BY <4>1, <4>2, <4>3, CopiesNone
    <3>4. l.text \in Texts
      BY <2>3 DEF Line
    <3>5. cursor.seen[l.text] \in Nat
      BY <1>2, <3>4
    <3> QED BY <1>3, <3>1, <3>2, <3>3, <3>5 DEF CountedInv
  <2> QED BY <1>1, <1>5, <2>1, <2>2, <2>3 DEF TakenInv
<1> QED BY <1>4, <1>5

\* A line that is written is not older than the cursor.
LEMMA WriteTaken == ASSUME AnyTailInv, NEW text \in Texts, Write(text) PROVE TakenInv'
<1> DEFINE w == [at |-> now, text |-> text]
           n == Len(log) + 1
<1>1. log' = Append(log, w) /\ UNCHANGED <<stream, cursor, accepted, spc>>
  BY DEF Write, streamer, lines, locals
<1>2. /\ log \in Seq(Line) /\ Len(log) \in Nat /\ DOMAIN log = 1..Len(log) /\ StreamInv
  BY StreamFacts DEF AnyTailInv, StreamInv, StreamTypeOK
<1>3. /\ Len(log') = n /\ log'[n] = w /\ n \in Nat \ {0} /\ n - 1 = Len(log)
      /\ \A i \in 1..Len(log) : log'[i] = log[i]
  BY <1>1, <1>2
<1>4. w.at = now
  OBVIOUS
<1> HIDE DEF w, n
<1>5. CASE accepted = <<>>
  BY <1>1, <1>5 DEF AnyTailInv, TakenInv
<1>6. CASE accepted # <<>>
  <2>1. \A j \in DOMAIN accepted : accepted[j] \in 1..Len(log) /\ log'[accepted[j]] = log[accepted[j]]
    BY <1>2, <1>3, <1>6, TakenFacts
  <2>2. StampsKept'
    BY <1>1, <1>6, <2>1 DEF AnyTailInv, TakenInv, StampsKept
  <2>3. LastTaken' = LastTaken /\ log'[LastTaken] = log[LastTaken]
    BY <1>1, <1>2, <1>3, <1>6, TakenFacts DEF LastTaken
  <2>4. stream.pos # 0 => log'[stream.pos] = log[stream.pos]
    BY <1>2, <1>3, <1>6, TakenFacts
  <2>5. ASSUME NEW l \in Line PROVE CountedInv(l)'
    <3>1. TimesTaken(l)' = TimesTaken(l)
      BY <1>1, <2>1 DEF TimesTaken
    <3>2. /\ accepted[1] \in Nat \ {0} /\ accepted[1] \in DOMAIN log /\ stream.pos \in 0..Len(log)
          /\ cursor.at \in Nat /\ cursor.at <= now /\ now \in Nat
      BY <1>6, TakenFacts
    <3>3. /\ Copies(l, accepted[1], stream.pos)' = Copies(l, accepted[1], stream.pos)
          /\ Copies(l, 1, stream.pos)' = Copies(l, 1, stream.pos)
      <4>1. \A k \in 1..stream.pos : log'[k] = log[k]
        BY <1>2, <1>3, <3>2
      <4>2. {k \in 1..stream.pos : log'[k] = l} = {k \in 1..stream.pos : log[k] = l}
        BY <4>1
      <4>3. {k \in accepted[1]..stream.pos : log'[k] = l} = {k \in accepted[1]..stream.pos : log[k] = l}
        BY <3>2, <4>1
      <4> QED BY Zenon, <1>1, <4>2, <4>3 DEF Copies
    <3>4. Copies(l, 1, Len(log)) <= Copies(l, 1, Len(log))'
      <4>1. Copies(l, 1, Len(log))' = Cardinality({k \in 1..n : log'[k] = l})
        BY <1>3 DEF Copies
      <4>2. Copies(l, 1, Len(log)) = Cardinality({k \in 1..Len(log) : log[k] = l})
        BY DEF Copies
      <4>3. {k \in 1..Len(log) : log[k] = l} \subseteq {k \in 1..n : log'[k] = l}
        BY <1>2, <1>3
      <4>4. {k \in 1..n : log'[k] = l} \in SUBSET (1..n) /\ n \in Nat
        BY <1>3
      <4>5. IsFiniteSet({k \in 1..n : log'[k] = l})
        BY <4>4, SomeLines
      <4> QED BY <4>1, <4>2, <4>3, <4>5, FS_Subset
    <3>5. ASSUME l.at < cursor.at PROVE Copies(l, accepted[1], Len(log))' = Copies(l, accepted[1], Len(log))
      <4>1. Copies(l, accepted[1], Len(log))' = Cardinality({k \in accepted[1]..n : log'[k] = l})
        BY <1>1, <1>3 DEF Copies
      <4>2. log'[n] # l
        <5>1. l.at \in Nat
          BY <2>5, BoundAssumption DEF Line
        <5> QED BY <1>3, <1>4, <3>2, <3>5, <5>1
      <4>3. \A k \in Int : k \in accepted[1]..n <=> k \in accepted[1]..Len(log) \/ k = n
        BY <1>2, <1>3, <3>2
      <4>4. \A k \in accepted[1]..Len(log) : log'[k] = log[k]
        BY <1>2, <1>3, <3>2
      <4>5. {k \in accepted[1]..n : log'[k] = l} = {k \in accepted[1]..Len(log) : log[k] = l}
        BY <4>2, <4>3, <4>4
      <4> QED BY <4>1, <4>5 DEF Copies
    <3>6. CountedInv(l)
      BY <1>6, <2>5 DEF AnyTailInv, TakenInv
    <3>7. Copies(l, 1, Len(log)) \in Nat /\ Copies(l, 1, Len(log))' \in Nat /\ TimesTaken(l) \in Nat
      <4>1. Copies(l, 1, Len(log)) \in Nat /\ TimesTaken(l) \in Nat
        BY <1>2, CopiesType, TakenType
      <4>2. {k \in 1..n : log'[k] = l} \in SUBSET (1..n) /\ n \in Nat
        BY <1>3
      <4>3. Cardinality({k \in 1..n : log'[k] = l}) \in Nat
        BY <4>2, SomeLines
      <4> QED BY <1>3, <4>1, <4>3 DEF Copies
    <3>8. TimesTaken(l)' <= Copies(l, 1, Len(log))'
      BY <3>1, <3>4, <3>6, <3>7 DEF CountedInv
    <3> QED BY <1>1, <3>1, <3>3, <3>5, <3>6, <3>8 DEF CountedInv
  <2> QED BY <1>1, <1>6, <2>2, <2>3, <2>4, <2>5 DEF AnyTailInv, TakenInv
<1> QED BY <1>5, <1>6

\* What a line read does to the counts of a line.
LEMMA ReadCopies ==
  ASSUME StreamInv, NEW i \in DOMAIN log, i - 1 = stream.pos, NEW first \in Nat \ {0}, NEW l
  PROVE  /\ Copies(l, first, i) \in Nat /\ Copies(l, first, stream.pos) \in Nat
         /\ Copies(l, first, i) = IF first <= i /\ log[i] = l THEN Copies(l, first, stream.pos) + 1
                                                             ELSE Copies(l, first, stream.pos)
<1>1. i \in Nat \ {0} /\ stream.pos \in Nat
  BY StreamFacts
<1> QED BY <1>1, CopiesNext, CopiesType

\* The first line taken.
LEMMA FirstScanTaken == ASSUME AnyTailInv, Scan, accepted = <<>> PROVE TakenInv'
<1>1. StreamInv
  BY DEF AnyTailInv, StreamInv
<1>2. PICK i \in DOMAIN log :
        /\ i - 1 = stream.pos /\ spc' = "scan" /\ stream'.pos = i
        /\ cursor' = Accept(cursor, log[i]) /\ UNCHANGED log
        /\ ~Replayed(cursor, log[i]) => accepted' = Append(accepted, i)
  BY <1>1, StreamReads
<1>3. cursor.at = 0 /\ log[i].at > 0 /\ log[i].at \in Nat /\ log[i].text \in Texts
      /\ i \in Nat \ {0} /\ i <= Len(log) /\ Len(log) \in Nat /\ DOMAIN log = 1..Len(log)
  BY <1>1, StreamFacts DEF AnyTailInv, TakenInv
<1>4. /\ ~Replayed(cursor, log[i]) /\ cursor'.at = log[i].at /\ cursor'.overlap = NoCounts
      /\ cursor'.seen = [NoCounts EXCEPT ![log[i].text] = 1]
  BY <1>1, <1>2, <1>3, StreamAccepts
<1>5. accepted' = <<i>> /\ accepted' # <<>> /\ accepted'[1] = i /\ LastTaken' = i /\ DOMAIN accepted' = 1..1
  <2>1. accepted' = <<i>>
    BY <1>2, <1>4
  <2> QED BY <2>1 DEF LastTaken
<1>6. StampsKept'
  BY <1>2, <1>3, <1>5 DEF StampsKept
<1>7. ASSUME NEW l \in Line PROVE CountedInv(l)'
  <2>1. TimesTaken(l)' = IF log[i] = l THEN 1 ELSE 0
    <3>1. TimesTaken(l) = 0
      <4>1. {j \in DOMAIN accepted : log[accepted[j]] = l} = {}
        OBVIOUS
      <4> QED BY <4>1, FS_EmptySet DEF TimesTaken
    <3> QED BY <1>1, <1>2, <1>4, <3>1, TakenNext
  <2>2. Copies(l, i, stream.pos) = 0
    <3>1. \A k \in i..stream.pos : log[k] # l
      BY <1>2, <1>3
    <3>2. stream.pos \in Nat
      BY <1>1, StreamFacts
    <3> QED BY <1>3, <3>1, <3>2, CopiesNone
  <2>3. Copies(l, i, i) = IF log[i] = l THEN 1 ELSE 0
    BY <1>1, <1>2, <1>3, <2>2, ReadCopies
  <2>4. Copies(l, i, i) <= Copies(l, 1, i) /\ Copies(l, i, i) <= Copies(l, 1, Len(log))
        /\ Copies(l, 1, i) \in Nat /\ Copies(l, 1, Len(log)) \in Nat
    BY <1>3, CopiesMore, CopiesType
  <2>5. ASSUME l.at < log[i].at PROVE Copies(l, i, Len(log)) = 0
    <3>1. \A k \in i..Len(log) : log[k] # l
      <4> SUFFICES ASSUME NEW k \in i..Len(log), log[k] = l PROVE FALSE
        OBVIOUS
      <4>1. k \in DOMAIN log /\ i <= k /\ log[i].at <= log[k].at
        BY <1>1, <1>3 DEF StreamInv, StampsRise
      <4> QED BY <1>1, <1>3, <2>5, <4>1, StreamFacts
    <3> QED BY <1>3, <3>1, CopiesNone
  <2>6. ASSUME l.at = log[i].at PROVE cursor'.seen[l.text] = (IF log[i] = l THEN 1 ELSE 0)
    <3>1. log[i] = l <=> log[i].text = l.text
      <4>1. log[i] \in Line
        BY <1>1, StreamLine
      <4> QED BY <1>7, <2>6, <4>1 DEF Line
    <3>2. l.text \in Texts
      BY <1>7 DEF Line
    <3> QED BY <1>3, <1>4, <3>1, <3>2 DEF NoCounts
  <2>7. cursor'.overlap[l.text] = 0
    BY <1>4, <1>7 DEF NoCounts, Line
  <2>8. /\ Copies(l, accepted[1], stream.pos)' = Copies(l, i, i)
        /\ Copies(l, accepted[1], Len(log))' = Copies(l, i, Len(log))
        /\ Copies(l, 1, stream.pos)' = Copies(l, 1, i)
        /\ Copies(l, 1, Len(log))' = Copies(l, 1, Len(log))
    BY <1>2, <1>5 DEF Copies
  <2> QED BY <1>4, <2>1, <2>3, <2>4, <2>5, <2>6, <2>7, <2>8 DEF CountedInv
<1> QED BY <1>2, <1>3, <1>4, <1>5, <1>6, <1>7 DEF TakenInv

\* A line that is recognised as replayed.
LEMMA ReplayTaken ==
  ASSUME AnyTailInv, Scan, accepted # <<>>, accepted' = accepted,
         NEW i \in DOMAIN log, i - 1 = stream.pos, stream'.pos = i, UNCHANGED log, spc' = "scan",
         cursor' = Accept(cursor, log[i]), Replayed(cursor, log[i])
  PROVE  TakenInv'
<1>1. /\ StreamInv /\ accepted[1] \in Nat \ {0} /\ cursor.at \in Nat \ {0}
      /\ cursor.seen \in [Texts -> Nat] /\ cursor.overlap \in [Texts -> Nat]
      /\ log[i].at \in Nat /\ i \in Nat \ {0}
  BY TakenFacts
<1>2. log[i].text \in Texts /\ cursor.overlap[log[i].text] \in Nat
  BY <1>1, StreamLine
<1>3. /\ log[i].at < cursor.at \/ log[i].at = cursor.at \/ log[i].at > cursor.at
      /\ log[i].at < cursor.at => cursor' = cursor
      /\ log[i].at = cursor.at /\ cursor.overlap[log[i].text] > 0 =>
           /\ cursor'.at = cursor.at /\ cursor'.seen = cursor.seen
           /\ cursor'.overlap = [cursor.overlap EXCEPT ![log[i].text] = @ - 1]
      /\ ~(log[i].at = cursor.at /\ cursor.overlap[log[i].text] = 0) /\ ~(log[i].at > cursor.at)
  BY <1>1, StreamAccepts, Zenon
<1>4. log[i].at = cursor.at => cursor.overlap[log[i].text] > 0
  BY <1>2, <1>3
<1>5. log[i].at <= cursor.at /\ cursor'.at = cursor.at /\ cursor'.seen = cursor.seen
  BY <1>1, <1>3, <1>4
<1>6. StampsKept' /\ LastTaken' = LastTaken /\ cursor'.at = log'[LastTaken'].at
  BY <1>5 DEF AnyTailInv, TakenInv, StampsKept, LastTaken
<1>7. ASSUME NEW l \in Line PROVE CountedInv(l)'
  <2>1. CountedInv(l)
    BY <1>7 DEF AnyTailInv, TakenInv
  <2>2. /\ TimesTaken(l)' = TimesTaken(l)
        /\ Copies(l, accepted[1], stream.pos)' = Copies(l, accepted[1], i)
        /\ Copies(l, accepted[1], Len(log))' = Copies(l, accepted[1], Len(log))
        /\ Copies(l, 1, stream.pos)' = Copies(l, 1, i)
        /\ Copies(l, 1, Len(log))' = Copies(l, 1, Len(log))
    BY DEF TimesTaken, Copies
  <2>3. /\ Copies(l, accepted[1], i) \in Nat /\ Copies(l, accepted[1], stream.pos) \in Nat
        /\ Copies(l, accepted[1], i) \in
             {Copies(l, accepted[1], stream.pos)} \cup
             (IF log[i] = l THEN {Copies(l, accepted[1], stream.pos) + 1} ELSE {})
    BY <1>1, ReadCopies
  <2>4. /\ Copies(l, 1, i) \in Nat /\ Copies(l, 1, stream.pos) \in Nat
        /\ Copies(l, 1, i) = IF log[i] = l THEN Copies(l, 1, stream.pos) + 1 ELSE Copies(l, 1, stream.pos)
    BY <1>1, ReadCopies
  <2>5. ASSUME l.at = cursor.at
        PROVE  cursor'.overlap[l.text] = IF log[i] = l THEN cursor.overlap[l.text] - 1
                                                      ELSE cursor.overlap[l.text]
    <3>1. l.text \in Texts /\ log[i].text \in Texts /\ (log[i] = l <=> log[i].text = l.text /\ log[i].at = l.at)
      <4>1. log[i] \in Line
        BY <1>1, StreamLine
      <4> QED BY <1>7, <4>1 DEF Line
    <3>2. CASE log[i].at < cursor.at
      <4>1. cursor' = cursor /\ log[i].at # cursor.at
        BY <1>1, <1>3, <3>2
      <4> QED BY <2>5, <3>1, <4>1
    <3>3. CASE log[i].at = cursor.at
      <4>1. cursor'.overlap = [cursor.overlap EXCEPT ![log[i].text] = @ - 1]
        BY <1>3, <1>4, <3>3
      <4> QED BY <1>1, <2>5, <3>1, <3>3, <4>1
    <3> QED BY <1>1, <1>5, <3>2, <3>3
  <2>6. cursor.overlap[l.text] \in Nat /\ cursor.seen[l.text] \in Nat
    BY <1>1, <1>7 DEF Line
  <2>7. ASSUME l.at = cursor.at
        PROVE  /\ TimesTaken(l) = cursor.seen[l.text]
               /\ Copies(l, accepted[1], i) + cursor'.overlap[l.text] <= cursor.seen[l.text]
               /\ cursor.seen[l.text] <= cursor'.overlap[l.text] + Copies(l, 1, i)
    <3>1. /\ TimesTaken(l) = cursor.seen[l.text]
          /\ Copies(l, accepted[1], stream.pos) + cursor.overlap[l.text] <= cursor.seen[l.text]
          /\ cursor.seen[l.text] <= cursor.overlap[l.text] + Copies(l, 1, stream.pos)
      BY <2>1, <2>7 DEF CountedInv
    <3>2. PICK a \in Nat, b \in Nat, o \in Nat, n \in Nat :
            /\ a = Copies(l, accepted[1], stream.pos) /\ b = Copies(l, 1, stream.pos)
            /\ o = cursor.overlap[l.text] /\ n = cursor.seen[l.text]
      BY <2>3, <2>4, <2>6
    <3>3. a + o <= n /\ n <= o + b
      BY <3>1, <3>2
    <3>4. CASE log[i] = l
      <4>1. Copies(l, 1, i) = b + 1 /\ cursor'.overlap[l.text] = o - 1
        BY <2>4, <2>5, <2>7, <3>2, <3>4
      <4>2. PICK c \in Nat : c = Copies(l, accepted[1], i) /\ c <= a + 1
        BY <2>3, <3>2
      <4>3. c + (o - 1) <= n /\ n <= (o - 1) + (b + 1)
        BY <3>3, <4>2
      <4> QED BY <3>1, <3>2, <4>1, <4>2, <4>3
    <3>5. CASE log[i] # l
      <4>1. Copies(l, accepted[1], i) = a /\ Copies(l, 1, i) = b /\ cursor'.overlap[l.text] = o
        BY <2>3, <2>4, <2>5, <2>7, <3>2, <3>5
      <4> QED BY <3>1, <3>2, <3>3, <4>1
    <3> QED BY <3>4, <3>5
  <2> QED BY <1>5, <2>1, <2>2, <2>7 DEF CountedInv
<1> QED BY <1>5, <1>6, <1>7 DEF TakenInv

\* A line that is taken, of the cursor's time or newer.
LEMMA NextTaken ==
  ASSUME AnyTailInv, Scan, accepted # <<>>, NEW i \in DOMAIN log,
         accepted' = Append(accepted, i), i - 1 = stream.pos, stream'.pos = i, UNCHANGED log, spc' = "scan",
         cursor' = Accept(cursor, log[i]), ~Replayed(cursor, log[i])
  PROVE  TakenInv'
<1> DEFINE x == log[i]
<1>1. /\ StreamInv /\ accepted[1] \in Nat \ {0} /\ cursor.at \in Nat \ {0} /\ stream.pos \in Nat
      /\ cursor.seen \in [Texts -> Nat] /\ cursor.overlap \in [Texts -> Nat]
      /\ i \in Nat \ {0} /\ i <= Len(log) /\ Len(log) \in Nat /\ DOMAIN log = 1..Len(log)
      /\ \A k \in DOMAIN log : log[k].at \in Nat \ {0} /\ (k <= stream.pos => log[k].at <= cursor.at)
  BY TakenFacts
<1>2. x \in Line /\ x.at \in Nat \ {0} /\ x.text \in Texts /\ cursor.overlap[x.text] \in Nat
  BY <1>1, StreamLine
<1>3. /\ x.at = cursor.at \/ x.at > cursor.at
      /\ x.at = cursor.at =>
           /\ cursor.overlap[x.text] = 0
           /\ cursor'.at = cursor.at /\ cursor'.overlap = cursor.overlap
           /\ cursor'.seen = [cursor.seen EXCEPT ![x.text] = @ + 1]
      /\ x.at > cursor.at =>
           /\ cursor'.at = x.at /\ cursor'.overlap = NoCounts
           /\ cursor'.seen = [NoCounts EXCEPT ![x.text] = 1]
  <2>1. /\ x.at < cursor.at \/ x.at = cursor.at \/ x.at > cursor.at
        /\ ~(x.at < cursor.at)
        /\ ~(x.at = cursor.at /\ cursor.overlap[x.text] > 0)
        /\ x.at = cursor.at /\ cursor.overlap[x.text] = 0 =>
             /\ cursor'.at = cursor.at /\ cursor'.overlap = cursor.overlap
             /\ cursor'.seen = [cursor.seen EXCEPT ![x.text] = @ + 1]
        /\ x.at > cursor.at =>
             /\ cursor'.at = x.at /\ cursor'.overlap = NoCounts
             /\ cursor'.seen = [NoCounts EXCEPT ![x.text] = 1]
    BY <1>1, StreamAccepts, Zenon
  <2>2. x.at = cursor.at => cursor.overlap[x.text] = 0
    BY <1>2, <2>1
  <2> QED BY <2>1, <2>2
<1>4. /\ accepted' # <<>> /\ accepted'[1] = accepted[1] /\ LastTaken' = i
      /\ DOMAIN accepted' = 1..(Len(accepted) + 1) /\ accepted'[Len(accepted) + 1] = i
      /\ Len(accepted) \in Nat /\ DOMAIN accepted = 1..Len(accepted)
      /\ \A j \in DOMAIN accepted : /\ accepted'[j] = accepted[j] /\ accepted[j] \in DOMAIN log
                                    /\ log[accepted[j]].at <= cursor.at
  <2>1. accepted \in Seq(DOMAIN log) /\ Len(accepted) \in Nat \ {0} /\ DOMAIN accepted = 1..Len(accepted)
    BY <1>1, StreamFacts DEF StreamInv, StreamTypeOK
  <2>2. \A j \in DOMAIN accepted : accepted[j] \in DOMAIN log /\ log[accepted[j]].at <= cursor.at
    BY TakenFacts
  <2>3. /\ DOMAIN accepted' = 1..(Len(accepted) + 1) /\ Len(accepted') = Len(accepted) + 1
        /\ accepted'[Len(accepted) + 1] = i /\ accepted' # <<>>
        /\ \A j \in 1..Len(accepted) : accepted'[j] = accepted[j]
    BY <2>1
  <2> QED BY <2>1, <2>2, <2>3 DEF LastTaken
<1>5. cursor'.at = x.at /\ cursor.at <= x.at
  BY <1>1, <1>2, <1>3
<1>6. StampsKept'
  <2> SUFFICES ASSUME NEW j \in DOMAIN accepted', NEW k \in DOMAIN accepted', j <= k
               PROVE  log[accepted'[j]].at <= log[accepted'[k]].at
    BY DEF StampsKept
  <2>1. CASE k \in DOMAIN accepted
    <3>1. j \in DOMAIN accepted
      BY <1>4, <2>1
    <3>2. StampsKept
      BY DEF AnyTailInv, TakenInv
    <3>3. log[accepted[j]].at <= log[accepted[k]].at
      BY <2>1, <3>1, <3>2 DEF StampsKept
    <3>4. accepted'[j] = accepted[j] /\ accepted'[k] = accepted[k]
      BY <1>4, <2>1, <3>1
    <3> QED BY <3>3, <3>4
  <2>2. CASE k = Len(accepted) + 1
    <3>1. accepted'[k] = i /\ (j = k \/ j \in DOMAIN accepted)
      BY <1>4, <2>2
    <3>2. CASE j = k
      BY <1>2, <3>1, <3>2
    <3>3. CASE j \in DOMAIN accepted
      <4>1. log[accepted'[j]].at <= cursor.at /\ log[accepted'[j]].at \in Nat
        BY <1>1, <1>4, <3>3
      <4>2. log[accepted'[j]].at <= log[i].at
        BY SMTT(20), <1>1, <1>2, <1>5, <4>1
      <4> QED BY <3>1, <4>2
    <3> QED BY <3>1, <3>2, <3>3
  <2> QED BY <1>4, <2>1, <2>2
<1>7. ASSUME NEW l \in Line PROVE CountedInv(l)'
  <2>1. CountedInv(l) /\ l.text \in Texts /\ l.at \in Nat \ {0} /\ (x = l <=> x.text = l.text /\ x.at = l.at)
    BY <1>2, <1>7, BoundAssumption DEF AnyTailInv, TakenInv, Line
  <2>2. TimesTaken(l)' = (IF x = l THEN TimesTaken(l) + 1 ELSE TimesTaken(l)) /\ TimesTaken(l) \in Nat
    BY <1>1, TakenNext, TakenType
  <2>3. /\ Copies(l, accepted[1], stream.pos)' = Copies(l, accepted[1], i)
        /\ Copies(l, accepted[1], Len(log))' = Copies(l, accepted[1], Len(log))
        /\ Copies(l, 1, stream.pos)' = Copies(l, 1, i)
        /\ Copies(l, 1, Len(log))' = Copies(l, 1, Len(log))
    BY <1>4 DEF Copies
  <2>4. PICK a \in Nat, b \in Nat, n \in Nat, f \in Nat, t \in Nat :
          /\ a = Copies(l, accepted[1], stream.pos) /\ b = Copies(l, 1, stream.pos)
          /\ n = Copies(l, 1, Len(log)) /\ f = Copies(l, accepted[1], Len(log)) /\ t = TimesTaken(l)
    <3>1. Copies(l, accepted[1], stream.pos) \in Nat /\ Copies(l, accepted[1], Len(log)) \in Nat
      BY <1>1, CopiesType
    <3>2. Copies(l, 1, stream.pos) \in Nat /\ Copies(l, 1, Len(log)) \in Nat
      BY <1>1, CopiesType
    <3> QED BY <2>2, <3>1, <3>2
  <2>5. PICK c \in Nat, d \in Nat :
          /\ c = Copies(l, accepted[1], i) /\ d = Copies(l, 1, i)
          /\ x = l => c <= a + 1 /\ d = b + 1
          /\ x # l => c = a /\ d = b
    <3>1. /\ Copies(l, accepted[1], i) \in Nat
          /\ Copies(l, accepted[1], i) =
               IF accepted[1] <= i /\ log[i] = l THEN Copies(l, accepted[1], stream.pos) + 1
                                                ELSE Copies(l, accepted[1], stream.pos)
      BY <1>1, ReadCopies
    <3>2. /\ Copies(l, 1, i) \in Nat
          /\ Copies(l, 1, i) = IF 1 <= i /\ log[i] = l THEN Copies(l, 1, stream.pos) + 1
                                                      ELSE Copies(l, 1, stream.pos)
      BY <1>1, ReadCopies
    <3>3. PICK c \in Nat, d \in Nat : c = Copies(l, accepted[1], i) /\ d = Copies(l, 1, i)
      BY <3>1, <3>2
    <3>4. x = l => c <= a + 1 /\ d = b + 1
      BY SMTT(20), <1>1, <2>4, <3>1, <3>2, <3>3
    <3>5. x # l => c = a /\ d = b
      BY <2>4, <3>1, <3>2, <3>3
    <3> QED BY <3>3, <3>4, <3>5
  <2>6. d <= n
    BY SMTT(20), <1>1, <2>4, <2>5, CopiesMore
  <2>7. ASSUME NEW u \in Nat, TimesTaken(l)' = u, u <= n, l.at < cursor'.at => f <= u,
                l.at = cursor'.at => /\ u = cursor'.seen[l.text]
                                     /\ c + cursor'.overlap[l.text] <= cursor'.seen[l.text]
                                     /\ cursor'.seen[l.text] <= cursor'.overlap[l.text] + d
         PROVE  CountedInv(l)'
    BY <2>3, <2>4, <2>5, <2>7 DEF CountedInv
  <2>8. t <= n /\ (l.at < cursor.at => f <= t)
    BY <2>1, <2>4 DEF CountedInv
  <2>9. CASE l.at < cursor.at
    <3>1. x # l /\ TimesTaken(l)' = t /\ l.at < x.at
      BY SMTT(20), <1>1, <1>2, <1>5, <2>1, <2>2, <2>4, <2>9
    <3>2. l.at # cursor'.at
      BY <1>2, <1>5, <2>1, <3>1
    <3> QED BY <2>8, <2>9, <2>7, <3>1, <3>2
  <2>10. CASE l.at = cursor.at /\ x.at = cursor.at
    <3>1. PICK s \in Nat, o \in Nat : s = cursor.seen[l.text] /\ o = cursor.overlap[l.text]
      BY <1>1, <2>1
    <3>2. t = s /\ a + o <= s /\ s <= o + b
      BY <2>1, <2>4, <2>10, <3>1 DEF CountedInv
    <3>3. /\ cursor'.overlap[l.text] = o
          /\ cursor'.seen[l.text] = (IF x = l THEN s + 1 ELSE s)
          /\ x = l => o = 0
      BY SMTT(20), <1>1, <1>2, <1>3, <2>1, <2>10, <3>1
    <3>4. CASE x = l
      <4>1. t + 1 <= n /\ c + o <= s + 1 /\ s + 1 <= o + d
        BY <2>5, <2>6, <3>2, <3>3, <3>4
      <4>2. TimesTaken(l)' = t + 1 /\ cursor'.seen[l.text] = s + 1
        BY <2>2, <2>4, <3>3, <3>4
      <4>3. ~(l.at < cursor'.at) /\ t + 1 \in Nat
        BY SMTT(20), <1>1, <1>5, <2>10
      <4> QED BY <2>7, <3>2, <3>3, <4>1, <4>2, <4>3
    <3>5. CASE x # l
      <4>1. TimesTaken(l)' = t /\ cursor'.seen[l.text] = s /\ c = a /\ d = b
        BY <2>2, <2>4, <2>5, <3>3, <3>5
      <4>2. ~(l.at < cursor'.at)
        BY <1>1, <1>5, <2>10
      <4> QED BY <2>8, <2>7, <3>2, <3>3, <4>1, <4>2
    <3> QED BY <3>4, <3>5
  <2>11. CASE l.at = cursor.at /\ x.at > cursor.at
    <3>1. f = a
      <4>1. \A k \in (stream.pos + 1)..Len(log) : log[k] # l
        <5> SUFFICES ASSUME NEW k \in (stream.pos + 1)..Len(log), log[k] = l PROVE FALSE
          OBVIOUS
        <5>1. k \in DOMAIN log /\ i <= k /\ x.at <= log[k].at
          BY <1>1 DEF StreamInv, StampsRise
        <5> QED BY <1>1, <1>2, <2>1, <2>11, <5>1
      <4>2. stream.pos <= Len(log)
        BY <1>1
      <4>3. PICK h \in Nat \ {0}, p \in Nat, m \in Nat : h = accepted[1] /\ p = stream.pos /\ m = Len(log)
        BY <1>1
      <4>4. p <= m /\ \A k \in (p + 1)..m : log[k] # l
        BY <4>1, <4>2, <4>3
      <4>5. Copies(l, h, m) = Copies(l, h, p)
        BY <4>4, CopiesSame
      <4> QED BY <2>4, <4>3, <4>5
    <3>2. f <= t
      <4>1. PICK s \in Nat, o \in Nat : s = cursor.seen[l.text] /\ o = cursor.overlap[l.text]
        BY <1>1, <2>1
      <4>2. t = s /\ a + o <= s
        BY <2>1, <2>4, <2>11, <4>1 DEF CountedInv
      <4> QED BY <3>1, <4>2
    <3>3. x # l /\ TimesTaken(l)' = t /\ l.at # cursor'.at
      BY <1>1, <1>2, <1>5, <2>1, <2>2, <2>4, <2>11
    <3> QED BY <2>8, <2>7, <3>2, <3>3
  <2>12. CASE l.at > cursor.at
    <3>1. t = 0
      <4>1. \A j \in DOMAIN accepted : log[accepted[j]] # l
        BY <1>1, <1>4, <2>1, <2>12
      <4>2. {j \in DOMAIN accepted : log[accepted[j]] = l} = {}
        BY <4>1
      <4> QED BY <2>4, <4>2, FS_EmptySet DEF TimesTaken
    <3>2. \A k \in 1..stream.pos : log[k] # l
      <4> SUFFICES ASSUME NEW k \in 1..stream.pos, log[k] = l PROVE FALSE
        OBVIOUS
      <4>1. k \in DOMAIN log /\ log[k].at <= cursor.at
        BY <1>1
      <4> QED BY <1>1, <2>1, <2>12, <4>1
    <3>3. a = 0 /\ b = 0
      <4>1. \A k \in accepted[1]..stream.pos : log[k] # l
        BY <1>1, <3>2
      <4>2. Copies(l, accepted[1], stream.pos) = 0
        BY <1>1, <4>1, CopiesNone
      <4>3. Copies(l, 1, stream.pos) = 0
        BY <1>1, <3>2, CopiesNone
      <4> QED BY <2>4, <4>2, <4>3
    <3>4. CASE x.at = cursor.at
      <4>1. x # l /\ TimesTaken(l)' = t /\ ~(l.at < cursor'.at) /\ l.at # cursor'.at
        BY <1>1, <1>2, <1>5, <2>1, <2>2, <2>4, <2>12, <3>4
      <4> QED BY <2>8, <2>7, <4>1
    <3>5. CASE x.at > cursor.at /\ l.at = x.at
      <4>1. cursor'.overlap[l.text] = 0 /\ cursor'.seen[l.text] = (IF x = l THEN 1 ELSE 0)
        BY <1>2, <1>3, <2>1, <3>5 DEF NoCounts
      <4>2. TimesTaken(l)' = (IF x = l THEN 1 ELSE 0)
        BY <2>2, <2>4, <3>1
      <4>3. ~(l.at < cursor'.at) /\ (x = l => c <= 1 /\ d = 1 /\ 1 <= n) /\ (x # l => c = 0 /\ d = 0)
        BY <1>2, <1>5, <2>5, <2>6, <3>3, <3>5
      <4>4. CASE x = l
        <5>1. TimesTaken(l)' = 1 /\ 1 <= n /\ c + 0 <= 1 /\ 1 <= 0 + d
          BY <4>2, <4>3, <4>4
        <5> QED BY <2>7, <4>1, <4>3, <4>4, <5>1
      <4>5. CASE x # l
        <5>1. TimesTaken(l)' = 0 /\ 0 <= n /\ c + 0 <= 0 /\ 0 <= 0 + d
          BY <4>2, <4>3, <4>5
        <5> QED BY <2>7, <4>1, <4>3, <4>5, <5>1
      <4> QED BY <4>4, <4>5
    <3>6. CASE x.at > cursor.at /\ l.at # x.at
      <4>1. x # l /\ TimesTaken(l)' = 0 /\ l.at # cursor'.at
        BY <1>5, <2>1, <2>2, <2>4, <3>1, <3>6
      <4>2. ASSUME l.at < x.at PROVE f = 0
        <5>1. \A k \in (stream.pos + 1)..Len(log) : log[k] # l
          <6> SUFFICES ASSUME NEW k \in (stream.pos + 1)..Len(log), log[k] = l PROVE FALSE
            OBVIOUS
          <6>1. k \in DOMAIN log /\ i <= k /\ x.at <= log[k].at
            BY <1>1 DEF StreamInv, StampsRise
          <6> QED BY <1>1, <1>2, <2>1, <4>2, <6>1
        <5>2. stream.pos <= Len(log)
          BY <1>1
        <5>3. f = a
          <6>1. PICK h \in Nat \ {0}, p \in Nat, m \in Nat : h = accepted[1] /\ p = stream.pos /\ m = Len(log)
            BY <1>1
          <6>2. p <= m /\ \A k \in (p + 1)..m : log[k] # l
            BY <5>1, <5>2, <6>1
          <6>3. Copies(l, h, m) = Copies(l, h, p)
            BY <6>2, CopiesSame
          <6> QED BY <2>4, <6>1, <6>3
        <5> QED BY <3>3, <5>3
      <4>3. l.at < cursor'.at => f <= 0
        BY <1>5, <4>2
      <4> QED BY <2>7, <4>1, <4>3
    <3> QED BY <1>3, <3>4, <3>5, <3>6
  <2> QED BY <1>1, <1>3, <2>1, <2>9, <2>10, <2>11, <2>12
<1> QED BY <1>2, <1>4, <1>5, <1>6, <1>7 DEF TakenInv

LEMMA ScanTaken == ASSUME AnyTailInv, Scan PROVE TakenInv'
<1>1. StreamInv
  BY DEF AnyTailInv, StreamInv
<1>2. PICK i \in DOMAIN log :
        /\ i - 1 = stream.pos /\ spc' = "scan" /\ stream'.pos = i
        /\ cursor' = Accept(cursor, log[i]) /\ UNCHANGED log
        /\ Replayed(cursor, log[i]) => accepted' = accepted
        /\ ~Replayed(cursor, log[i]) => accepted' = Append(accepted, i)
  BY <1>1, StreamReads
<1>3. CASE accepted = <<>>
  BY <1>3, FirstScanTaken
<1>4. CASE accepted # <<>> /\ Replayed(cursor, log[i])
  BY <1>2, <1>4, ReplayTaken
<1>5. CASE accepted # <<>> /\ ~Replayed(cursor, log[i])
  BY <1>2, <1>5, NextTaken
<1> QED BY <1>3, <1>4, <1>5

LEMMA TakenStep == ASSUME AnyTailInv, [StreamNext]_streamVars PROVE AnyTailInv'
<1>1. StreamInv'
  BY StreamStep DEF AnyTailInv, StreamInv
<1>2. ASSUME NEW pos \in 0..MaxLines, Start(pos) PROVE TakenInv'
  <2>1. UNCHANGED <<cursor, accepted>> /\ spc = "start"
    BY <1>2 DEF Start, locals, lines
  <2>2. accepted = <<>>
    BY <2>1 DEF AnyTailInv, TakenInv
  <2> QED BY <2>1, <2>2 DEF AnyTailInv, TakenInv
<1>3. TakenInv'
  BY <1>2, RestsTaken, LoopsTaken, ScanTaken, WriteTaken, StreamMoves DEF AnyTailInv, StreamInv
<1> QED BY <1>1, <1>3 DEF AnyTailInv, StreamInv

\* Wherever the tail began, over any number of reconnects: the lines taken do
\* not go back in time, no line is taken more often than it was written, and
\* every line read from the first one on is taken as often as it was read
\* (logCursor in logstream.go, "without hiding additional, identical lines").
THEOREM LinesAreTakenAsWritten == StreamSpec => []TakenAsWritten
<1>1. AnyTailInv /\ [StreamNext]_streamVars => AnyTailInv'
  BY TakenStep
<1>2. AnyTailInv => TakenAsWritten
  <2> SUFFICES ASSUME AnyTailInv, accepted # <<>>, NEW l \in Range(log)
               PROVE  /\ TimesTaken(l) <= Copies(l, 1, Len(log))
                      /\ Copies(l, accepted[1], stream.pos) <= TimesTaken(l)
    <3>1. AnyTailInv => StampsKept
      BY DEF AnyTailInv, TakenInv, StampsKept
    <3> QED BY <3>1 DEF TakenAsWritten
  <2>1. /\ StreamInv /\ accepted[1] \in Nat \ {0} /\ cursor.at \in Nat /\ stream.pos \in Nat
        /\ cursor.seen \in [Texts -> Nat] /\ cursor.overlap \in [Texts -> Nat]
        /\ DOMAIN log = 1..Len(log) /\ Len(log) \in Nat /\ stream.pos <= Len(log)
        /\ \A k \in DOMAIN log : log[k].at \in Nat /\ (k <= stream.pos => log[k].at <= cursor.at)
    BY TakenFacts
  <2>2. PICK m \in DOMAIN log : l = log[m]
    BY DEF Range
  <2>3. l \in Line /\ l.at \in Nat /\ l.text \in Texts
    BY <2>1, <2>2, StreamLine
  <2>4. CountedInv(l)
    BY <2>3 DEF AnyTailInv, TakenInv
  <2>5. PICK a \in Nat, t \in Nat, o \in Nat, s \in Nat, f \in Nat :
          /\ a = Copies(l, accepted[1], stream.pos) /\ t = TimesTaken(l)
          /\ o = cursor.overlap[l.text] /\ s = cursor.seen[l.text]
          /\ f = Copies(l, accepted[1], Len(log))
    BY <2>1, <2>3, CopiesType, TakenType
  <2>6. CASE l.at < cursor.at
    <3>1. f <= t
      BY <2>4, <2>5, <2>6 DEF CountedInv
    <3>2. a <= f
      <4>1. {k \in accepted[1]..stream.pos : log[k] = l} \subseteq {k \in accepted[1]..Len(log) : log[k] = l}
        BY <2>1
      <4>2. {k \in accepted[1]..Len(log) : log[k] = l} \in SUBSET (1..Len(log))
        BY <2>1
      <4>3. IsFiniteSet({k \in accepted[1]..Len(log) : log[k] = l})
        BY <2>1, <4>2, SomeLines
      <4> QED BY <2>5, <4>1, <4>3, FS_Subset DEF Copies
    <3>3. a <= t
      BY <3>1, <3>2
    <3> QED BY <2>4, <2>5, <3>3 DEF CountedInv
  <2>7. CASE l.at = cursor.at
    <3>1. t = s /\ a + o <= s
      BY <2>4, <2>5, <2>7 DEF CountedInv
    <3>2. a <= t
      BY <3>1
    <3> QED BY <2>4, <2>5, <3>2 DEF CountedInv
  <2>8. CASE l.at > cursor.at
    <3>1. \A k \in accepted[1]..stream.pos : log[k] # l
      <4> SUFFICES ASSUME NEW k \in accepted[1]..stream.pos, log[k] = l PROVE FALSE
        OBVIOUS
      <4>1. k \in DOMAIN log /\ log[k].at <= cursor.at
        BY <2>1
      <4> QED BY <2>1, <2>3, <2>8, <4>1
    <3>2. a = 0
      BY <2>1, <2>5, <3>1, CopiesNone
    <3>3. a <= t
      BY <3>2
    <3> QED BY <2>4, <2>5, <3>3 DEF CountedInv
  <2> QED BY <2>1, <2>3, <2>6, <2>7, <2>8
<1> QED BY TakenInitially, <1>1, <1>2, PTL DEF StreamSpec

-----------------------------------------------------------------------------
(* The lines taken are those of the tailed log.                            *)

\* Only Write and Scan change the log or what was taken.
LEMMA OtherStepsTakeNothing ==
  ASSUME [StreamNext]_streamVars, ~Scan, \A text \in Texts : ~Write(text)
  PROVE  UNCHANGED <<log, accepted>>
<1>1. ASSUME NEW complete, LogsComplete(complete) PROVE UNCHANGED <<log, accepted>>
  BY <1>1 DEF LogsComplete, container, lines
<1>2. ASSUME NEW isClean, ScanEnds(isClean) PROVE UNCHANGED <<log, accepted>>
  BY <1>2 DEF ScanEnds, container, lines
<1>3. ASSUME NEW pos, Start(pos) PROVE UNCHANGED <<log, accepted>>
  BY <1>3 DEF Start, container, lines
<1>4. ASSUME NEW since, Reopen(since) PROVE UNCHANGED <<log, accepted>>
  BY <1>4 DEF Reopen, container, lines
<1>5. CASE Tick \/ Terminate \/ Cancel \/ UNCHANGED streamVars
  BY <1>5 DEF Tick, Terminate, Cancel, streamVars, container, lines
<1>6. CASE Skip \/ ReturnCancelled \/ ReturnComplete \/ Count \/ Say \/ Backoff
           \/ ReopenFails \/ ReopenFatal
  BY <1>6 DEF Skip, ReturnCancelled, ReturnComplete, Count, Say, Backoff, ReopenFails,
              ReopenFatal, container, lines
<1>7. CASE ForwardLogs
  BY <1>7 DEF ForwardLogs, ReceiveLine, ReceiveControl, FlushTimer, OutClosed, container, lines
<1>8. CASE Run
  <2>1. CASE LogEnds \/ Interrupt
    BY <1>2, <2>1 DEF LogEnds, Interrupt
  <2> QED BY <1>1, <1>4, <1>6, <1>8, <2>1 DEF Run
<1> QED BY <1>2, <1>3, <1>5, <1>7, <1>8 DEF StreamNext, Break

\* A line is taken only if it is the next one, or the first.
LEMMA ScanTakes ==
  ASSUME FollowInv, Scan
  PROVE  UNCHANGED <<log, accepted>> \/ \E i \in DOMAIN log : Promise!Take(i)
<1>1. PICK i \in DOMAIN log :
        /\ i = stream.pos + 1 /\ i - 1 = stream.pos
        /\ UNCHANGED <<log, now, terminated, saying>>
        /\ Replayed(cursor, log[i]) => accepted' = accepted
        /\ ~Replayed(cursor, log[i]) => accepted' = Append(accepted, i)
  BY ReadOne
<1>2. CASE Replayed(cursor, log[i])
  BY <1>1, <1>2
<1>3. CASE ~Replayed(cursor, log[i])
  <2>1. ASSUME accepted # <<>> PROVE i = accepted[Len(accepted)] + 1
    <3>1. stream.pos <= LastTaken /\ LastTaken \in Nat /\ stream.pos \in Nat
      <4>1. stream.pos <= LastTaken
        BY <2>1 DEF FollowInv, CursorInv
      <4> QED BY <2>1, <4>1, LogFacts
    <3>2. ~(stream.pos < LastTaken)
      BY <1>1, <1>3, <2>1, ReplayedBehind
    <3> QED BY <1>1, <3>1, <3>2 DEF LastTaken
  <2>2. Promise!Take(i)
    BY <1>1, <1>3, <2>1 DEF Promise!Take
  <2> QED BY <2>2
<1> QED BY <1>2, <1>3

\* However streams break and overlap, the lines taken are those of the log from
\* where the tail begins, each once and in order ("Discard overlap ... without
\* hiding additional, identical lines").
THEOREM LogIsFollowed == ~TailSplitsTie => (StreamSpec => FollowsLog)
<1> SUFFICES ASSUME ~TailSplitsTie PROVE StreamSpec => FollowsLog
  OBVIOUS
<1>1. StreamInit => Promise!Init
  BY DEF StreamInit, Promise!Init
<1>2. FollowInv /\ [StreamNext]_streamVars => [Promise!Next]_(Promise!vars)
  <2> SUFFICES ASSUME FollowInv, [StreamNext]_streamVars PROVE [Promise!Next]_(Promise!vars)
    OBVIOUS
  <2>1. ASSUME NEW text \in Texts, Write(text) PROVE Promise!Next
    <3> DEFINE l == [at |-> now, text |-> text]
    <3>1. l \in Line
      BY DEF FollowInv, StreamTypeOK, Line
    <3>2. Promise!Write(l)
      BY <2>1 DEF Write, Promise!Write, lines
    <3> QED BY <3>1, <3>2 DEF Promise!Next
  <2>2. CASE Scan
    BY <2>2, ScanTakes DEF Promise!Next, Promise!vars
  <2>3. CASE ~Scan /\ \A text \in Texts : ~Write(text)
    BY <2>3, OtherStepsTakeNothing DEF Promise!vars
  <2> QED BY <2>1, <2>2, <2>3
<1> QED BY FollowInvariance, <1>1, <1>2, PTL DEF StreamSpec, FollowsLog, Promise!Spec

-----------------------------------------------------------------------------
(* The end that is told.                                                   *)

LEMMA EndInitially == StreamInit => EndInv
<1> SUFFICES ASSUME StreamInit PROVE EndInv
  OBVIOUS
<1>1. /\ out = <<>> /\ batch = <<>> /\ shown = <<>> /\ accepted = <<>> /\ dropped = {}
      /\ finishing = FALSE /\ cancelled = FALSE /\ clean = FALSE /\ gotLine = FALSE
      /\ consec = 0 /\ retries = 0 /\ endedBy = "none" /\ saying = "eos" /\ spc = "start"
      /\ reconnecting = FALSE /\ err = FALSE /\ finished = FALSE /\ stream.open = FALSE
  BY DEF StreamInit, NoStream
<1>2. EndTypeOK
  <2>1. cancelled \in BOOLEAN /\ finishing \in BOOLEAN /\ gotLine \in BOOLEAN /\ clean \in BOOLEAN
        /\ reconnecting \in BOOLEAN /\ err \in BOOLEAN /\ finished \in BOOLEAN
    BY <1>1, Zenon
  <2>2. out \in Seq(LogLine) /\ batch \in Seq(Nat) /\ shown \in Seq(Nat)
    BY <1>1
  <2>3. consec \in Nat /\ retries \in Nat /\ endedBy \in Endings \cup {"none"}
    BY <1>1
  <2> QED BY <2>1, <2>2, <2>3 DEF EndTypeOK
<1>3. DrainInv
  BY <1>1 DEF DrainInv
<1>4. RetryInv
  BY <1>1, LimitAssumption DEF RetryInv
<1>5. PipelineInv
  <2>1. DOMAIN out = {} /\ DOMAIN batch = {} /\ DOMAIN shown = {} /\ DOMAIN accepted = {}
    BY <1>1
  <2>2. Range(shown) = {} /\ Range(batch) = {} /\ Range(accepted) = {} /\ LinesOf(out) = {}
    BY <2>1 DEF Range, LinesOf
  <2> QED BY <1>1, <2>1, <2>2 DEF PipelineInv, Rising
<1>6. SaidInv
  <2>1. DOMAIN out = {}
    BY <1>1
  <2>2. ~ErrInOut
    BY <2>1 DEF ErrInOut
  <2> QED BY <1>1, <2>1, <2>2 DEF SaidInv
<1> QED BY <1>2, <1>3, <1>4, <1>5, <1>6 DEF EndInv

\* The end of a stream that counts as complete is the end of the log.
LEMMA DrainStep ==
  ASSUME FollowInv, EndInv, [StreamNext]_streamVars PROVE DrainInv'
<1>1. /\ terminated \in BOOLEAN /\ finishing \in BOOLEAN /\ clean \in BOOLEAN
      /\ stream \in [pos : 0..Len(log), whole : BOOLEAN, first : BOOLEAN, open : BOOLEAN]
  BY DEF FollowInv, EndInv, EndTypeOK, StreamTypeOK
<1>2. DrainInv /\ (endedBy # "none" => spc \in {"say", "done"})
  BY DEF EndInv, SaidInv
<1>3. ASSUME NEW text \in Texts, Write(text) PROVE DrainInv'
  BY <1>1, <1>2, <1>3 DEF DrainInv, Write, streamer, locals, lines, LastTaken
<1>4. CASE Tick \/ Cancel
  BY <1>2, <1>4 DEF DrainInv, Tick, Cancel, container, streamer, locals, lines, LastTaken
<1>5. CASE Terminate
  BY <1>2, <1>5 DEF DrainInv, Terminate, streamer, locals, lines, LastTaken
<1>6. ASSUME NEW pos \in 0..MaxLines, Start(pos) PROVE DrainInv'
  BY <1>1, <1>2, <1>6 DEF DrainInv, Start, Opened, container, locals, lines, LastTaken
<1>7. ASSUME NEW isClean \in BOOLEAN, ScanEnds(isClean),
             isClean => ~stream.whole \/ stream.pos = Len(log)
      PROVE  DrainInv'
  BY <1>1, <1>2, <1>7 DEF DrainInv, ScanEnds, container, lines, LastTaken
<1>8. ASSUME NEW isClean \in BOOLEAN, Break(isClean) PROVE DrainInv'
  BY <1>7, <1>8 DEF Break
<1>9. CASE LogEnds \/ Interrupt
  BY <1>7, <1>9 DEF LogEnds, Interrupt
<1>10. CASE Scan
  <2>1. /\ spc = "scan" /\ endedBy = "none" /\ stream'.whole = stream.whole
        /\ stream'.open = stream.open
        /\ UNCHANGED <<log, terminated, spc, finishing, clean, endedBy>>
    BY <1>1, <1>2, <1>10 DEF Scan, container
  <2> QED BY <1>2, <2>1 DEF DrainInv
<1>11. CASE Skip
  BY <1>1, <1>2, <1>11 DEF DrainInv, Skip, container, lines, LastTaken
<1>12. CASE ReturnCancelled \/ ReopenFatal
  BY <1>1, <1>2, <1>12 DEF DrainInv, ReturnCancelled, ReopenFatal, ReturnBecause, container, lines, LastTaken
<1>13. CASE ReturnComplete
  <2>1. /\ spc = "scanned" /\ clean /\ finishing /\ spc' = "say" /\ endedBy' = "complete"
        /\ UNCHANGED <<log, terminated, stream, finishing, clean, accepted>>
    BY <1>13 DEF ReturnComplete, ReturnBecause, Drained, container, lines
  <2>2. terminated /\ stream.pos = Len(log)
    BY <1>2, <2>1 DEF DrainInv
  <2>3. accepted # <<>> => LastTaken = Len(log)
    <3>1. accepted # <<>> => stream.pos <= LastTaken
      BY DEF FollowInv, CursorInv
    <3>2. accepted # <<>> => LastTaken \in 1..Len(log) /\ Len(log) \in Nat
      BY LogFacts
    <3> QED BY <2>2, <3>1, <3>2
  <2> QED BY <1>2, <2>1, <2>2, <2>3 DEF DrainInv, LastTaken
<1>14. ASSUME NEW complete \in BOOLEAN, LogsComplete(complete) PROVE DrainInv'
  BY <1>1, <1>2, <1>14 DEF DrainInv, LogsComplete, container, lines, LastTaken
<1>15. CASE Count
  BY <1>1, <1>2, <1>15 DEF DrainInv, Count, container, lines, LastTaken
<1>16. CASE Say
  <2>1. UNCHANGED <<log, terminated, stream, finishing, clean, endedBy, accepted>> /\ spc = "say"
    BY <1>16 DEF Say, container
  <2>2. spc' # "scan" /\ spc' # "scanned"
    <3>1. saying \in Controls
      BY DEF FollowInv, StreamTypeOK
    <3> QED BY <1>16, <2>1, <3>1 DEF Say, Controls
  <2> QED BY <1>2, <2>1, <2>2 DEF DrainInv, LastTaken
<1>17. CASE Backoff
  BY <1>1, <1>2, <1>17 DEF DrainInv, Backoff, container, locals, lines, LastTaken
<1>18. ASSUME NEW since \in 1..MaxTime, Reopen(since) PROVE DrainInv'
  BY <1>1, <1>2, <1>18 DEF DrainInv, Reopen, Opened, Loop, container, lines, LastTaken
<1>19. CASE ReopenFails
  BY <1>1, <1>2, <1>19 DEF DrainInv, ReopenFails, Loop, NoStream, container, lines, LastTaken
<1>20. CASE ForwardLogs \/ UNCHANGED streamVars
  <2>1. UNCHANGED <<log, terminated, stream, finishing, clean, endedBy, accepted, spc>>
    BY <1>20 DEF ForwardLogs, ReceiveLine, ReceiveControl, FlushTimer, OutClosed,
         streamVars, container, streamer, locals, lines
  <2> QED BY <1>2, <2>1 DEF DrainInv, LastTaken
<1> QED BY <1>3, <1>4, <1>5, <1>6, <1>8, <1>9, <1>10, <1>11, <1>12, <1>13, <1>14, <1>15, <1>16,
           <1>17, <1>18, <1>19, <1>20 DEF StreamNext, Run

\* The attempts counted are the streams reopened.
LEMMA RetryStep ==
  ASSUME FollowInv, EndInv, [StreamNext]_streamVars PROVE RetryInv'
<1>1. /\ consec \in Nat /\ retries \in Nat /\ gotLine \in BOOLEAN /\ MaxFailures \in Nat
      /\ saying \in Controls
  BY LimitAssumption DEF FollowInv, StreamTypeOK, EndInv, EndTypeOK
<1>2. /\ RetryInv
      /\ endedBy # "none" => spc \in {"say", "done"} /\ saying \in {"err", "eos"}
  BY DEF EndInv, SaidInv
<1>3. CASE \/ \E text \in Texts : Write(text)
           \/ Tick \/ Terminate \/ Cancel \/ ForwardLogs \/ UNCHANGED streamVars
  <2>1. UNCHANGED <<spc, saying, consec, retries, gotLine, endedBy>>
    BY <1>3 DEF Write, Tick, Terminate, Cancel, ForwardLogs, ReceiveLine, ReceiveControl, FlushTimer,
         OutClosed, streamVars, streamer, locals
  <2> QED BY <1>2, <2>1 DEF RetryInv
<1>4. ASSUME NEW pos \in 0..MaxLines, Start(pos) PROVE RetryInv'
  BY <1>2, <1>4 DEF RetryInv, Start, locals
<1>5. ASSUME NEW isClean \in BOOLEAN, ScanEnds(isClean) PROVE RetryInv'
  BY <1>2, <1>5 DEF RetryInv, ScanEnds
<1>6. CASE Scan
  <2>1. spc = "scan" /\ endedBy = "none"
    BY <1>2, <1>6 DEF Scan
  <2>2. /\ UNCHANGED <<spc, consec, endedBy>>
        /\ UNCHANGED <<gotLine, retries>> \/ (gotLine' = TRUE /\ retries' = 0)
    BY <1>6 DEF Scan
  <2> QED BY <1>1, <1>2, <2>1, <2>2 DEF RetryInv
<1>7. CASE Skip
  BY <1>2, <1>7 DEF RetryInv, Skip
<1>8. CASE ReturnCancelled \/ ReturnComplete
  BY <1>2, <1>8 DEF RetryInv, ReturnCancelled, ReturnComplete, ReturnBecause
<1>9. CASE ReopenFatal
  BY <1>2, <1>9 DEF RetryInv, ReopenFatal
<1>10. ASSUME NEW complete \in BOOLEAN, LogsComplete(complete) PROVE RetryInv'
  <2>1. /\ spc = "scanned" /\ spc' = "count" /\ endedBy' = "none"
        /\ consec' = (IF complete THEN 0 ELSE consec) /\ retries' = (IF complete THEN 0 ELSE retries)
        /\ gotLine' = gotLine
    BY <1>2, <1>10 DEF LogsComplete
  <2> QED BY <1>1, <1>2, <2>1 DEF RetryInv
<1>11. CASE Count
  <2>1. /\ spc \in {"count", "scanned"} /\ endedBy = "none" /\ consec' = Failures /\ spc' = "say"
        /\ retries' = retries
        /\ Failures > MaxFailures => saying' = "err" /\ endedBy' = "failed"
        /\ ~(Failures > MaxFailures) => saying' = "reconnecting" /\ endedBy' = "none"
    BY <1>2, <1>11 DEF Count
  <2>2. Failures = retries + 1
    BY <1>1, <1>2, <2>1 DEF RetryInv, Failures
  <2> QED BY <1>1, <1>2, <2>1, <2>2 DEF RetryInv
<1>12. CASE Say
  <2>1. spc = "say" /\ UNCHANGED <<consec, gotLine, retries, endedBy>>
    BY <1>12 DEF Say
  <2>2. \/ saying = "reconnecting" /\ spc' = "backoff"
        \/ saying' = "eos" /\ spc' \in {"say", "done"}
    BY <1>1, <1>12, <2>1 DEF Say, Controls
  <2> QED BY <1>2, <2>1, <2>2 DEF RetryInv
<1>13. CASE Backoff
  BY <1>2, <1>13 DEF RetryInv, Backoff, locals
<1>14. CASE ReopenFails \/ \E since \in 1..MaxTime : Reopen(since)
  <2>1. /\ spc = "open" /\ endedBy = "none" /\ spc' = "scan" /\ gotLine' = FALSE
        /\ retries' = retries + 1 /\ UNCHANGED <<consec, endedBy>>
    BY <1>2, <1>14 DEF ReopenFails, Reopen, Loop
  <2> QED BY <1>1, <1>2, <2>1 DEF RetryInv
<1> QED BY <1>3, <1>4, <1>5, <1>6, <1>7, <1>8, <1>9, <1>10, <1>11, <1>12, <1>13, <1>14
           DEF StreamNext, Run, Break, LogEnds, Interrupt

\* Steps that neither send nor show.
LEMMA SaidQuiet ==
  ASSUME SaidInv, UNCHANGED <<out, err, finished, batch, reconnecting>>,
         spc = "done" => spc' = "done" /\ saying' = saying,
         endedBy' # "none" => spc' \in {"say", "done"} /\ saying' \in {"err", "eos"},
         spc' = "say" /\ saying' = "err" => endedBy' \in {"failed", "fatal"},
         spc' = "done" => saying' = "eos",
         err \/ ErrInOut => endedBy' \in {"failed", "fatal"} /\ saying' = "eos",
         ~cancelled' /\ endedBy' \in {"failed", "fatal"} /\ saying' = "eos" => err \/ ErrInOut
  PROVE  SaidInv'
<1>1. ErrInOut' = ErrInOut
  BY DEF ErrInOut
<1> QED BY <1>1 DEF SaidInv

\* While runStream is on its way nothing was said of an end.
LEMMA NothingSaid ==
  ASSUME SaidInv, spc \notin {"say", "done"} \/ saying = "reconnecting"
  PROVE  /\ endedBy = "none" /\ ~err /\ ~ErrInOut /\ spc # "done" /\ ~finished
         /\ \A i \in DOMAIN out : out[i].kind \notin {"err", "eos"}
BY DEF SaidInv, ErrInOut

\* What sending one more does to what is in Out.
LEMMA Sent ==
  ASSUME out \in Seq(LogLine), NEW m \in LogLine, out' = Append(out, m)
  PROVE  /\ DOMAIN out = 1..Len(out) /\ Len(out) \in Nat /\ DOMAIN out' = 1..(Len(out) + 1)
         /\ out'[Len(out) + 1] = m /\ \A i \in 1..Len(out) : out'[i] = out[i]
         /\ ErrInOut' <=> ErrInOut \/ m.kind = "err"
<1>1. /\ DOMAIN out = 1..Len(out) /\ Len(out) \in Nat /\ DOMAIN out' = 1..(Len(out) + 1)
      /\ out'[Len(out) + 1] = m /\ \A i \in 1..Len(out) : out'[i] = out[i]
  OBVIOUS
<1>2. ErrInOut' <=> ErrInOut \/ m.kind = "err"
  BY <1>1 DEF ErrInOut
<1> QED BY <1>1, <1>2

\* What taking the first does to it.
LEMMA Taken ==
  ASSUME out \in Seq(LogLine), out # <<>>, out' = Tail(out)
  PROVE  /\ DOMAIN out = 1..Len(out) /\ Len(out) \in Nat \ {0} /\ Head(out) = out[1]
         /\ Head(out) \in LogLine /\ 1 \in DOMAIN out
         /\ DOMAIN out' = 1..(Len(out) - 1)
         /\ \A i \in DOMAIN out' : out'[i] = out[i + 1] /\ i + 1 \in DOMAIN out
         /\ \A i \in DOMAIN out : i = 1 \/ (i - 1 \in DOMAIN out' /\ out'[i - 1] = out[i])
         /\ ErrInOut <=> ErrInOut' \/ Head(out).kind = "err"
<1>1. /\ DOMAIN out = 1..Len(out) /\ Len(out) \in Nat \ {0} /\ Head(out) = out[1]
      /\ Head(out) \in LogLine /\ 1 \in DOMAIN out
  OBVIOUS
<1>2. /\ DOMAIN out' = 1..(Len(out) - 1)
      /\ \A i \in DOMAIN out' : out'[i] = out[i + 1] /\ i + 1 \in DOMAIN out
  BY <1>1
<1>3. \A i \in DOMAIN out : i = 1 \/ (i - 1 \in DOMAIN out' /\ out'[i - 1] = out[i])
  <2> SUFFICES ASSUME NEW i \in DOMAIN out, i # 1 PROVE i - 1 \in DOMAIN out' /\ out'[i - 1] = out[i]
    OBVIOUS
  <2>1. i - 1 \in DOMAIN out' /\ i - 1 + 1 = i
    BY <1>1, <1>2
  <2> QED BY <1>2, <2>1
<1>4. ErrInOut <=> ErrInOut' \/ Head(out).kind = "err"
  <2>1. ASSUME ErrInOut, Head(out).kind # "err" PROVE ErrInOut'
    <3>1. PICK i \in DOMAIN out : out[i].kind = "err"
      BY <2>1 DEF ErrInOut
    <3>2. i # 1
      BY <1>1, <2>1, <3>1
    <3> QED BY <1>3, <3>1, <3>2 DEF ErrInOut
  <2>2. ErrInOut' => ErrInOut
    BY <1>2 DEF ErrInOut
  <2>3. Head(out).kind = "err" => ErrInOut
    BY <1>1 DEF ErrInOut
  <2> QED BY <2>1, <2>2, <2>3
<1> QED BY <1>1, <1>2, <1>3, <1>4

\* A step of runStream that sends a line or announces the next attempt.
LEMMA SaidMore ==
  ASSUME EndInv, NEW m \in LogLine, m.kind \in {"line", "reconnecting"}, out' = Append(out, m),
         spc \notin {"say", "done"} \/ saying = "reconnecting",
         spc' \notin {"say", "done"}, saying' = saying, endedBy' = endedBy,
         UNCHANGED <<cancelled, err, finished>>
  PROVE  SaidInv'
<1>1. out \in Seq(LogLine) /\ SaidInv
  BY DEF EndInv, EndTypeOK
<1>2. /\ endedBy = "none" /\ ~err /\ ~ErrInOut /\ ~finished
      /\ \A i \in DOMAIN out : out[i].kind \notin {"err", "eos"}
  BY <1>1, NothingSaid
<1>3. /\ ~ErrInOut' /\ \A i \in DOMAIN out' : out'[i].kind \notin {"err", "eos"}
  <2>1. \A i \in DOMAIN out' : (i \in DOMAIN out /\ out'[i] = out[i]) \/ out'[i] = m
    BY <1>1, Sent
  <2> QED BY <1>1, <1>2, <2>1, Sent
<1> QED BY <1>2, <1>3 DEF SaidInv

LEMMA SayStep == ASSUME FollowInv, EndInv, Say PROVE SaidInv'
<1>1. /\ spc = "say" /\ SendBlocking(saying) /\ saying \in Controls /\ out \in Seq(LogLine) /\ SaidInv
      /\ UNCHANGED <<cancelled, endedBy, batch, err, finished, reconnecting>>
  BY DEF Say, FollowInv, StreamTypeOK, EndInv, EndTypeOK, forwarder, ui
<1>2. PICK m \in LogLine : m = Control(saying) /\ m.kind = saying
  <2>1. Control(saying) \in LogLine /\ Control(saying).kind = saying
    BY <1>1, BoundAssumption DEF LogLine, Control
  <2> QED BY <2>1
<1>3. out' = Append(out, m) \/ (cancelled /\ out' = out)
  BY <1>1, <1>2 DEF SendBlocking
<1>4. CASE saying = "reconnecting"
  <2>1. spc' = "backoff" /\ saying' = saying
    BY <1>4 DEF Say
  <2>2. CASE out' = Append(out, m)
    BY <1>1, <1>2, <1>4, <2>1, <2>2, SaidMore
  <2>3. CASE out' = out
    BY <1>1, <1>4, <2>1, <2>3, NothingSaid, SaidQuiet
  <2> QED BY <1>3, <2>2, <2>3
<1>5. CASE saying = "err"
  <2>1. spc' = "say" /\ saying' = "eos"
    BY <1>1, <1>5 DEF Say
  <2>2. /\ endedBy \in {"failed", "fatal"} /\ ~err /\ ~ErrInOut /\ ~finished
        /\ \A i \in DOMAIN out : out[i].kind \notin {"err", "eos"}
    BY <1>1, <1>5 DEF SaidInv, ErrInOut
  <2>3. CASE out' = Append(out, m)
    <3>1. ErrInOut'
      BY <1>1, <1>2, <1>5, <2>3, Sent
    <3>2. \A i \in DOMAIN out' : /\ out'[i].kind # "eos"
                                 /\ out'[i].kind = "err" => i = Len(out) + 1
      <4>1. \A i \in DOMAIN out' : \/ i \in DOMAIN out /\ out'[i] = out[i]
                                   \/ i = Len(out) + 1 /\ out'[i] = m
        BY <1>1, <2>3, Sent
      <4> QED BY <1>2, <1>5, <2>2, <4>1
    <3>3. \A i, j \in DOMAIN out' : i < j => i # Len(out) + 1
      BY <1>1, <2>3, Sent
    <3>4. \A i, j \in DOMAIN out' : i < j => /\ out'[i].kind = "err" => out'[j].kind = "eos"
                                             /\ out'[i].kind # "eos"
      BY <3>2, <3>3
    <3> QED BY <1>1, <2>1, <2>2, <3>1, <3>2, <3>4 DEF SaidInv
  <2>4. CASE cancelled /\ out' = out
    BY <1>1, <2>1, <2>2, <2>4, SaidQuiet
  <2> QED BY <1>3, <2>3, <2>4
<1>6. CASE saying = "eos"
  <2>1. spc' = "done" /\ saying' = "eos"
    BY <1>6 DEF Say
  <2>2. ~finished /\ \A i \in DOMAIN out : out[i].kind # "eos"
    BY <1>1 DEF SaidInv
  <2>3. CASE out' = Append(out, m)
    <3>1. ErrInOut' <=> ErrInOut
      BY <1>1, <1>2, <1>6, <2>3, Sent
    <3>2. \A i \in DOMAIN out' : \/ i \in 1..Len(out) /\ i \in DOMAIN out /\ out'[i] = out[i]
                                 \/ i = Len(out) + 1 /\ out'[i].kind = "eos"
      BY <1>1, <1>2, <1>6, <2>3, Sent
    <3>3. \A i, j \in DOMAIN out' : i < j => i \in DOMAIN out /\ out'[i] = out[i]
      BY <1>1, <3>2, Sent, <2>3
    <3>4. \A i, j \in DOMAIN out' : i < j => /\ out'[i].kind = "err" => out'[j].kind = "eos"
                                             /\ out'[i].kind # "eos"
      BY <1>1, <2>2, <3>2, <3>3 DEF SaidInv
    <3>5. err => \A i \in DOMAIN out' : out'[i].kind = "eos"
      BY <1>1, <3>2 DEF SaidInv
    <3> QED BY <1>1, <1>6, <2>1, <2>2, <3>1, <3>4, <3>5 DEF SaidInv
  <2>4. CASE out' = out
    BY <1>1, <1>6, <2>1, <2>4, SaidQuiet DEF SaidInv
  <2> QED BY <1>3, <2>3, <2>4
<1> QED BY <1>1, <1>4, <1>5, <1>6 DEF Controls

\* The UI is told what was sent, first to last.
LEMMA ReceiveLineSaid == ASSUME EndInv, ReceiveLine PROVE SaidInv'
<1>1. /\ out # <<>> /\ Head(out).kind = "line" /\ out' = Tail(out)
      /\ UNCHANGED <<spc, saying, endedBy, cancelled, err, finished>>
  BY DEF ReceiveLine, streamer, locals
<1>2. out \in Seq(LogLine) /\ SaidInv
  BY DEF EndInv, EndTypeOK
<1>3. ErrInOut' <=> ErrInOut
  BY <1>1, <1>2, Taken
<1>4. \A i \in DOMAIN out' : out'[i] = out[i + 1] /\ i + 1 \in DOMAIN out /\ i \in Nat
  BY <1>1, <1>2, Taken
<1>5. \A i, j \in DOMAIN out' : i < j => i + 1 < j + 1
  BY <1>4
<1>6. ~finished
  BY <1>1, <1>2 DEF SaidInv
<1> QED BY <1>1, <1>2, <1>3, <1>4, <1>5, <1>6 DEF SaidInv

LEMMA ReceiveControlSaid == ASSUME EndInv, ReceiveControl PROVE SaidInv'
<1>1. /\ out # <<>> /\ Head(out).kind # "line" /\ out' = Tail(out) /\ batch' = <<>>
      /\ UNCHANGED <<spc, saying, endedBy, cancelled>>
      /\ Head(out).kind = "reconnecting" => err' = FALSE /\ UNCHANGED finished
      /\ Head(out).kind = "err" => err' = TRUE /\ UNCHANGED finished
      /\ Head(out).kind = "eos" => finished' = TRUE /\ reconnecting' = FALSE /\ UNCHANGED err
  BY DEF ReceiveControl, FlushFirst, FlushBatch, streamer, locals
<1>2. out \in Seq(LogLine) /\ SaidInv
  BY DEF EndInv, EndTypeOK
<1>3. ErrInOut <=> ErrInOut' \/ Head(out).kind = "err"
  BY <1>1, <1>2, Taken
<1>4. \A i \in DOMAIN out' : out'[i] = out[i + 1] /\ i + 1 \in DOMAIN out /\ i \in Nat \ {0}
  BY <1>1, <1>2, Taken
<1>5. \A i, j \in DOMAIN out' : i < j => i + 1 < j + 1
  BY <1>4
<1>6. ~finished /\ Head(out) = out[1] /\ 1 \in DOMAIN out
  BY <1>1, <1>2, Taken DEF SaidInv
<1>7. Head(out).kind \in {"reconnecting", "err", "eos"}
  <2>1. Head(out) \in LogLine
    BY <1>1, <1>2, Taken
  <2> QED BY <1>1, <2>1 DEF LogLine, Controls
<1>8. \A i, j \in DOMAIN out' : i < j => /\ out'[i].kind = "err" => out'[j].kind = "eos"
                                         /\ out'[i].kind # "eos"
  BY <1>2, <1>4, <1>5 DEF SaidInv
<1>9. \A i \in DOMAIN out' : out'[i].kind = "eos" => spc' = "done"
  BY <1>1, <1>2, <1>4 DEF SaidInv
<1>10. \A i \in DOMAIN out' : 1 < i + 1
  BY <1>4
<1>11. CASE Head(out).kind = "reconnecting"
  <2>1. ~err
    BY <1>2, <1>6, <1>11 DEF SaidInv
  <2>2. err' = FALSE /\ finished' = finished /\ (ErrInOut' <=> ErrInOut)
    BY <1>1, <1>3, <1>11
  <2> QED BY <1>1, <1>2, <1>6, <1>8, <1>9, <2>1, <2>2 DEF SaidInv
<1>12. CASE Head(out).kind = "err"
  <2>1. \A i \in DOMAIN out' : out'[i].kind = "eos"
    BY <1>2, <1>4, <1>6, <1>10, <1>12 DEF SaidInv
  <2>2. endedBy \in {"failed", "fatal"} /\ saying = "eos"
    BY <1>2, <1>3, <1>12 DEF SaidInv
  <2>3. err' = TRUE /\ finished' = finished
    BY <1>1, <1>12
  <2> QED BY <1>1, <1>2, <1>6, <1>8, <1>9, <2>1, <2>2, <2>3 DEF SaidInv
<1>13. CASE Head(out).kind = "eos"
  <2>1. spc = "done"
    BY <1>2, <1>6, <1>13 DEF SaidInv
  <2>2. \A i \in DOMAIN out' : FALSE
    BY <1>2, <1>4, <1>6, <1>10, <1>13 DEF SaidInv
  <2>3. out' = <<>>
    <3>1. out' \in Seq(LogLine)
      BY <1>1, <1>2
    <3> QED BY <2>2, <3>1
  <2>4. ErrInOut' <=> ErrInOut
    BY <1>3, <1>13
  <2>5. finished' = TRUE /\ reconnecting' = FALSE /\ err' = err
    BY <1>1, <1>13
  <2> QED BY <1>1, <1>2, <1>8, <1>9, <2>1, <2>2, <2>3, <2>4, <2>5 DEF SaidInv
<1> QED BY <1>7, <1>11, <1>12, <1>13

LEMMA FlushSaid == ASSUME EndInv, FlushTimer \/ OutClosed PROVE SaidInv'
<1>1. /\ batch' = <<>> /\ UNCHANGED <<spc, saying, endedBy, cancelled, out, err, finished>>
      /\ reconnecting' = FALSE \/ reconnecting' = reconnecting
  BY DEF FlushTimer, OutClosed, FlushBatch, streamer, locals, lines
<1>2. SaidInv /\ reconnecting \in BOOLEAN
  BY DEF EndInv, EndTypeOK
<1>3. ErrInOut' <=> ErrInOut
  BY <1>1 DEF ErrInOut
<1> QED BY <1>1, <1>2, <1>3 DEF SaidInv

LEMMA SaidStep ==
  ASSUME FollowInv, EndInv, [StreamNext]_streamVars PROVE SaidInv'
<1> DEFINE Still == UNCHANGED <<out, err, finished, batch, reconnecting>>
<1>1. SaidInv /\ out \in Seq(LogLine) /\ cancelled \in BOOLEAN
  BY DEF EndInv, EndTypeOK
<1>2. CASE \/ \E text \in Texts : Write(text)
           \/ Tick \/ Terminate \/ Cancel \/ UNCHANGED streamVars
  <2>1. Still /\ UNCHANGED <<spc, saying, endedBy>> /\ cancelled' \in {cancelled, TRUE}
    BY <1>2 DEF Write, Tick, Terminate, Cancel, streamVars, container, streamer, locals, lines,
                forwarder, ui
  <2>2. ErrInOut' <=> ErrInOut
    BY <2>1 DEF ErrInOut
  <2> QED BY <1>1, <2>1, <2>2 DEF SaidInv
<1>3. ASSUME Still, spc \notin {"say", "done"}, spc' \notin {"say", "done"}, endedBy' = endedBy
      PROVE  SaidInv'
  BY <1>1, <1>3, NothingSaid, SaidQuiet
<1>4. ASSUME NEW pos \in 0..MaxLines, Start(pos) PROVE SaidInv'
  BY <1>3, <1>4 DEF Start, lines, forwarder, ui
<1>5. ASSUME NEW isClean \in BOOLEAN, ScanEnds(isClean) PROVE SaidInv'
  BY <1>3, <1>5 DEF ScanEnds, lines, forwarder, ui
<1>6. CASE Scan
  <2>1. /\ spc = "scan" /\ UNCHANGED <<spc, saying, endedBy, cancelled, batch, err, finished, reconnecting>>
        /\ out' = out \/ out' = Append(out, LineAt(stream.pos + 1))
    BY <1>6 DEF Scan, Send, lines, forwarder, ui
  <2>2. CASE out' = out
    BY <1>3, <2>1, <2>2
  <2>3. CASE out' = Append(out, LineAt(stream.pos + 1))
    <3>1. PICK m \in LogLine : m = LineAt(stream.pos + 1) /\ m.kind = "line"
      <4>1. stream.pos + 1 \in 0..MaxLines
        <5>1. stream.pos < Len(log)
          BY <1>6 DEF Scan
        <5>2. Len(log) <= MaxLines
          BY DEF FollowInv, StreamTypeOK
        <5> QED BY <5>1, <5>2, LogFacts, BoundAssumption
      <4>2. LineAt(stream.pos + 1) \in LogLine /\ LineAt(stream.pos + 1).kind = "line"
        BY <4>1 DEF LineAt, LogLine
      <4> QED BY <4>2
    <3> QED BY <2>1, <2>3, <3>1, SaidMore
  <2> QED BY <2>1, <2>2, <2>3
<1>7. CASE Skip
  BY <1>3, <1>7 DEF Skip, lines, forwarder, ui
<1>8. ASSUME NEW why \in {"complete", "cancelled"}, ReturnBecause(why), Still,
             spc \notin {"say", "done"}, UNCHANGED cancelled
      PROVE  SaidInv'
  <2>1. spc' = "say" /\ saying' = "eos" /\ endedBy' = why
    BY <1>8 DEF ReturnBecause
  <2> QED BY <1>1, <1>8, <2>1, NothingSaid, SaidQuiet
<1>9. CASE ReturnCancelled
  BY <1>8, <1>9 DEF ReturnCancelled, lines, forwarder, ui
<1>10. CASE ReturnComplete
  BY <1>8, <1>10 DEF ReturnComplete, lines, forwarder, ui
<1>11. ASSUME NEW complete \in BOOLEAN, LogsComplete(complete) PROVE SaidInv'
  BY <1>3, <1>11 DEF LogsComplete, lines, forwarder, ui
<1>12. CASE Count
  <2>1. /\ Still /\ spc \in {"count", "scanned"} /\ spc' = "say" /\ cancelled' = cancelled
        /\ \/ saying' = "err" /\ endedBy' = "failed"
           \/ saying' = "reconnecting" /\ endedBy' = endedBy
    BY <1>12 DEF Count, lines, forwarder, ui
  <2> QED BY <1>1, <2>1, NothingSaid, SaidQuiet
<1>13. CASE Say
  BY <1>13, SayStep
<1>14. CASE Backoff
  BY <1>3, <1>14 DEF Backoff, locals, lines, forwarder, ui
<1>15. CASE ReopenFails \/ \E since \in 1..MaxTime : Reopen(since)
  BY <1>3, <1>15 DEF ReopenFails, Reopen, Loop, lines, forwarder, ui
<1>16. CASE ReopenFatal
  <2>1. Still /\ spc = "open" /\ spc' = "say" /\ saying' = "err" /\ endedBy' = "fatal"
    BY <1>16 DEF ReopenFatal, lines, forwarder, ui
  <2> QED BY <1>1, <2>1, NothingSaid, SaidQuiet
<1>17. CASE ForwardLogs
  BY <1>17, ReceiveLineSaid, ReceiveControlSaid, FlushSaid DEF ForwardLogs
<1> QED BY <1>2, <1>4, <1>5, <1>6, <1>7, <1>9, <1>10, <1>11, <1>12, <1>13, <1>14, <1>15, <1>16, <1>17
           DEF StreamNext, Run, Break, LogEnds, Interrupt

\* Lines in order, put together.
LEMMA Joined ==
  ASSUME NEW s \in Seq(Nat), NEW t \in Seq(Nat)
  PROVE  /\ s \o t \in Seq(Nat) /\ Range(s \o t) = Range(s) \cup Range(t)
         /\ Rising(s) /\ Rising(t) /\ (\A x \in Range(s), y \in Range(t) : x < y) => Rising(s \o t)
<1>1. /\ s \o t \in Seq(Nat) /\ Len(s) \in Nat /\ Len(t) \in Nat
      /\ DOMAIN s = 1..Len(s) /\ DOMAIN t = 1..Len(t) /\ DOMAIN (s \o t) = 1..(Len(s) + Len(t))
      /\ \A i \in 1..Len(s) : (s \o t)[i] = s[i]
      /\ \A i \in 1..Len(t) : (s \o t)[Len(s) + i] = t[i]
  OBVIOUS
<1> DEFINE u == s \o t
<1>2. \A i \in DOMAIN u : \/ i \in DOMAIN s /\ u[i] = s[i]
                          \/ i \notin DOMAIN s /\ i - Len(s) \in DOMAIN t /\ u[i] = t[i - Len(s)]
  <2> SUFFICES ASSUME NEW i \in DOMAIN u, i \notin DOMAIN s
               PROVE  i - Len(s) \in DOMAIN t /\ u[i] = t[i - Len(s)]
    BY <1>1
  <2>1. i - Len(s) \in 1..Len(t) /\ Len(s) + (i - Len(s)) = i
    BY <1>1
  <2> QED BY <1>1, <2>1
<1>3. \A i \in DOMAIN t : Len(s) + i \in DOMAIN u /\ u[Len(s) + i] = t[i]
  BY <1>1
<1>4. \A i \in DOMAIN s : i \in DOMAIN u /\ u[i] = s[i]
  BY <1>1
<1>5. u \in Seq(Nat) /\ DOMAIN u = 1..(Len(s) + Len(t))
  BY <1>1
<1> HIDE DEF u
<1>6. Range(u) = Range(s) \cup Range(t)
  <2>1. Range(s) \subseteq Range(u)
    BY <1>4 DEF Range
  <2>2. Range(t) \subseteq Range(u)
    BY <1>3 DEF Range
  <2>3. Range(u) \subseteq Range(s) \cup Range(t)
    BY <1>2 DEF Range
  <2> QED BY <2>1, <2>2, <2>3
<1>7. ASSUME Rising(s), Rising(t), \A x \in Range(s), y \in Range(t) : x < y PROVE Rising(u)
  <2> SUFFICES ASSUME NEW i \in DOMAIN u, NEW j \in DOMAIN u, i < j PROVE u[i] < u[j]
    BY DEF Rising
  <2>1. CASE i \in DOMAIN s /\ j \in DOMAIN s
    BY <1>4, <1>7, <2>1 DEF Rising
  <2>2. CASE i \in DOMAIN s /\ j \notin DOMAIN s
    <3>1. u[i] \in Range(s) /\ u[j] \in Range(t)
      BY <1>2, <1>4, <2>2 DEF Range
    <3> QED BY <1>7, <3>1
  <2>3. CASE i \notin DOMAIN s
    <3>1. j \notin DOMAIN s
      BY <1>1, <1>5, <2>3
    <3>2. /\ i - Len(s) \in DOMAIN t /\ j - Len(s) \in DOMAIN t
          /\ u[i] = t[i - Len(s)] /\ u[j] = t[j - Len(s)]
      BY <1>2, <2>3, <3>1
    <3>3. i - Len(s) < j - Len(s)
      BY <1>1, <1>5
    <3> QED BY <1>7, <3>2, <3>3 DEF Rising
  <2> QED BY <2>1, <2>2, <2>3
<1> QED BY <1>5, <1>6, <1>7 DEF u

LEMMA OneLine ==
  ASSUME NEW p \in Nat PROVE <<p>> \in Seq(Nat) /\ Range(<<p>>) = {p} /\ Rising(<<p>>)
<1>1. DOMAIN <<p>> = {1} /\ <<p>>[1] = p
  OBVIOUS
<1>2. Range(<<p>>) = {p}
  BY <1>1 DEF Range
<1>3. Rising(<<p>>)
  BY <1>1 DEF Rising
<1> QED BY <1>2, <1>3

LEMMA OneMoreLine ==
  ASSUME NEW s \in Seq(Nat), NEW p \in Nat
  PROVE  /\ Append(s, p) \in Seq(Nat) /\ Range(Append(s, p)) = Range(s) \cup {p}
         /\ Rising(s) /\ (\A x \in Range(s) : x < p) => Rising(Append(s, p))
<1>1. Append(s, p) = s \o <<p>>
  OBVIOUS
<1>2. <<p>> \in Seq(Nat) /\ Range(<<p>>) = {p} /\ Rising(<<p>>)
  BY OneLine
<1> QED BY <1>1, <1>2, Joined

LEMMA NoLines == <<>> \in Seq(Nat) /\ Range(<<>>) = {} /\ Rising(<<>>)
<1>1. DOMAIN <<>> = {}
  OBVIOUS
<1>2. Range(<<>>) = {} /\ Rising(<<>>)
  BY <1>1 DEF Range, Rising
<1> QED BY <1>2

\* The lines in a channel are sent and taken in order.
InOrder(o) ==
  \A i, j \in DOMAIN o : i < j /\ o[i].kind = "line" /\ o[j].kind = "line" => o[i].pos < o[j].pos

LEMMA SentLines ==
  ASSUME NEW o \in Seq(LogLine), NEW m \in LogLine
  PROVE  /\ LinesOf(Append(o, m)) = IF m.kind = "line" THEN LinesOf(o) \cup {m.pos} ELSE LinesOf(o)
         /\ /\ InOrder(o)
            /\ m.kind = "line" => \A x \in LinesOf(o) : x < m.pos
            => InOrder(Append(o, m))
<1> DEFINE u == Append(o, m)
<1>1. /\ DOMAIN o = 1..Len(o) /\ Len(o) \in Nat /\ DOMAIN u = 1..(Len(o) + 1)
      /\ u[Len(o) + 1] = m /\ \A i \in 1..Len(o) : u[i] = o[i]
  OBVIOUS
<1> HIDE DEF u
<1>2. \A i \in DOMAIN u : (i \in DOMAIN o /\ u[i] = o[i]) \/ (i = Len(o) + 1 /\ u[i] = m)
  BY <1>1
<1>3. \A i \in DOMAIN o : i \in DOMAIN u /\ u[i] = o[i]
  BY <1>1
<1>4. LinesOf(u) = IF m.kind = "line" THEN LinesOf(o) \cup {m.pos} ELSE LinesOf(o)
  <2>1. LinesOf(o) \subseteq LinesOf(u)
    BY <1>3 DEF LinesOf
  <2>2. m.kind = "line" => m.pos \in LinesOf(u)
    BY <1>1 DEF LinesOf
  <2>3. \A x \in LinesOf(u) : x \in LinesOf(o) \/ (m.kind = "line" /\ x = m.pos)
    BY <1>2 DEF LinesOf
  <2> QED BY <2>1, <2>2, <2>3
<1>5. ASSUME InOrder(o), m.kind = "line" => \A x \in LinesOf(o) : x < m.pos PROVE InOrder(u)
  <2> SUFFICES ASSUME NEW i \in DOMAIN u, NEW j \in DOMAIN u, i < j, u[i].kind = "line", u[j].kind = "line"
               PROVE  u[i].pos < u[j].pos
    BY DEF InOrder
  <2>1. i \in DOMAIN o /\ u[i] = o[i]
    BY <1>1, <1>2
  <2>2. o[i].pos \in LinesOf(o)
    BY <2>1 DEF LinesOf
  <2> QED BY <1>2, <1>5, <2>1, <2>2 DEF InOrder
<1> QED BY <1>4, <1>5 DEF u

LEMMA TakenLines ==
  ASSUME NEW o \in Seq(LogLine), o # <<>>
  PROVE  /\ LinesOf(o) = IF Head(o).kind = "line" THEN LinesOf(Tail(o)) \cup {Head(o).pos} ELSE LinesOf(Tail(o))
         /\ InOrder(o) => /\ InOrder(Tail(o))
                          /\ Head(o).kind = "line" => \A x \in LinesOf(Tail(o)) : Head(o).pos < x
<1> DEFINE u == Tail(o)
<1>1. /\ DOMAIN o = 1..Len(o) /\ Len(o) \in Nat \ {0} /\ DOMAIN u = 1..(Len(o) - 1)
      /\ Head(o) = o[1] /\ 1 \in DOMAIN o
      /\ \A i \in DOMAIN u : u[i] = o[i + 1] /\ i + 1 \in DOMAIN o /\ i \in Nat \ {0}
  OBVIOUS
<1> HIDE DEF u
<1>2. \A i \in DOMAIN o : i = 1 \/ (i - 1 \in DOMAIN u /\ u[i - 1] = o[i])
  <2> SUFFICES ASSUME NEW i \in DOMAIN o, i # 1 PROVE i - 1 \in DOMAIN u /\ u[i - 1] = o[i]
    OBVIOUS
  <2>1. i - 1 \in DOMAIN u /\ i - 1 + 1 = i
    BY <1>1
  <2> QED BY <1>1, <2>1
<1>3. LinesOf(o) = IF Head(o).kind = "line" THEN LinesOf(u) \cup {Head(o).pos} ELSE LinesOf(u)
  <2>1. LinesOf(u) \subseteq LinesOf(o)
    BY <1>1 DEF LinesOf
  <2>2. Head(o).kind = "line" => Head(o).pos \in LinesOf(o)
    BY <1>1 DEF LinesOf
  <2>3. \A x \in LinesOf(o) : x \in LinesOf(u) \/ (Head(o).kind = "line" /\ x = Head(o).pos)
    BY <1>1, <1>2 DEF LinesOf
  <2> QED BY <2>1, <2>2, <2>3
<1>4. ASSUME InOrder(o) PROVE InOrder(u)
  <2>1. \A i, j \in DOMAIN u : i < j => i + 1 < j + 1
    BY <1>1
  <2> QED BY <1>1, <1>4, <2>1 DEF InOrder
<1>5. ASSUME InOrder(o), Head(o).kind = "line", NEW x \in LinesOf(u) PROVE Head(o).pos < x
  <2>1. PICK i \in DOMAIN u : u[i].kind = "line" /\ x = u[i].pos
    BY <1>5 DEF LinesOf
  <2>2. 1 < i + 1 /\ i + 1 \in DOMAIN o /\ o[i + 1] = u[i]
    BY <1>1, <2>1
  <2> QED BY <1>1, <1>5, <2>1, <2>2 DEF InOrder
<1> QED BY <1>3, <1>4, <1>5 DEF u

LEMMA PipelineTypes ==
  ASSUME FollowInv, EndInv
  PROVE  /\ out \in Seq(LogLine) /\ batch \in Seq(Nat) /\ shown \in Seq(Nat) /\ accepted \in Seq(Nat)
         /\ Range(shown) \subseteq Nat /\ Range(batch) \subseteq Nat
         /\ InOrder(out) /\ PipelineInv
<1>1. out \in Seq(LogLine) /\ batch \in Seq(Nat) /\ shown \in Seq(Nat) /\ PipelineInv
  BY DEF EndInv, EndTypeOK
<1>2. accepted \in Seq(Nat)
  <2>1. accepted \in Seq(DOMAIN log) /\ DOMAIN log \subseteq Nat
    BY LogFacts DEF FollowInv, StreamTypeOK
  <2>2. DOMAIN accepted = 1..Len(accepted) /\ \A i \in DOMAIN accepted : accepted[i] \in Nat
    BY <2>1
  <2> QED BY <2>1, <2>2
<1>3. InOrder(out)
  BY <1>1 DEF PipelineInv, InOrder
<1>4. Range(shown) \subseteq Nat /\ Range(batch) \subseteq Nat
  BY <1>1 DEF Range
<1> QED BY <1>1, <1>2, <1>3, <1>4

\* A line just taken comes after every one before it, and goes into Out or is dropped.
LEMMA ScanPipes == ASSUME FollowInv, EndInv, Scan PROVE PipelineInv'
<1>1. PICK i \in DOMAIN log :
        /\ i = stream.pos + 1 /\ i - 1 = stream.pos
        /\ Replayed(cursor, log[i]) => accepted' = accepted
        /\ ~Replayed(cursor, log[i]) => accepted' = Append(accepted, i)
  BY ReadOne
<1>2. /\ UNCHANGED <<shown, batch>>
      /\ Replayed(cursor, log[i]) => UNCHANGED <<out, accepted, dropped>>
      /\ ~Replayed(cursor, log[i]) => Send(i)
  BY <1>1 DEF Scan, lines, forwarder, ui
<1>3. /\ PipelineInv /\ out \in Seq(LogLine) /\ InOrder(out) /\ accepted \in Seq(Nat)
  BY PipelineTypes
<1>4. CASE Replayed(cursor, log[i])
  <2>1. UNCHANGED <<out, accepted, dropped, shown, batch>>
    BY <1>2, <1>4
  <2> QED BY <1>3, <2>1 DEF PipelineInv, LinesOf, Rising
<1>5. CASE ~Replayed(cursor, log[i])
  <2>1. \A x \in Range(accepted) : x < i
    <3> SUFFICES ASSUME NEW j \in DOMAIN accepted PROVE accepted[j] < i
      BY DEF Range
    <3>1. accepted # <<>> /\ DOMAIN accepted = 1..Len(accepted) /\ Len(accepted) \in Nat
      BY LogFacts
    <3>2. LastTaken < i
      <4>1. LastTaken \in Nat /\ stream.pos \in Nat /\ i \in Nat
        BY <3>1, LogFacts
      <4>2. ~(stream.pos < LastTaken)
        BY <1>1, <1>5, <3>1, ReplayedBehind
      <4> QED BY <1>1, <4>1, <4>2
    <3>3. /\ accepted[j] = accepted[1] + j - 1
          /\ LastTaken = accepted[1] + Len(accepted) - 1
      BY <3>1, LogFacts DEF FollowInv, CursorInv, LastTaken
    <3>4. accepted[1] \in Nat /\ i \in Nat
      BY <3>1, LogFacts
    <3> QED BY <3>1, <3>2, <3>3, <3>4
  <2>2. accepted' = Append(accepted, i) /\ i \in Nat
    BY <1>1, <1>5, LogFacts
  <2>3. Range(accepted') = Range(accepted) \cup {i}
    BY <1>3, <2>2, OneMoreLine
  <2>4. i \notin Range(accepted) /\ i \notin dropped
    <3>1. ~(i < i)
      BY <2>2
    <3> QED BY <1>3, <2>1, <3>1 DEF PipelineInv
  <2>5. CASE out' = out /\ dropped' = dropped \cup {i}
    BY <1>2, <1>3, <2>3, <2>4, <2>5 DEF PipelineInv, LinesOf, Rising
  <2>6. CASE out' = Append(out, LineAt(i)) /\ dropped' = dropped
    <3>1. PICK m \in LogLine : m = LineAt(i) /\ m.kind = "line" /\ m.pos = i
      <4>1. i \in 0..MaxLines
        BY LogFacts, BoundAssumption DEF FollowInv, StreamTypeOK
      <4>2. LineAt(i) \in LogLine /\ LineAt(i).kind = "line" /\ LineAt(i).pos = i
        BY <4>1 DEF LogLine, LineAt
      <4> QED BY <4>2
    <3>2. \A x \in Range(shown) \cup Range(batch) \cup LinesOf(out) : x < i
      BY <1>3, <2>1 DEF PipelineInv
    <3>3. out' = Append(out, m)
      BY <2>6, <3>1
    <3>4. LinesOf(out)' = LinesOf(out) \cup {i} /\ InOrder(out)'
      <4>1. LinesOf(Append(out, m)) = LinesOf(out) \cup {i}
        BY <1>3, <3>1, SentLines
      <4>2. InOrder(Append(out, m))
        BY <1>3, <3>1, <3>2, SentLines
      <4> QED BY <3>3, <4>1, <4>2 DEF LinesOf, InOrder
    <3>5. /\ Range(shown') \cup Range(batch') \cup LinesOf(out)' = Range(accepted') \ dropped'
          /\ dropped' \subseteq Range(accepted')
      BY <1>2, <1>3, <2>3, <2>4, <2>6, <3>4 DEF PipelineInv
    <3>6. /\ \A x \in Range(shown'), y \in Range(batch') \cup LinesOf(out)' : x < y
          /\ \A x \in Range(batch'), y \in LinesOf(out)' : x < y
      BY <1>2, <1>3, <3>2, <3>4 DEF PipelineInv
    <3>7. Rising(shown)' /\ Rising(batch)'
      BY <1>2, <1>3 DEF PipelineInv, Rising
    <3> QED BY <3>4, <3>5, <3>6, <3>7 DEF PipelineInv, InOrder
  <2> QED BY <1>2, <1>5, <2>5, <2>6 DEF Send
<1> QED BY <1>4, <1>5

\* A flush moves the whole batch to the screen.
LEMMA FlushPipes ==
  ASSUME FollowInv, EndInv, FlushBatch, UNCHANGED <<accepted, dropped>>,
         LinesOf(out)' = LinesOf(out), InOrder(out)'
  PROVE  PipelineInv'
<1>1. shown' = shown \o batch /\ batch' = <<>>
  BY DEF FlushBatch
<1>2. PipelineInv /\ shown \in Seq(Nat) /\ batch \in Seq(Nat)
  BY PipelineTypes
<1>3. Range(shown') = Range(shown) \cup Range(batch) /\ Rising(shown)'
  <2>1. Range(shown \o batch) = Range(shown) \cup Range(batch) /\ Rising(shown \o batch)
    BY <1>2, Joined DEF PipelineInv
  <2> QED BY <1>1, <2>1 DEF Rising
<1>4. Range(batch') = {} /\ Rising(batch)'
  BY <1>1, NoLines DEF Rising
<1>5. /\ Range(shown') \cup Range(batch') \cup LinesOf(out)' = Range(accepted') \ dropped'
      /\ dropped' \subseteq Range(accepted')
  BY <1>2, <1>3, <1>4 DEF PipelineInv
<1>6. /\ \A x \in Range(shown'), y \in Range(batch') \cup LinesOf(out)' : x < y
      /\ \A x \in Range(batch'), y \in LinesOf(out)' : x < y
  BY <1>2, <1>3, <1>4 DEF PipelineInv
<1> QED BY <1>3, <1>4, <1>5, <1>6 DEF PipelineInv, InOrder

LEMMA ReceiveLinePipes == ASSUME FollowInv, EndInv, ReceiveLine PROVE PipelineInv'
<1>1. /\ out # <<>> /\ Head(out).kind = "line" /\ out' = Tail(out) /\ UNCHANGED <<accepted, dropped>>
      /\ \/ batch' = Append(batch, Head(out).pos) /\ shown' = shown
         \/ shown' = shown \o Append(batch, Head(out).pos) /\ batch' = <<>>
  BY DEF ReceiveLine
<1>2. PipelineInv /\ shown \in Seq(Nat) /\ batch \in Seq(Nat) /\ out \in Seq(LogLine) /\ InOrder(out)
  BY PipelineTypes
<1>3. PICK p \in Nat : p = Head(out).pos
  <2>1. Head(out) \in LogLine
    BY <1>1, <1>2
  <2> QED BY <2>1, BoundAssumption DEF LogLine
<1>4. /\ LinesOf(out) = LinesOf(out)' \cup {p} /\ \A x \in LinesOf(out)' : p < x
      /\ InOrder(out)'
  <2>1. /\ LinesOf(out) = LinesOf(Tail(out)) \cup {p} /\ \A x \in LinesOf(Tail(out)) : p < x
        /\ InOrder(Tail(out))
    BY <1>1, <1>2, <1>3, TakenLines
  <2> QED BY <1>1, <2>1 DEF LinesOf, InOrder
<1>5. \A x \in Range(batch) : x < p
  BY <1>2, <1>4 DEF PipelineInv
<1>6. PICK b \in Seq(Nat) : b = Append(batch, p) /\ Range(b) = Range(batch) \cup {p} /\ Rising(b)
  BY <1>2, <1>5, OneMoreLine DEF PipelineInv
<1>7. /\ Range(shown) \cup Range(b) \cup LinesOf(out)' = Range(accepted') \ dropped'
      /\ dropped' \subseteq Range(accepted')
      /\ \A x \in Range(shown), y \in Range(b) \cup LinesOf(out)' : x < y
      /\ \A x \in Range(b), y \in LinesOf(out)' : x < y
  BY <1>1, <1>2, <1>4, <1>6 DEF PipelineInv
<1>8. CASE batch' = b /\ shown' = shown
  <2>1. Rising(shown)' /\ Rising(batch)'
    BY <1>2, <1>6, <1>8 DEF PipelineInv, Rising
  <2> QED BY <1>4, <1>7, <1>8, <2>1 DEF PipelineInv, InOrder
<1>9. CASE shown' = shown \o b /\ batch' = <<>>
  <2>1. Range(shown \o b) = Range(shown) \cup Range(b) /\ Rising(shown \o b)
    BY <1>2, <1>6, <1>7, Joined DEF PipelineInv
  <2>2. Range(shown') = Range(shown) \cup Range(b) /\ Rising(shown)'
    BY <1>9, <2>1 DEF Rising
  <2>3. Range(batch') = {} /\ Rising(batch)'
    BY <1>9, NoLines DEF Rising
  <2>4. Range(shown') \cup Range(batch') \cup LinesOf(out)' = Range(accepted') \ dropped'
    BY <1>7, <2>2, <2>3
  <2>5. /\ \A x \in Range(shown'), y \in Range(batch') \cup LinesOf(out)' : x < y
        /\ \A x \in Range(batch'), y \in LinesOf(out)' : x < y
    BY <1>7, <2>2, <2>3
  <2> QED BY <1>4, <1>7, <2>2, <2>3, <2>4, <2>5 DEF PipelineInv, InOrder
<1> QED BY <1>1, <1>3, <1>6, <1>8, <1>9

LEMMA SayPipes == ASSUME FollowInv, EndInv, Say PROVE PipelineInv'
<1>1. /\ UNCHANGED <<accepted, dropped, batch, shown>> /\ saying \in Controls
      /\ out' = Append(out, Control(saying)) \/ out' = out
  BY DEF Say, SendBlocking, forwarder, ui, FollowInv, StreamTypeOK
<1>2. PipelineInv /\ out \in Seq(LogLine) /\ InOrder(out)
  BY PipelineTypes
<1>3. LinesOf(out)' = LinesOf(out) /\ InOrder(out)'
  <2>1. CASE out' = Append(out, Control(saying))
    <3>1. Control(saying) \in LogLine /\ Control(saying).kind # "line"
      BY <1>1, BoundAssumption DEF LogLine, Control, Controls
    <3>2. LinesOf(Append(out, Control(saying))) = LinesOf(out) /\ InOrder(Append(out, Control(saying)))
      BY <1>2, <3>1, SentLines
    <3> QED BY <2>1, <3>2 DEF LinesOf, InOrder
  <2>2. CASE out' = out
    BY <1>2, <2>2 DEF LinesOf, InOrder
  <2> QED BY <1>1, <2>1, <2>2
<1> QED BY <1>1, <1>2, <1>3 DEF PipelineInv, Rising, InOrder

\* What was taken and not dropped is on its way to the screen, in order.
LEMMA PipelineStep ==
  ASSUME FollowInv, EndInv, [StreamNext]_streamVars PROVE PipelineInv'
<1>1. PipelineInv /\ InOrder(out) /\ out \in Seq(LogLine)
  BY PipelineTypes
<1>2. CASE Scan
  BY <1>2, ScanPipes
<1>3. CASE Say
  BY <1>3, SayPipes
<1>4. CASE ReceiveLine
  BY <1>4, ReceiveLinePipes
<1>5. CASE ReceiveControl
  <2>1. /\ out # <<>> /\ Head(out).kind # "line" /\ out' = Tail(out) /\ FlushBatch
        /\ UNCHANGED <<accepted, dropped>>
    BY <1>5 DEF ReceiveControl, FlushFirst
  <2>2. LinesOf(out) = LinesOf(Tail(out)) /\ InOrder(Tail(out))
    BY <1>1, <2>1, TakenLines
  <2>3. LinesOf(out)' = LinesOf(out) /\ InOrder(out)'
    BY <2>1, <2>2 DEF LinesOf, InOrder
  <2> QED BY <2>1, <2>3, FlushPipes
<1>6. CASE FlushTimer \/ OutClosed
  <2>1. FlushBatch /\ UNCHANGED <<out, accepted, dropped>>
    BY <1>6 DEF FlushTimer, OutClosed, lines
  <2>2. LinesOf(out)' = LinesOf(out) /\ InOrder(out)'
    BY <1>1, <2>1 DEF LinesOf, InOrder
  <2> QED BY <2>1, <2>2, FlushPipes
<1>7. ASSUME UNCHANGED <<out, accepted, dropped, batch, shown>> PROVE PipelineInv'
  BY <1>1, <1>7 DEF PipelineInv, LinesOf, Rising
<1>8. CASE \/ \E text \in Texts : Write(text)
           \/ Tick \/ Terminate \/ Cancel \/ UNCHANGED streamVars
           \/ \E pos \in 0..MaxLines : Start(pos)
  BY <1>7, <1>8 DEF Write, Tick, Terminate, Cancel, Start, streamVars, lines, forwarder, ui
<1>9. ASSUME NEW isClean, ScanEnds(isClean) PROVE PipelineInv'
  BY <1>7, <1>9 DEF ScanEnds, lines, forwarder, ui
<1>10. CASE \/ Skip \/ ReturnCancelled \/ ReturnComplete
            \/ \E complete \in BOOLEAN : LogsComplete(complete)
            \/ Count \/ Backoff \/ ReopenFatal
  BY <1>7, <1>10 DEF Skip, ReturnCancelled, ReturnComplete, LogsComplete, Count, Backoff, ReopenFatal,
                     lines, forwarder, ui
<1>11. CASE ReopenFails \/ \E since \in 1..MaxTime : Reopen(since)
  BY <1>7, <1>11 DEF ReopenFails, Reopen, lines, forwarder, ui
<1> QED BY <1>2, <1>3, <1>4, <1>5, <1>6, <1>8, <1>9, <1>10, <1>11
           DEF StreamNext, Run, ForwardLogs, Break, LogEnds, Interrupt

LEMMA EndTypeStep ==
  ASSUME FollowInv, EndInv, [StreamNext]_streamVars PROVE EndTypeOK'
<1> DEFINE TypesRun == /\ finishing' \in BOOLEAN /\ consec' \in Nat /\ retries' \in Nat
                       /\ gotLine' \in BOOLEAN /\ clean' \in BOOLEAN
                       /\ endedBy' \in Endings \cup {"none"} /\ out' \in Seq(LogLine)
           StillRun == UNCHANGED <<finishing, consec, retries, gotLine, clean, endedBy>>
           StillUI == UNCHANGED <<batch, shown, reconnecting, err, finished>>
<1>1. /\ EndTypeOK /\ saying \in Controls /\ Failures \in Nat
      /\ "complete" \in Endings /\ "cancelled" \in Endings /\ "failed" \in Endings /\ "fatal" \in Endings
  BY DEF EndInv, EndTypeOK, FollowInv, StreamTypeOK, Failures, Endings
<1>2. ASSUME TypesRun, StillUI, UNCHANGED cancelled PROVE EndTypeOK'
  BY <1>1, <1>2 DEF EndTypeOK
<1>3. CASE \/ \E text \in Texts : Write(text)
           \/ Tick \/ Terminate \/ Cancel \/ UNCHANGED streamVars
  <2>1. StillRun /\ StillUI /\ out' = out /\ cancelled' \in {cancelled, TRUE}
    BY <1>3 DEF Write, Tick, Terminate, Cancel, streamVars, container, streamer, locals, lines,
                forwarder, ui
  <2>2. cancelled' \in BOOLEAN
    BY <1>1, <2>1 DEF EndTypeOK
  <2> QED BY <1>1, <2>1, <2>2 DEF EndTypeOK
<1>4. CASE \E pos \in 0..MaxLines : Start(pos)
  <2>1. TypesRun /\ StillUI /\ UNCHANGED cancelled
    BY <1>1, <1>4 DEF Start, EndTypeOK, locals, lines, forwarder, ui
  <2> QED BY <1>2, <2>1
<1>5. ASSUME NEW isClean \in BOOLEAN, ScanEnds(isClean) PROVE EndTypeOK'
  <2>1. TypesRun /\ StillUI /\ UNCHANGED cancelled
    BY <1>1, <1>5 DEF ScanEnds, EndTypeOK, lines, forwarder, ui
  <2> QED BY <1>2, <2>1
<1>6. CASE Scan
  <2>1. /\ UNCHANGED <<finishing, consec, clean, endedBy, cancelled>> /\ StillUI
        /\ gotLine' \in {gotLine, TRUE} /\ retries' \in {retries, 0}
        /\ out' = out \/ out' = Append(out, LineAt(stream.pos + 1))
    BY <1>6 DEF Scan, Send, lines, forwarder, ui
  <2>2. LineAt(stream.pos + 1) \in LogLine
    <3>1. stream.pos < Len(log) /\ Len(log) <= MaxLines
      BY <1>6 DEF Scan, FollowInv, StreamTypeOK
    <3>2. stream.pos + 1 \in 0..MaxLines
      BY <3>1, LogFacts, BoundAssumption
    <3> QED BY <3>2 DEF LineAt, LogLine
  <2>3. out' \in Seq(LogLine)
    <3>1. PICK m \in LogLine : m = LineAt(stream.pos + 1)
      BY <2>2
    <3>2. out \in Seq(LogLine) /\ (out' = out \/ out' = Append(out, m))
      BY <1>1, <2>1, <3>1 DEF EndTypeOK
    <3> QED BY <3>2
  <2>4. gotLine' \in BOOLEAN
    BY <1>1, <2>1 DEF EndTypeOK
  <2>5. retries' \in Nat
    BY <1>1, <2>1 DEF EndTypeOK
  <2>6. TypesRun
    BY <1>1, <2>1, <2>3, <2>4, <2>5 DEF EndTypeOK
  <2> QED BY <1>2, <2>1, <2>6
<1>7. CASE Skip
  <2>1. TypesRun /\ StillUI /\ UNCHANGED cancelled
    BY <1>1, <1>7 DEF Skip, EndTypeOK, lines, forwarder, ui
  <2> QED BY <1>2, <2>1
<1>8. CASE ReturnCancelled \/ ReturnComplete \/ ReopenFatal
  <2>1. UNCHANGED <<finishing, consec, retries, gotLine, clean, out, cancelled>> /\ StillUI
        /\ endedBy' \in {"cancelled", "complete", "fatal"}
    BY <1>8 DEF ReturnCancelled, ReturnComplete, ReopenFatal, ReturnBecause, lines, forwarder, ui
  <2>2. TypesRun
    BY <1>1, <2>1 DEF EndTypeOK
  <2> QED BY <1>2, <2>1, <2>2
<1>9. ASSUME NEW complete \in BOOLEAN, LogsComplete(complete) PROVE EndTypeOK'
  <2>1. TypesRun /\ StillUI /\ UNCHANGED cancelled
    BY <1>1, <1>9 DEF LogsComplete, EndTypeOK, lines, forwarder, ui
  <2> QED BY <1>2, <2>1
<1>10. CASE Count
  <2>1. /\ endedBy' \in {endedBy, "failed"} /\ consec' = Failures /\ StillUI
        /\ UNCHANGED <<finishing, gotLine, clean, retries, out, cancelled>>
    BY <1>10 DEF Count, lines, forwarder, ui
  <2>2. consec' \in Nat /\ endedBy' \in Endings \cup {"none"}
    BY <1>1, <2>1 DEF EndTypeOK
  <2>3. TypesRun
    BY <1>1, <2>1, <2>2 DEF EndTypeOK
  <2> QED BY <1>2, <2>1, <2>3
<1>11. CASE Say
  <2>1. StillRun /\ StillUI /\ cancelled' = cancelled /\ (out' = Append(out, Control(saying)) \/ out' = out)
    BY <1>11 DEF Say, SendBlocking, forwarder, ui
  <2>2. Control(saying) \in LogLine
    BY <1>1, BoundAssumption DEF LogLine, Control
  <2>3. out' \in Seq(LogLine)
    <3>1. PICK m \in LogLine : m = Control(saying)
      BY <2>2
    <3>2. out \in Seq(LogLine) /\ (out' = out \/ out' = Append(out, m))
      BY <1>1, <2>1, <3>1 DEF EndTypeOK
    <3> QED BY <3>2
  <2>4. TypesRun
    BY <1>1, <2>1, <2>3 DEF EndTypeOK
  <2> QED BY <1>2, <2>1, <2>4
<1>12. CASE Backoff
  <2>1. StillRun /\ StillUI /\ UNCHANGED <<out, cancelled>>
    BY <1>12 DEF Backoff, locals, lines, forwarder, ui
  <2>2. TypesRun
    BY <1>1, <2>1 DEF EndTypeOK
  <2> QED BY <1>2, <2>1, <2>2
<1>13. CASE ReopenFails \/ \E since \in 1..MaxTime : Reopen(since)
  <2>1. /\ UNCHANGED <<finishing, consec, clean, endedBy, out, cancelled>> /\ StillUI
        /\ gotLine' = FALSE /\ retries' = retries + 1
    BY <1>13 DEF ReopenFails, Reopen, Loop, lines, forwarder, ui
  <2>2. retries' \in Nat
    BY <1>1, <2>1 DEF EndTypeOK
  <2>3. TypesRun
    BY <1>1, <2>1, <2>2 DEF EndTypeOK
  <2> QED BY <1>2, <2>1, <2>3
<1>14. ASSUME out' \in Seq(LogLine), batch' \in Seq(Nat), shown' \in Seq(Nat),
              StillRun, UNCHANGED cancelled,
              reconnecting' \in {reconnecting, TRUE, FALSE}, err' \in {err, TRUE, FALSE},
              finished' \in {finished, TRUE}
       PROVE  EndTypeOK'
  <2>1. reconnecting' \in BOOLEAN /\ err' \in BOOLEAN /\ finished' \in BOOLEAN
    BY <1>1, <1>14 DEF EndTypeOK
  <2> QED BY <1>1, <1>14, <2>1 DEF EndTypeOK
<1>15. out \in Seq(LogLine) /\ batch \in Seq(Nat) /\ shown \in Seq(Nat) /\ <<>> \in Seq(Nat)
       /\ shown \o batch \in Seq(Nat)
  BY <1>1 DEF EndTypeOK
<1>16. CASE ReceiveLine
  <2>1. /\ out # <<>> /\ out' = Tail(out) /\ StillRun
        /\ UNCHANGED <<cancelled, err, finished>> /\ reconnecting' \in {reconnecting, FALSE}
        /\ \/ batch' = Append(batch, Head(out).pos) /\ shown' = shown
           \/ shown' = shown \o Append(batch, Head(out).pos) /\ batch' = <<>>
    BY <1>16 DEF ReceiveLine, streamer, locals
  <2>2. Head(out).pos \in Nat
    <3>1. Head(out) \in LogLine
      BY <1>15, <2>1
    <3> QED BY <3>1, BoundAssumption DEF LogLine
  <2>3. Append(batch, Head(out).pos) \in Seq(Nat) /\ shown \o Append(batch, Head(out).pos) \in Seq(Nat)
    BY <1>15, <2>2
  <2>4. out' \in Seq(LogLine)
    BY <1>15, <2>1
  <2>5. batch' \in Seq(Nat) /\ shown' \in Seq(Nat)
    BY <1>15, <2>1, <2>3
  <2> QED BY <1>14, <2>1, <2>4, <2>5
<1>17. CASE ReceiveControl
  <2>1. /\ out # <<>> /\ out' = Tail(out) /\ shown' = shown \o batch /\ batch' = <<>> /\ StillRun
        /\ UNCHANGED <<cancelled>> /\ Head(out).kind # "line"
    BY <1>17 DEF ReceiveControl, FlushFirst, FlushBatch, streamer, locals
  <2>2. Head(out).kind \in Controls
    <3>1. Head(out) \in LogLine
      BY <1>15, <2>1
    <3> QED BY <2>1, <3>1 DEF LogLine
  <2>3. /\ reconnecting' \in {reconnecting, TRUE, FALSE} /\ err' \in {err, TRUE, FALSE}
        /\ finished' \in {finished, TRUE}
    BY <1>17, <2>2 DEF ReceiveControl, Controls
  <2>4. out' \in Seq(LogLine)
    BY <1>15, <2>1
  <2>5. batch' \in Seq(Nat) /\ shown' \in Seq(Nat)
    BY <1>15, <2>1
  <2> QED BY <1>14, <2>1, <2>3, <2>4, <2>5
<1>18. CASE FlushTimer \/ OutClosed
  <2>1. /\ shown' = shown \o batch /\ batch' = <<>> /\ StillRun
        /\ UNCHANGED <<out, cancelled, err, finished>>
        /\ reconnecting' \in {reconnecting, TRUE, FALSE}
    BY <1>18 DEF FlushTimer, OutClosed, FlushBatch, streamer, locals, lines
  <2> QED BY <1>14, <1>15, <2>1
<1> QED BY <1>3, <1>4, <1>5, <1>6, <1>7, <1>8, <1>9, <1>10, <1>11, <1>12, <1>13, <1>16, <1>17, <1>18
           DEF StreamNext, Run, ForwardLogs, Break, LogEnds, Interrupt

\* The pipeline from the cursor to the screen loses and reorders nothing but
\* what found Out full, what counts as complete was read to the log's end, the
\* failures counted are the streams reopened in vain, and an error and the end
\* are the last that is said (runStream, forwardLogs).
THEOREM EndInvariance == ~TailSplitsTie => (StreamSpec => []EndInv)
<1> SUFFICES ASSUME ~TailSplitsTie PROVE StreamSpec => []EndInv
  OBVIOUS
<1>1. FollowInv /\ EndInv /\ [StreamNext]_streamVars => EndInv'
  BY EndTypeStep, DrainStep, RetryStep, PipelineStep, SaidStep DEF EndInv
<1> QED BY FollowInvariance, EndInitially, <1>1, PTL DEF StreamSpec

\* A stream that ends because the container has ended has taken its last line;
\* one that gives up has failed exactly as often as it may; and when the UI says
\* the stream has ended it shows every line that was not dropped, in order, and
\* an error exactly if there was one.
THEOREM EndIsTruthful == ~TailSplitsTie => (StreamSpec => []EndTruthful)
<1> SUFFICES ASSUME ~TailSplitsTie PROVE StreamSpec => []EndTruthful
  OBVIOUS
<1>1. EndInv => EndTruthful
  <2> SUFFICES ASSUME EndInv PROVE EndTruthful
    OBVIOUS
  <2>1. EndsComplete
    BY DEF EndInv, DrainInv, RetryInv, LastTaken, EndsComplete
  <2>2. ASSUME finished
        PROVE  /\ Range(shown) = Range(accepted) \ dropped /\ Rising(shown) /\ ~reconnecting
               /\ ~cancelled => (err <=> endedBy \in {"failed", "fatal"})
    <3>1. spc = "done" /\ saying = "eos" /\ out = <<>> /\ batch = <<>> /\ ~reconnecting
      BY <2>2 DEF EndInv, SaidInv
    <3>2. Range(batch) = {} /\ LinesOf(out) = {} /\ ~ErrInOut
      <4>1. DOMAIN out = {} /\ DOMAIN batch = {}
        BY <3>1
      <4> QED BY <4>1 DEF Range, LinesOf, ErrInOut
    <3>3. Range(shown) = Range(accepted) \ dropped /\ Rising(shown)
      BY <3>2 DEF EndInv, PipelineInv
    <3>4. ~cancelled => (err <=> endedBy \in {"failed", "fatal"})
      BY <3>1, <3>2 DEF EndInv, SaidInv
    <3> QED BY <3>1, <3>3, <3>4
  <2>3. EndShown
    BY <2>2 DEF EndShown
  <2> QED BY <2>1, <2>3 DEF EndTruthful
<1> QED BY EndInvariance, <1>1, PTL

-----------------------------------------------------------------------------
(* LogSession.                                                             *)

LEMMA PodsFacts ==
  /\ Cardinality(Pods) \in Nat /\ Pods = 1..Cardinality(Pods) /\ Deploy \notin Pods
  /\ Pods \subseteq Nat /\ \A p \in Pods : Containers[p] \in Nat \ {0}
<1>1. IsFiniteSet(Pods) /\ Pods = 1..Cardinality(Pods) /\ Containers \in [Pods -> Nat \ {0}]
  BY LogSessionAssumption
<1>2. Cardinality(Pods) \in Nat
  BY <1>1, FS_CardinalityType
<1> QED BY <1>1, <1>2 DEF Deploy

LEMMA NewestType == ASSUME NEW ps PROVE Newest(ps) \in Refs
<1> DEFINE present == {p \in Pods : Known(p, ps)}
           running == {p \in Pods : ps[p] \in PhaseRunning}
           from == IF running # {} THEN running ELSE present
<1>1. Newest(ps) = IF from = {} THEN Deploy ELSE CHOOSE p \in from : \A q \in from : q <= p
  BY DEF Newest
<1>2. PICK n \in Nat : Pods = 1..n
  BY PodsFacts
<1>3. from \in SUBSET (1..n)
  BY <1>2
<1> HIDE DEF from
<1>4. CASE from = {}
  BY <1>1, <1>4 DEF Refs
<1>5. CASE from # {}
  <2>1. \E p \in from : \A q \in from : q <= p
    BY <1>3, <1>5, GreatestExists
  <2>2. Newest(ps) \in from
    BY <1>1, <1>5, <2>1
  <2> QED BY <1>2, <1>3, <2>2 DEF Refs
<1> QED BY <1>4, <1>5

LEMMA ContainersType == ASSUME NEW p \in Refs, NEW ps PROVE ContainersFor(p, ps) \in Nat
<1>1. Known(p, ps) => p \in Pods
  BY DEF Known, Refs
<1> QED BY <1>1, PodsFacts DEF ContainersFor

\* The dashboard for the target on top of its stack.
LEMMA PreparedDash ==
  ASSUME NEW d \in DashType, DashOpen(d), NEW ps
  PROVE  /\ Prepared(d, ps) \in DashType /\ Prepared(d, ps).stack = d.stack
         /\ DashOpen(Prepared(d, ps)) /\ PodTaken(Prepared(d, ps), ps)
<1> DEFINE top == d.stack[Len(d.stack)]
           p == IF top = Deploy THEN Newest(ps) ELSE top
           n == ContainersFor(p, ps)
<1>1. d.stack \in Seq(Refs) /\ d.stack # <<>>
  BY DEF DashType, DashOpen
<1>2. top \in Refs
  BY <1>1
<1>3. p \in Refs
  BY <1>2, NewestType
<1>4. n \in Nat
  BY <1>3, ContainersType
<1>5. Prepared(d, ps) = [d EXCEPT !.logRef = p, !.n = n, !.container = IF n = 0 THEN 0 ELSE 1]
  BY DEF Prepared
<1> HIDE DEF n, p
<1>6. /\ Prepared(d, ps) \in DashType /\ Prepared(d, ps).stack = d.stack /\ Prepared(d, ps).logRef = p
  <2>1. PICK k \in Nat : Prepared(d, ps) = [d EXCEPT !.logRef = p, !.n = n, !.container = k]
    BY <1>5
  <2> QED BY <1>3, <1>4, <2>1 DEF DashType
<1>7. top = Deploy /\ p = Deploy => Newest(ps) = Deploy
  BY DEF p
<1> QED BY <1>1, <1>6, <1>7 DEF DashOpen, PodTaken

LEMMA SyncedDash ==
  ASSUME NEW d \in DashType, NEW p \in Pods, NEW c \in Nat, NEW ps
  PROVE  /\ Synced(d, p, c, ps) \in DashType /\ Synced(d, p, c, ps).stack = d.stack
         /\ DashOpen(Synced(d, p, c, ps)) <=> DashOpen(d)
         /\ DashOpen(d) => Synced(d, p, c, ps).logRef = p
         /\ PodTaken(Synced(d, p, c, ps), ps)
<1>1. p \in Refs /\ p # Deploy
  BY PodsFacts DEF Refs
<1>2. ContainersFor(p, ps) \in Nat
  BY <1>1, ContainersType
<1>3. CASE ~DashOpen(d)
  BY <1>3 DEF Synced, PodTaken
<1>4. CASE DashOpen(d)
  <2>1. PICK k \in Nat : Synced(d, p, c, ps) = [d EXCEPT !.logRef = p, !.n = ContainersFor(p, ps), !.container = k]
    BY <1>4 DEF Synced
  <2>2. Synced(d, p, c, ps) \in DashType /\ Synced(d, p, c, ps).stack = d.stack
        /\ Synced(d, p, c, ps).logRef = p
    BY <1>1, <1>2, <2>1 DEF DashType
  <2> QED BY <1>1, <1>4, <2>2 DEF DashOpen, PodTaken
<1> QED BY <1>3, <1>4

\* The messages on their way are those there were, but for one that was taken.
NotesLeft ==
  /\ note' \in [LogSessions -> {"none", "refused", "lines", "reconnecting", "eos", "error"}]
  /\ \A s \in LogSessions : note[s] = "none" => note'[s] = "none"

LEMMA SessionsAreNumbers == LogSessions \subseteq Nat
BY DEF LogSessions

\* A stream that begins.
LEMMA BeginKeeps ==
  ASSUME SessionInv, NEW l \in LogsType, l.session = logs.session,
         l.picker => l.open /\ l.offered # Deploy, NEW d \in DashType, l.open \/ DashOpen(d), NEW p \in Pods, NEW c \in Nat,
         NEW all \in BOOLEAN, NEW ps \in PodsType,
         Begin(l, d, p, c, all, ps), pods' = ps, NotesLeft, logsDenied' \in BOOLEAN
  PROVE  SessionInv'
<1>1. /\ LogTypeOK /\ FreshNumbers /\ NoLeakedStream /\ logs.session \in Nat
      /\ p \in Refs /\ p # Deploy
  BY PodsFacts DEF SessionInv, LogTypeOK, LogsType, Refs
<1>2. PICK s \in LogSessions : s = logs.session + 1
  BY DEF Begin
<1>3. /\ logs' = [NoLogs EXCEPT !.session = s, !.open = l.open, !.picker = l.picker,
                                !.offered = l.offered, !.streaming = TRUE, !.ref = p,
                                !.container = c, !.full = all]
      /\ dash' = Synced(d, p, c, ps)
      /\ asked' = [asked EXCEPT ![s] = [ref |-> p, container |-> c, waiting |-> ~Started(p, c, ps)]]
      /\ link' = [link EXCEPT ![s] = "queued"]
      /\ ended' = ended \cup {logs.session}
      /\ linesOf' = {} /\ strayed' = FALSE
  BY <1>2 DEF Begin
<1>4. l.open \in BOOLEAN /\ l.picker \in BOOLEAN /\ l.offered \in Refs
  BY DEF LogsType
<1>5. /\ logs' = [session |-> s, open |-> l.open, picker |-> l.picker,
                  offered |-> l.offered, streaming |-> TRUE,
                  ref |-> p, container |-> c, full |-> all, err |-> FALSE, retry |-> FALSE,
                  finished |-> FALSE, reconnecting |-> FALSE]
  BY <1>3 DEF NoLogs
<1>6. /\ logs' \in LogsType /\ logs'.session = s /\ logs'.open = l.open /\ logs'.picker = l.picker
      /\ logs'.streaming /\ logs'.ref = p /\ logs'.container = c /\ ~logs'.retry
      /\ logs'.offered = l.offered
  BY <1>1, <1>2, <1>4, <1>5, SessionsAreNumbers DEF LogsType
<1>7. /\ dash' \in DashType /\ (DashOpen(dash)' <=> DashOpen(d))
      /\ DashOpen(d) => dash'.logRef = p
      /\ PodTaken(dash, pods)'
  BY <1>3, SyncedDash DEF DashOpen, PodTaken
<1>8. asked' \in [LogSessions -> [ref : Refs, container : Nat, waiting : BOOLEAN]]
      /\ asked'[s].ref = p /\ asked'[s].container = c
  <2>1. (~Started(p, c, ps)) \in BOOLEAN
    BY DEF Started, Known
  <2>2. [ref |-> p, container |-> c, waiting |-> ~Started(p, c, ps)]
          \in [ref : Refs, container : Nat, waiting : BOOLEAN]
    BY <1>1, <2>1
  <2>3. asked \in [LogSessions -> [ref : Refs, container : Nat, waiting : BOOLEAN]]
    BY <1>1 DEF LogTypeOK
  <2> QED BY <1>3, <2>2, <2>3
<1>9. /\ link \in [LogSessions -> {"none", "queued", "running", "ending", "over"}]
      /\ link' \in [LogSessions -> {"none", "queued", "running", "ending", "over"}]
      /\ \A r \in LogSessions : link'[r] = IF r = s THEN "queued" ELSE link[r]
  BY <1>1, <1>3 DEF LogTypeOK
<1>10. LogTypeOK'
  <2>1. ended' \subseteq Nat /\ linesOf' \subseteq LogSessions /\ strayed' \in BOOLEAN
    BY <1>1, <1>3 DEF LogTypeOK
  <2>2. note' \in [LogSessions -> {"none", "refused", "lines", "reconnecting", "eos", "error"}]
    BY DEF NotesLeft
  <2> QED BY <1>6, <1>7, <1>8, <1>9, <2>1, <2>2 DEF LogTypeOK
<1>11. FreshNumbers'
  <2> SUFFICES ASSUME NEW r \in LogSessions, r > s
               PROVE  link'[r] = "none" /\ note'[r] = "none"
    BY <1>6 DEF FreshNumbers
  <2>1. r > logs.session /\ r # s
    BY <1>1, <1>2, SessionsAreNumbers
  <2>2. link[r] = "none" /\ note[r] = "none"
    BY <1>1, <2>1 DEF FreshNumbers
  <2> QED BY <1>9, <2>1, <2>2 DEF NotesLeft
<1>12. StreamNamed'
  BY <1>1, <1>2, <1>4, <1>6, <1>7, <1>8 DEF StreamNamed
<1>13. ViewerInv'
  BY <1>1, <1>3, <1>6 DEF ViewerInv
<1>14. NoLeakedStream'
  <2> SUFFICES ASSUME NEW r \in LogSessions, link'[r] \in {"queued", "running", "ending"}, r \notin ended', r # s
               PROVE  FALSE
    BY <1>6 DEF NoLeakedStream
  <2>1. r # logs.session /\ r \notin ended /\ link[r] \in {"queued", "running", "ending"}
    BY <1>3, <1>9
  <2> QED BY <1>1, <2>1 DEF NoLeakedStream
<1>15. NoMissedRetry'
  BY <1>6, <1>7 DEF NoMissedRetry, PodTaken
<1> QED BY <1>7, <1>10, <1>11, <1>12, <1>13, <1>14, <1>15 DEF SessionInv

\* The streams of a session that was given up: nothing of it is left running.
LEMMA GivenUp ==
  ASSUME SessionInv, logs'.session \in Nat, logs'.session > logs.session,
         ~logs'.streaming, UNCHANGED <<asked, link>>, NotesLeft, ended' = ended \cup {logs.session}
  PROVE  FreshNumbers' /\ NoLeakedStream' /\ ended' \subseteq Nat
<1>1. FreshNumbers /\ NoLeakedStream /\ logs.session \in Nat /\ ended \subseteq Nat
  BY DEF SessionInv, LogTypeOK, LogsType
<1>2. FreshNumbers'
  <2> SUFFICES ASSUME NEW r \in LogSessions, r >= logs'.session
               PROVE  link'[r] = "none" /\ note'[r] = "none"
    BY SessionsAreNumbers DEF FreshNumbers
  <2>1. r > logs.session
    BY <1>1, SessionsAreNumbers
  <2> QED BY <1>1, <2>1 DEF FreshNumbers, NotesLeft
<1>3. NoLeakedStream'
  <2> SUFFICES ASSUME NEW r \in LogSessions, link'[r] \in {"queued", "running", "ending"}, r \notin ended'
               PROVE  FALSE
    BY DEF NoLeakedStream
  <2> QED BY <1>1 DEF NoLeakedStream
<1> QED BY <1>1, <1>2, <1>3

LEMMA ResetKeeps ==
  ASSUME SessionInv, NEW l \in LogsType, l.session = logs.session, NEW d \in DashType,
         NEW ps \in PodsType, PodTaken(d, ps),
         ResetLogs(l, d), pods' = ps, NotesLeft, logsDenied' \in BOOLEAN
  PROVE  SessionInv'
<1>1. /\ LogTypeOK /\ l.session \in Nat
  BY DEF SessionInv, LogTypeOK, LogsType
<1>2. /\ logs' = [NoLogs EXCEPT !.session = Stopped(l).session, !.err = TRUE]
      /\ dash' = d /\ ended' = ended \cup {logs.session}
      /\ linesOf' = {} /\ strayed' = FALSE /\ UNCHANGED <<asked, link>>
  BY DEF ResetLogs
<1>3. PICK n \in Nat : n = l.session + 1 /\ n = Stopped(l).session
  BY <1>1 DEF Stopped, LogsType
<1>4. logs' = [session |-> n, open |-> FALSE, picker |-> FALSE, offered |-> Deploy, streaming |-> FALSE, ref |-> Deploy,
               container |-> 0, full |-> FALSE, err |-> TRUE, retry |-> FALSE, finished |-> FALSE,
               reconnecting |-> FALSE]
  BY <1>2, <1>3 DEF NoLogs
<1>5. /\ logs' \in LogsType /\ logs'.session = n /\ n > logs.session /\ ~logs'.open /\ ~logs'.picker
      /\ ~logs'.streaming /\ ~logs'.retry
  BY <1>1, <1>3, <1>4 DEF LogsType, Refs
<1>6. FreshNumbers' /\ NoLeakedStream' /\ ended' \subseteq Nat
  BY <1>2, <1>5, GivenUp
<1>7. LogTypeOK'
  BY <1>1, <1>2, <1>5, <1>6 DEF LogTypeOK, NotesLeft
<1>8. StreamNamed' /\ ViewerInv'
  BY <1>2, <1>5 DEF StreamNamed, ViewerInv
<1>9. PodTaken(dash, pods)'
  BY <1>2 DEF PodTaken, DashOpen
<1>10. NoMissedRetry'
  BY <1>5, <1>9 DEF NoMissedRetry, PodTaken
<1> QED BY <1>6, <1>7, <1>8, <1>9, <1>10 DEF SessionInv

LEMMA StartDashKeeps ==
  ASSUME SessionInv, NEW l \in LogsType, l.session = logs.session,
         l.picker => l.open /\ l.offered # Deploy, NEW d \in DashType, DashOpen(d), NEW all \in BOOLEAN, NEW ps \in PodsType,
         PodTaken(d, ps), StartDash(l, d, all, ps), pods' = ps, NotesLeft, logsDenied' \in BOOLEAN
  PROVE  SessionInv'
<1>1. CASE d.logRef = Deploy \/ logsDenied
  BY <1>1, ResetKeeps DEF StartDash
<1>2. CASE ~(d.logRef = Deploy \/ logsDenied)
  <2>1. PICK p \in Pods, c \in Nat : p = d.logRef /\ c = d.container
    BY <1>2 DEF DashType, Refs
  <2>2. Begin(l, d, p, c, all, ps)
    BY <1>2, <2>1 DEF StartDash
  <2> QED BY <2>2, BeginKeeps
<1> QED BY <1>1, <1>2

\* What is due when a container has started or a pod has come.
LEMMA RecoverKeeps ==
  ASSUME SessionInv, NEW l \in LogsType, l.session = logs.session,
         l.picker => l.open /\ l.offered # Deploy, NEW ps \in PodsType, RecoverDue(l, dash, ps), RecoverDashboardLogs(l, ps),
         pods' = ps, NotesLeft, logsDenied' \in BOOLEAN
  PROVE  SessionInv'
<1>1. dash \in DashType /\ DashOpen(dash) /\ l.full \in BOOLEAN
  BY DEF SessionInv, LogTypeOK, RecoverDue, LogsType
<1>2. CASE dash.logRef # Deploy
  <2>1. StartDash(l, dash, l.full, ps)
    BY <1>2 DEF RecoverDashboardLogs
  <2>2. PodTaken(dash, ps)
    BY <1>2 DEF PodTaken
  <2> QED BY <1>1, <2>1, <2>2, StartDashKeeps
<1>3. CASE dash.logRef = Deploy
  <2>1. PICK d \in DashType : d = Prepared(dash, ps) /\ DashOpen(d) /\ PodTaken(d, ps)
    BY <1>1, PreparedDash
  <2>2. StartDash(l, d, FALSE, ps)
    BY <1>3, <2>1 DEF RecoverDashboardLogs
  <2> QED BY <2>1, <2>2, StartDashKeeps
<1> QED BY <1>2, <1>3

LEMMA NotesUnchanged == ASSUME SessionInv, UNCHANGED note PROVE NotesLeft
BY DEF SessionInv, LogTypeOK, NotesLeft

\* The view is closed and its stream given up.
LEMMA StopKeeps ==
  ASSUME SessionInv, NEW l \in LogsType, l.session = logs.session, ~l.open, ~l.picker,
         logs' = Stopped(l), dash' \in DashType, ~DashOpen(dash)',
         ended' = ended \cup {logs.session},
         UNCHANGED <<pods, logsDenied, asked, link, note, linesOf, strayed>>
  PROVE  SessionInv'
<1>1. LogTypeOK /\ l.session \in Nat
  BY DEF SessionInv, LogTypeOK, LogsType
<1>2. PICK n \in Nat : n = l.session + 1
  BY <1>1
<1>3. logs' = [l EXCEPT !.session = n, !.streaming = FALSE, !.retry = FALSE]
  BY <1>2 DEF Stopped
<1>4. /\ logs' \in LogsType /\ logs'.session = n /\ n > logs.session /\ ~logs'.open /\ ~logs'.picker
      /\ ~logs'.streaming /\ ~logs'.retry
  <2>1. /\ logs' \in LogsType /\ logs'.session = n /\ logs'.open = l.open /\ logs'.picker = l.picker
        /\ logs'.streaming = FALSE /\ logs'.retry = FALSE
    BY <1>3 DEF LogsType
  <2> QED BY <1>1, <1>2, <2>1
<1>5. NotesLeft
  BY NotesUnchanged
<1>6. FreshNumbers' /\ NoLeakedStream' /\ ended' \subseteq Nat
  BY <1>4, <1>5, GivenUp
<1>7. LogTypeOK'
  BY <1>1, <1>4, <1>6 DEF LogTypeOK
<1>8. StreamNamed' /\ ViewerInv'
  BY <1>4 DEF StreamNamed, ViewerInv, BufferShown
<1>9. PodTaken(dash, pods)' /\ NoMissedRetry'
  BY DEF PodTaken, NoMissedRetry
<1> QED BY <1>6, <1>7, <1>8, <1>9 DEF SessionInv

\* Steps that leave the session and its stream alone.
LEMMA SameSession ==
  ASSUME SessionInv, logs' \in LogsType, logs'.session = logs.session,
         logs'.streaming = logs.streaming, UNCHANGED <<dash, asked, ended>>,
         pods' \in PodsType, logsDenied' \in BOOLEAN, linesOf' \subseteq LogSessions, strayed' \in BOOLEAN,
         link' \in [LogSessions -> {"none", "queued", "running", "ending", "over"}],
         note' \in [LogSessions -> {"none", "refused", "lines", "reconnecting", "eos", "error"}],
         \A s \in LogSessions : link[s] = "none" /\ note[s] = "none" => link'[s] = "none" /\ note'[s] = "none",
         \A s \in LogSessions : link'[s] \in {"queued", "running", "ending"} /\ s \notin ended
                                  => link[s] \in {"queued", "running", "ending"}
  PROVE  LogTypeOK' /\ FreshNumbers' /\ NoLeakedStream'
<1>1. LogTypeOK /\ FreshNumbers /\ NoLeakedStream
  BY DEF SessionInv
<1>2. LogTypeOK'
  BY <1>1 DEF LogTypeOK
<1>3. FreshNumbers'
  BY <1>1 DEF FreshNumbers
<1>4. NoLeakedStream'
  BY <1>1 DEF NoLeakedStream
<1> QED BY <1>2, <1>3, <1>4

\* Steps that leave what is shown alone too.
LEMMA LinkMoves ==
  ASSUME SessionInv, UNCHANGED <<logs, dash, pods, logsDenied, asked, ended, linesOf, strayed>>,
         link' \in [LogSessions -> {"none", "queued", "running", "ending", "over"}],
         note' \in [LogSessions -> {"none", "refused", "lines", "reconnecting", "eos", "error"}],
         \A s \in LogSessions : link[s] = "none" /\ note[s] = "none" => link'[s] = "none" /\ note'[s] = "none",
         \A s \in LogSessions : link'[s] \in {"queued", "running", "ending"} /\ s \notin ended
                                  => link[s] \in {"queued", "running", "ending"}
  PROVE  SessionInv'
<1>1. LogTypeOK /\ StreamNamed /\ ViewerInv /\ PodTaken(dash, pods) /\ NoMissedRetry
  BY DEF SessionInv
<1>2. LogTypeOK' /\ FreshNumbers' /\ NoLeakedStream'
  BY <1>1, SameSession DEF LogTypeOK
<1>3. StreamNamed'
  BY <1>1 DEF StreamNamed, DashOpen
<1>4. ViewerInv'
  BY <1>1 DEF ViewerInv, BufferShown, DashOpen
<1>5. PodTaken(dash, pods)'
  BY <1>1 DEF PodTaken, DashOpen, Newest, Known
<1>6. NoMissedRetry'
  BY <1>1 DEF NoMissedRetry, DashOpen, Newest, Known, Started
<1> QED BY <1>2, <1>3, <1>4, <1>5, <1>6 DEF SessionInv

LEMMA SessionInitially == LogInit => SessionInv
<1> SUFFICES ASSUME LogInit PROVE SessionInv
  OBVIOUS
<1>1. logs = NoLogs /\ dash = NoDash /\ linesOf = {} /\ ended = {} /\ strayed = FALSE /\ logsDenied = FALSE
  BY DEF LogInit
<1>2. /\ link = [s \in LogSessions |-> "none"] /\ note = [s \in LogSessions |-> "none"]
      /\ asked = [s \in LogSessions |-> NoRequest]
  BY DEF LogInit
<1>3. /\ logs \in LogsType /\ ~logs.streaming /\ ~logs.open /\ ~logs.picker /\ ~logs.retry
  BY <1>1 DEF NoLogs, LogsType, Refs
<1>4. /\ dash \in DashType /\ ~DashOpen(dash)
  BY <1>1 DEF NoDash, DashType, DashOpen, Refs
<1>5. asked \in [LogSessions -> [ref : Refs, container : Nat, waiting : BOOLEAN]]
  BY <1>2 DEF NoRequest, Refs
<1>6. pods \in PodsType
  BY DEF LogInit, PodsType
<1>7. LogTypeOK
  BY <1>1, <1>2, <1>3, <1>4, <1>5, <1>6 DEF LogTypeOK
<1>8. FreshNumbers /\ NoLeakedStream
  BY <1>2 DEF FreshNumbers, NoLeakedStream
<1>9. StreamNamed /\ ViewerInv /\ PodTaken(dash, pods) /\ NoMissedRetry
  BY <1>1, <1>3, <1>4 DEF StreamNamed, ViewerInv, PodTaken, NoMissedRetry
<1> QED BY <1>7, <1>8, <1>9 DEF SessionInv

\* The state the session proofs start from.
LEMMA SessionFacts ==
  ASSUME SessionInv
  PROVE  /\ logs \in LogsType /\ dash \in DashType /\ pods \in PodsType /\ logsDenied \in BOOLEAN
         /\ logs.picker => logs.open /\ logs.ref \in Pods /\ logs.offered # Deploy
         /\ logs.streaming => logs.ref \in Pods
         /\ logs.open => logs.streaming \/ logs.picker
         /\ logs.container \in Nat /\ PodTaken(dash, pods)
<1>1. LogTypeOK
  BY DEF SessionInv
<1>2. /\ logs \in LogsType /\ dash \in DashType /\ pods \in PodsType /\ logsDenied \in BOOLEAN
  BY <1>1 DEF LogTypeOK
<1>3. logs.container \in Nat /\ logs.ref \in Refs
  BY <1>2 DEF LogsType
<1> QED BY <1>2, <1>3 DEF SessionInv, ViewerInv, StreamNamed, Refs

LEMMA OpenDashboardKeeps ==
  ASSUME SessionInv, NEW t \in Pods \cup {Deploy}, OpenDashboard(t) PROVE SessionInv'
<1>1. PICK e \in DashType : e = [dash EXCEPT !.stack = Append(dash.stack, t)] /\ DashOpen(e)
  <2>1. dash \in DashType
    BY SessionFacts
  <2>2. Append(dash.stack, t) \in Seq(Refs) /\ Append(dash.stack, t) # <<>>
    BY <2>1 DEF DashType, Refs
  <2>3. [dash EXCEPT !.stack = Append(dash.stack, t)] \in DashType
        /\ [dash EXCEPT !.stack = Append(dash.stack, t)].stack = Append(dash.stack, t)
    BY <2>1, <2>2 DEF DashType
  <2> QED BY <2>2, <2>3 DEF DashOpen
<1>2. PICK d \in DashType : d = Prepared(e, pods) /\ DashOpen(d) /\ PodTaken(d, pods)
  BY <1>1, PreparedDash
<1>3. /\ StartDash(logs, d, FALSE, pods)
      /\ UNCHANGED <<pods, logsDenied, note>>
  BY <1>1, <1>2 DEF OpenDashboard, Request
<1> QED BY <1>2, <1>3, SessionFacts, NotesUnchanged, StartDashKeeps

LEMMA PopDashboardKeeps == ASSUME SessionInv, PopDashboard PROVE SessionInv'
<1>1. /\ ~logs.open /\ DashOpen(dash) /\ UNCHANGED <<pods, logsDenied, note>>
      /\ dash \in DashType /\ logs \in LogsType /\ ~logs.picker
  BY SessionFacts DEF PopDashboard, Request
<1>2. CASE Len(dash.stack) > 1
  <2>6. PICK q \in Seq(Refs) : q = dash.stack
    BY <1>1 DEF DashType
  <2>1. PICK k \in Nat : k = Len(q) - 1 /\ 1 <= k /\ k <= Len(q)
    <3>1. Len(q) \in Nat /\ Len(q) > 1
      BY <1>2, <2>6
    <3>2. Len(q) - 1 \in Nat /\ 1 <= Len(q) - 1 /\ Len(q) - 1 <= Len(q)
      BY <3>1
    <3> QED BY <3>2
  <2>2. PICK st \in Seq(Refs) : st = SubSeq(q, 1, k) /\ st # <<>>
    <3>1. SubSeq(q, 1, k) \in Seq(Refs) /\ Len(SubSeq(q, 1, k)) = k
      BY <2>1
    <3>2. PICK st \in Seq(Refs) : st = SubSeq(q, 1, k) /\ Len(st) = k
      BY <3>1
    <3>3. Len(st) >= 1
      BY <2>1, <3>2
    <3>4. st # <<>>
      BY <3>3
    <3> QED BY <3>2, <3>4
  <2>3. PICK e \in DashType : e = [dash EXCEPT !.stack = st] /\ DashOpen(e)
    <3>1. [dash EXCEPT !.stack = st] \in DashType /\ [dash EXCEPT !.stack = st].stack = st
      BY <1>1 DEF DashType
    <3> QED BY <2>2, <3>1 DEF DashOpen
  <2>4. PICK d \in DashType : d = Prepared(e, pods) /\ DashOpen(d) /\ PodTaken(d, pods)
    BY <2>3, PreparedDash
  <2>5. StartDash(logs, d, FALSE, pods)
    BY <1>2, <2>1, <2>2, <2>3, <2>4, <2>6 DEF PopDashboard
  <2> QED BY <1>1, <2>4, <2>5, SessionFacts, NotesUnchanged, StartDashKeeps
<1>3. CASE ~(Len(dash.stack) > 1)
  <2>1. /\ dash' = NoDash /\ logs' = Stopped(logs) /\ ended' = ended \cup {logs.session}
        /\ UNCHANGED <<asked, link, linesOf, strayed>>
    BY <1>3 DEF PopDashboard
  <2>2. dash' \in DashType /\ ~DashOpen(dash)'
    BY <2>1 DEF NoDash, DashType, DashOpen, Refs
  <2> QED BY <1>1, <2>1, <2>2, StopKeeps
<1> QED BY <1>2, <1>3

LEMMA CycleKeeps == ASSUME SessionInv, CycleDashboardContainer PROVE SessionInv'
<1>1. /\ DashOpen(dash) /\ dash.n >= 2 /\ UNCHANGED <<pods, logsDenied, note>>
      /\ dash \in DashType /\ dash.n \in Nat /\ dash.container \in Nat
  BY SessionFacts DEF CycleDashboardContainer, Request, DashType
<1>2. PICK c \in Nat : c = (dash.container % dash.n) + 1
  BY <1>1
<1>3. PICK d \in DashType : d = [dash EXCEPT !.container = c]
  BY <1>1 DEF DashType
<1>4. d.stack = dash.stack /\ d.logRef = dash.logRef
  BY <1>1, <1>3 DEF DashType
<1>5. DashOpen(d) /\ PodTaken(d, pods)
  BY <1>1, <1>4, SessionFacts DEF DashOpen, PodTaken
<1>6. StartDash(logs, d, FALSE, pods)
  BY <1>1, <1>2, <1>3 DEF CycleDashboardContainer
<1> QED BY <1>1, <1>5, <1>6, SessionFacts, NotesUnchanged, StartDashKeeps

\* Steps of the viewer that leave the stream going.
LEMMA ViewerMoves ==
  ASSUME SessionInv, logs' \in LogsType, logs'.session = logs.session,
         logs'.streaming = logs.streaming, logs'.retry = logs.retry,
         logs'.container = logs.container,
         UNCHANGED <<dash, pods, logsDenied, asked, link, note, ended, linesOf>>,
         strayed' \in BOOLEAN, strayed => strayed',
         logs'.ref # logs.ref => logs'.picker /\ (logs.streaming => strayed'),
         logs'.open => logs'.streaming \/ logs'.picker,
         logs'.picker => logs'.open /\ logs'.ref \in Pods /\ logs'.offered # Deploy,
         logs'.open \/ DashOpen(dash) \/ ~logs.streaming,
         logs'.open /\ ~logs'.picker => BufferShown
  PROVE  SessionInv'
<1>1. LogTypeOK /\ StreamNamed /\ ViewerInv /\ PodTaken(dash, pods) /\ NoMissedRetry
  BY DEF SessionInv
<1>2. LogTypeOK' /\ FreshNumbers' /\ NoLeakedStream'
  BY <1>1, SameSession DEF LogTypeOK
<1>3. logs'.picker => logs'.ref # Deploy /\ logs'.offered # Deploy
  BY PodsFacts
<1>4. StreamNamed'
  BY <1>1, <1>3 DEF StreamNamed, DashOpen
<1>5. BufferShown' => BufferShown
  BY DEF BufferShown, DashOpen
<1>6. ViewerInv'
  BY <1>1, <1>3, <1>5 DEF ViewerInv
<1>7. PodTaken(dash, pods)'
  BY <1>1 DEF PodTaken, DashOpen, Newest, Known
<1>8. NoMissedRetry'
  <2>1. logs.retry /\ ~strayed' => logs'.ref = logs.ref
    BY <1>1 DEF ViewerInv
  <2> QED BY <1>1, <2>1 DEF NoMissedRetry, DashOpen, Newest, Known, Started
<1> QED BY <1>2, <1>4, <1>6, <1>7, <1>8 DEF SessionInv

LEMMA OpenViewerKeeps == ASSUME SessionInv, OpenViewer PROVE SessionInv'
<1>1. /\ DashOpen(dash) /\ logs.streaming /\ ~logs.open /\ logs' = [logs EXCEPT !.open = TRUE]
      /\ UNCHANGED <<dash, pods, logsDenied, asked, link, note, ended, linesOf, strayed>>
      /\ logs \in LogsType /\ ~logs.picker /\ strayed \in BOOLEAN
  BY SessionFacts DEF OpenViewer, SessionInv, LogTypeOK
<1>2. /\ logs' \in LogsType /\ logs'.session = logs.session /\ logs'.streaming = logs.streaming
      /\ logs'.retry = logs.retry /\ logs'.container = logs.container /\ logs'.ref = logs.ref
      /\ logs'.picker = logs.picker
  BY <1>1 DEF LogsType
<1> QED BY <1>1, <1>2, ViewerMoves DEF BufferShown

LEMMA OpenLogsKeeps == ASSUME SessionInv, NEW p \in Pods, OpenLogs(p) PROVE SessionInv'
<1>1. /\ ~logs.open /\ UNCHANGED <<pods, logsDenied, note>> /\ logs \in LogsType
      /\ ~logs.picker /\ strayed \in BOOLEAN /\ p \in Refs /\ p # Deploy
  BY SessionFacts, PodsFacts DEF OpenLogs, Request, SessionInv, LogTypeOK, Refs
<1> DEFINE v == [logs EXCEPT !.open = TRUE]
           n == ContainersFor(p, pods)
<1>2. /\ v \in LogsType /\ v.open = TRUE /\ v.picker = logs.picker
      /\ v.session = logs.session /\ v.streaming = logs.streaming
      /\ v.retry = logs.retry /\ v.container = logs.container
  <2>1. logs \in LogsType
    BY <1>1
  <2> QED BY <2>1 DEF LogsType
<1>5. /\ n <= 1 => Begin(v, dash, p, n, FALSE, pods)
      /\ ~(n <= 1) => /\ logs' = [v EXCEPT !.picker = TRUE, !.offered = p, !.ref = p]
                      /\ strayed' = (strayed \/ (logs.streaming /\ p # logs.ref))
                      /\ UNCHANGED <<dash, asked, link, ended, linesOf>>
  BY DEF OpenLogs
<1>6. n \in Nat
  BY <1>1, ContainersType
<1> HIDE DEF v, n
<1>3. CASE n <= 1
  <2>1. Begin(v, dash, p, n, FALSE, pods)
    BY <1>3, <1>5
  <2> QED BY <1>1, <1>2, <1>6, <2>1, SessionFacts, NotesUnchanged, BeginKeeps
<1>4. CASE ~(n <= 1)
  <2>1. /\ logs' = [v EXCEPT !.picker = TRUE, !.offered = p, !.ref = p]
        /\ strayed' = (strayed \/ (logs.streaming /\ p # logs.ref))
        /\ UNCHANGED <<dash, asked, link, ended, linesOf>>
    BY <1>4, <1>5
  <2>2. /\ logs' \in LogsType /\ logs'.session = v.session /\ logs'.streaming = v.streaming
        /\ logs'.retry = v.retry /\ logs'.container = v.container /\ logs'.open /\ logs'.picker
        /\ logs'.ref = p /\ logs'.offered = p
    BY <1>1, <1>2, <2>1 DEF LogsType
  <2>3. strayed' \in BOOLEAN /\ (strayed => strayed') /\ (p # logs.ref /\ logs.streaming => strayed')
    BY <1>1, <2>1
  <2> QED BY <1>1, <1>2, <2>1, <2>2, <2>3, ViewerMoves
<1> QED BY <1>3, <1>4

LEMMA PickContainerKeeps == ASSUME SessionInv, NEW c \in 1..2, PickContainer(c) PROVE SessionInv'
<1>1. /\ logs.open /\ logs.picker /\ UNCHANGED <<pods, logsDenied, note>> /\ logs \in LogsType
  BY SessionFacts DEF PickContainer, Request
<1> DEFINE v == [logs EXCEPT !.picker = FALSE, !.offered = Deploy]
<1>2. v \in LogsType /\ v.open = logs.open /\ v.picker = FALSE /\ v.session = logs.session
  <2>1. logs \in LogsType
    BY <1>1
  <2> QED BY <2>1 DEF LogsType, Refs
<1>5. Begin(v, dash, logs.ref, c, FALSE, pods)
  BY DEF PickContainer
<1> HIDE DEF v
<1>3. PICK p \in Pods : p = logs.ref
  BY <1>1, SessionFacts
<1>6. c \in Nat
  OBVIOUS
<1>4. Begin(v, dash, p, c, FALSE, pods) /\ c \in Nat
  BY <1>3, <1>5, <1>6
<1> QED BY <1>1, <1>2, <1>4, SessionFacts, NotesUnchanged, BeginKeeps

LEMMA LoadAllKeeps == ASSUME SessionInv, LoadAll PROVE SessionInv'
<1>1. /\ logs.open /\ ~logs.picker /\ UNCHANGED <<pods, logsDenied, note>>
      /\ Begin(logs, dash, logs.ref, logs.container, TRUE, pods)
  BY DEF LoadAll, Request
<1>2. PICK p \in Pods, c \in Nat : p = logs.ref /\ c = logs.container
  BY <1>1, SessionFacts
<1>3. Begin(logs, dash, p, c, TRUE, pods)
  BY <1>1, <1>2
<1> QED BY <1>1, <1>3, SessionFacts, NotesUnchanged, BeginKeeps

LEMMA CloseLogsKeeps == ASSUME SessionInv, CloseLogs PROVE SessionInv'
<1>1. /\ logs.open /\ logs \in LogsType /\ strayed \in BOOLEAN /\ dash \in DashType
      /\ UNCHANGED <<dash, pods, logsDenied, asked, link, note, linesOf, strayed>>
  BY SessionFacts DEF CloseLogs, SessionInv, LogTypeOK
<1> DEFINE v == [logs EXCEPT !.open = FALSE, !.picker = FALSE, !.offered = Deploy]
<1>2. /\ v \in LogsType /\ v.open = FALSE /\ v.picker = FALSE
      /\ v.session = logs.session /\ v.streaming = logs.streaming
      /\ v.retry = logs.retry /\ v.container = logs.container /\ v.ref = logs.ref
  <2>1. logs \in LogsType
    BY <1>1
  <2> QED BY <2>1 DEF LogsType, Refs
<1>5. IF DashOpen(dash) THEN logs' = v /\ ended' = ended
      ELSE logs' = Stopped(v) /\ ended' = ended \cup {logs.session}
  BY DEF CloseLogs
<1> HIDE DEF v
<1>3. CASE DashOpen(dash)
  <2>1. logs' = v /\ ended' = ended
    BY <1>3, <1>5
  <2> QED BY <1>1, <1>2, <1>3, <2>1, ViewerMoves
<1>4. CASE ~DashOpen(dash)
  <2>1. logs' = Stopped(v) /\ ended' = ended \cup {logs.session}
    BY <1>4, <1>5
  <2>2. ~DashOpen(dash)' /\ dash' \in DashType
    BY <1>1, <1>4 DEF DashOpen
  <2> QED BY <1>1, <1>2, <2>1, <2>2, StopKeeps
<1> QED BY <1>3, <1>4

LEMMA PodChangesKeeps ==
  ASSUME SessionInv, NEW p \in Pods, NEW st \in Live \cup {"gone"}, PodChanges(p, st)
  PROVE  SessionInv'
<1>1. PICK ps \in PodsType : ps = [pods EXCEPT ![p] = st]
  BY SessionFacts DEF PodsType
<1>2. /\ pods' = ps /\ RecoverDashboardLogs(logs, ps) /\ UNCHANGED <<note, logsDenied>>
  BY <1>1 DEF PodChanges, LogEvent
<1>3. CASE RecoverDue(logs, dash, ps)
  BY <1>2, <1>3, SessionFacts, NotesUnchanged, RecoverKeeps
<1>4. CASE ~RecoverDue(logs, dash, ps)
  <2>1. UNCHANGED <<logs, dash, asked, link, note, ended, linesOf, strayed, logsDenied>>
    BY <1>2, <1>4 DEF RecoverDashboardLogs
  <2>2. LogTypeOK /\ StreamNamed /\ ViewerInv
    BY DEF SessionInv
  <2>3. LogTypeOK' /\ FreshNumbers' /\ NoLeakedStream'
    BY <1>2, <2>1, <2>2, SameSession DEF LogTypeOK
  <2>4. StreamNamed'
    BY <2>1, <2>2 DEF StreamNamed, DashOpen
  <2>5. ViewerInv'
    BY <2>1, <2>2 DEF ViewerInv, BufferShown, DashOpen
  <2>6. PodTaken(dash, ps)
    BY <1>4 DEF RecoverDue, PodTaken
  <2>7. PodTaken(dash, pods)'
    BY <1>2, <2>1, <2>6 DEF PodTaken, DashOpen
  <2>8. DashOpen(dash) => ~(logs.retry /\ Started(logs.ref, logs.container, ps))
    <3>1. logs.retry /\ DashOpen(dash) => dash.logRef # Deploy
      BY <2>2 DEF StreamNamed, ViewerInv
    <3> QED BY <1>4, <3>1 DEF RecoverDue
  <2>9. NoMissedRetry'
    BY <1>2, <2>1, <2>6, <2>8 DEF NoMissedRetry, PodTaken, DashOpen
  <2> QED BY <2>3, <2>4, <2>5, <2>7, <2>9 DEF SessionInv
<1> QED BY <1>3, <1>4

LEMMA LearnDeniedKeeps == ASSUME SessionInv, LearnDenied PROVE SessionInv'
<1>1. /\ UNCHANGED <<logs, dash, pods, asked, link, note, ended, linesOf, strayed>> /\ logsDenied' = TRUE
  BY DEF LearnDenied, LogEvent
<1>2. LogTypeOK /\ StreamNamed /\ ViewerInv /\ PodTaken(dash, pods) /\ NoMissedRetry
  BY DEF SessionInv
<1>3. LogTypeOK' /\ FreshNumbers' /\ NoLeakedStream'
  BY <1>1, <1>2, SameSession DEF LogTypeOK
<1>4. StreamNamed' /\ ViewerInv'
  BY <1>1, <1>2 DEF StreamNamed, ViewerInv, BufferShown, DashOpen
<1>5. PodTaken(dash, pods)' /\ NoMissedRetry'
  BY <1>1, <1>2 DEF PodTaken, NoMissedRetry, DashOpen, Newest, Known, Started
<1> QED BY <1>3, <1>4, <1>5 DEF SessionInv

LEMMA LeaveClusterKeeps == ASSUME SessionInv, LeaveCluster PROVE SessionInv'
<1>1. /\ ~logs.open /\ dash = NoDash /\ logs' = [NoLogs EXCEPT !.session = logs.session + 2]
      /\ pods' = [p \in Pods |-> "unseen"] /\ logsDenied' = FALSE /\ ended' = ended \cup {logs.session}
      /\ linesOf' = {} /\ strayed' = FALSE /\ UNCHANGED <<dash, asked, link, note>>
  BY DEF LeaveCluster, LogEvent
<1>2. LogTypeOK /\ logs.session \in Nat
  BY DEF SessionInv, LogTypeOK, LogsType
<1>3. PICK n \in Nat : n = logs.session + 2
  BY <1>2
<1>4. logs' = [session |-> n, open |-> FALSE, picker |-> FALSE, offered |-> Deploy, streaming |-> FALSE, ref |-> Deploy,
               container |-> 0, full |-> FALSE, err |-> FALSE, retry |-> FALSE, finished |-> FALSE,
               reconnecting |-> FALSE]
  BY <1>1, <1>3 DEF NoLogs
<1>5. /\ logs' \in LogsType /\ logs'.session = n /\ n > logs.session /\ ~logs'.open /\ ~logs'.picker
      /\ ~logs'.streaming /\ ~logs'.retry
  BY <1>2, <1>3, <1>4 DEF LogsType, Refs
<1>6. NotesLeft
  BY <1>1, NotesUnchanged
<1>7. FreshNumbers' /\ NoLeakedStream' /\ ended' \subseteq Nat
  BY <1>1, <1>5, <1>6, GivenUp
<1>8. ~DashOpen(dash)'
  BY <1>1 DEF DashOpen, NoDash
<1>9. LogTypeOK'
  BY <1>1, <1>2, <1>5, <1>7 DEF LogTypeOK, PodsType
<1>10. StreamNamed' /\ ViewerInv' /\ PodTaken(dash, pods)' /\ NoMissedRetry'
  BY <1>1, <1>5, <1>8 DEF StreamNamed, ViewerInv, PodTaken, NoMissedRetry
<1> QED BY <1>7, <1>9, <1>10 DEF SessionInv

LEMMA RunLogCommandKeeps ==
  ASSUME SessionInv, NEW s \in LogSessions, RunLogCommand(s) PROVE SessionInv'
<1>1. LogTypeOK
  BY DEF SessionInv
<1>2. /\ link[s] = "queued"
      /\ UNCHANGED <<logs, dash, pods, logsDenied, asked, ended, linesOf, strayed>>
  BY DEF RunLogCommand
<1>3. PICK to \in {"over", "running"}, n \in {"none", "refused", "lines", "reconnecting", "eos", "error"} :
        /\ link' = [link EXCEPT ![s] = to] /\ note' = [note EXCEPT ![s] = n]
  <2>1. note = [note EXCEPT ![s] = note[s]]
        /\ note[s] \in {"none", "refused", "lines", "reconnecting", "eos", "error"}
    BY <1>1 DEF LogTypeOK
  <2> QED BY <2>1 DEF RunLogCommand
<1>4. /\ link' \in [LogSessions -> {"none", "queued", "running", "ending", "over"}]
      /\ note' \in [LogSessions -> {"none", "refused", "lines", "reconnecting", "eos", "error"}]
  BY <1>1, <1>3 DEF LogTypeOK
<1>5. /\ \A r \in LogSessions : link[r] = "none" /\ note[r] = "none" => link'[r] = "none" /\ note'[r] = "none"
      /\ \A r \in LogSessions : link'[r] \in {"queued", "running", "ending"} /\ r \notin ended
                                  => link[r] \in {"queued", "running", "ending"}
  BY <1>1, <1>2, <1>3 DEF LogTypeOK
<1> QED BY <1>2, <1>4, <1>5, LinkMoves

LEMMA ForwardLogKeeps ==
  ASSUME SessionInv, NEW s \in LogSessions, NEW kind \in {"lines", "reconnecting", "eos", "error"},
         ForwardLog(s, kind)
  PROVE  SessionInv'
<1>1. LogTypeOK
  BY DEF SessionInv
<1>2. /\ link[s] \in {"running", "ending"}
      /\ UNCHANGED <<logs, dash, pods, logsDenied, asked, ended, linesOf, strayed>>
  BY DEF ForwardLog
<1>3. PICK to \in {"over", "running", "ending"} :
        /\ link' = [link EXCEPT ![s] = to] /\ note' = [note EXCEPT ![s] = kind]
  <2> DEFINE to == CASE kind = "eos" -> "over" [] kind = "error" -> "ending" [] OTHER -> link[s]
  <2>1. link' = [link EXCEPT ![s] = to] /\ note' = [note EXCEPT ![s] = kind]
    BY DEF ForwardLog
  <2>2. to \in {"over", "running", "ending"}
    BY <1>2
  <2> QED BY <2>1, <2>2
<1>4. /\ link' \in [LogSessions -> {"none", "queued", "running", "ending", "over"}]
      /\ note' \in [LogSessions -> {"none", "refused", "lines", "reconnecting", "eos", "error"}]
  BY <1>1, <1>3 DEF LogTypeOK
<1>5. /\ \A r \in LogSessions : link[r] = "none" /\ note[r] = "none" => link'[r] = "none" /\ note'[r] = "none"
      /\ \A r \in LogSessions : link'[r] \in {"queued", "running", "ending"} /\ r \notin ended
                                  => link[r] \in {"queued", "running", "ending"}
  BY <1>1, <1>2, <1>3 DEF LogTypeOK
<1> QED BY <1>2, <1>4, <1>5, LinkMoves

LEMMA DeliverLogKeeps ==
  ASSUME SessionInv, NEW s \in LogSessions, DeliverLog(s) PROVE SessionInv'
<1>1. LogTypeOK /\ FreshNumbers /\ StreamNamed /\ ViewerInv /\ PodTaken(dash, pods) /\ NoMissedRetry
  BY DEF SessionInv
<1>2. /\ note[s] # "none" /\ note' = [note EXCEPT ![s] = "none"] /\ UNCHANGED <<pods, logsDenied>>
  BY DEF DeliverLog
<1>3. NotesLeft
  BY <1>1, <1>2 DEF NotesLeft, LogTypeOK
<1>4. CASE ~Accepts(s)
  <2>1. UNCHANGED <<logs, dash, pods, logsDenied, asked, link, ended, linesOf, strayed>>
    BY <1>4 DEF DeliverLog
  <2>2. /\ link' \in [LogSessions -> {"none", "queued", "running", "ending", "over"}]
        /\ note' \in [LogSessions -> {"none", "refused", "lines", "reconnecting", "eos", "error"}]
    BY <1>1, <1>3, <2>1 DEF LogTypeOK, NotesLeft
  <2>3. /\ \A r \in LogSessions : link[r] = "none" /\ note[r] = "none" => link'[r] = "none" /\ note'[r] = "none"
        /\ \A r \in LogSessions : link'[r] \in {"queued", "running", "ending"} /\ r \notin ended
                                    => link[r] \in {"queued", "running", "ending"}
    BY <1>3, <2>1 DEF NotesLeft
  <2> QED BY <2>1, <2>2, <2>3, LinkMoves
<1>5. CASE Accepts(s)
  <2>1. s = logs.session /\ logs.streaming /\ logs \in LogsType /\ linesOf \subseteq LogSessions
    BY <1>1, <1>2, <1>5, SessionFacts DEF Accepts, FreshNumbers, LogTypeOK
  <2> DEFINE failed == note[s] \in {"refused", "error"}
             l == [logs EXCEPT !.reconnecting = (note[s] = "reconnecting"),
                               !.finished = @ \/ note[s] = "eos",
                               !.err = failed \/ (@ /\ note[s] # "reconnecting"),
                               !.retry = IF failed THEN note[s] = "refused" /\ asked[s].waiting
                                         ELSE @]
  <2>2. /\ l \in LogsType /\ l.session = logs.session /\ l.open = logs.open /\ l.picker = logs.picker
        /\ l.streaming = logs.streaming /\ l.ref = logs.ref /\ l.container = logs.container
        /\ l.offered = logs.offered /\ (~failed => (l.retry <=> logs.retry))
    <3>1. /\ l.session = logs.session /\ l.open = logs.open /\ l.picker = logs.picker
          /\ l.streaming = logs.streaming /\ l.ref = logs.ref /\ l.container = logs.container
          /\ l.offered = logs.offered
      BY <2>1 DEF LogsType
    <3>2. asked[s].waiting \in BOOLEAN
      BY <1>1 DEF LogTypeOK
    <3>3. PICK rc \in BOOLEAN : rc = (note[s] = "reconnecting")
      OBVIOUS
    <3>4. PICK fi \in BOOLEAN : fi = (logs.finished \/ note[s] = "eos")
      OBVIOUS
    <3>5. PICK er \in BOOLEAN : er = (failed \/ (logs.err /\ note[s] # "reconnecting"))
      OBVIOUS
    <3>6. PICK rt \in BOOLEAN :
            rt = IF failed THEN note[s] = "refused" /\ asked[s].waiting ELSE logs.retry
      <4>1. logs.retry \in BOOLEAN
        BY <2>1 DEF LogsType
      <4>2. (IF failed THEN note[s] = "refused" /\ asked[s].waiting ELSE logs.retry) \in BOOLEAN
        BY <4>1
      <4> QED BY <4>2
    <3>7. l = [logs EXCEPT !.reconnecting = rc, !.finished = fi, !.err = er, !.retry = rt]
      BY <3>3, <3>4, <3>5, <3>6
    <3>8. [logs EXCEPT !.reconnecting = rc, !.finished = fi, !.err = er, !.retry = rt] \in LogsType
      BY <2>1 DEF LogsType
    <3> HIDE DEF l
    <3>9. l \in LogsType
      BY <3>7, <3>8
    <3> USE DEF l
    <3>10. ~failed => (l.retry <=> logs.retry)
      BY <2>1 DEF LogsType
    <3> QED BY <3>1, <3>9, <3>10
  <2>3. IF failed THEN RecoverDashboardLogs(l, pods)
        ELSE /\ logs' = l
             /\ linesOf' = IF note[s] = "lines" THEN linesOf \cup {s} ELSE linesOf
             /\ UNCHANGED <<dash, asked, link, ended, strayed>>
    BY <1>5 DEF DeliverLog
  <2> HIDE DEF l, failed
  <2>4. CASE failed /\ RecoverDue(l, dash, pods)
    <3>1. l.picker => l.open /\ l.offered # Deploy
      BY <1>1, <2>2 DEF ViewerInv
    <3> QED BY <1>2, <1>3, <2>2, <2>3, <2>4, <3>1, SessionFacts, RecoverKeeps
  <2>5. CASE ~(failed /\ RecoverDue(l, dash, pods))
    <3>1. /\ logs' = l /\ UNCHANGED <<dash, asked, link, ended, strayed>>
          /\ linesOf' \subseteq linesOf \cup {s}
      BY <2>3, <2>5 DEF RecoverDashboardLogs
    <3>2. LogTypeOK'
      BY <1>1, <1>2, <1>3, <2>1, <2>2, <3>1 DEF LogTypeOK, NotesLeft
    <3>3. FreshNumbers' /\ NoLeakedStream'
      BY <1>2, <1>3, <2>2, <3>1 DEF SessionInv, FreshNumbers, NoLeakedStream, NotesLeft
    <3>4. StreamNamed'
      BY <1>1, <2>2, <3>1 DEF StreamNamed, DashOpen
    <3>5. ViewerInv'
      BY <1>1, <2>1, <2>2, <3>1 DEF ViewerInv, BufferShown, DashOpen
    <3>6. PodTaken(dash, pods)'
      BY <1>1, <1>2, <3>1 DEF PodTaken, DashOpen, Newest, Known
    <3>7. DashOpen(dash) /\ ~strayed => ~(l.retry /\ Started(l.ref, l.container, pods))
      <4>1. CASE failed
        <5>1. DashOpen(dash) /\ l.retry => dash.logRef # Deploy
          BY <1>1, <2>1 DEF StreamNamed
        <5> QED BY <2>5, <4>1, <5>1 DEF RecoverDue
      <4>2. CASE ~failed
        BY <1>1, <2>2, <4>2 DEF NoMissedRetry
      <4> QED BY <4>1, <4>2
    <3>8. NoMissedRetry'
      BY <1>1, <1>2, <3>1, <3>7 DEF NoMissedRetry, PodTaken, DashOpen, Newest, Known, Started
    <3> QED BY <3>2, <3>3, <3>4, <3>5, <3>6, <3>8 DEF SessionInv
  <2> QED BY <2>4, <2>5
<1> QED BY <1>4, <1>5

LEMMA SessionStep == ASSUME SessionInv, [LogNext]_logVars PROVE SessionInv'
<1>1. CASE UNCHANGED logVars
  <2>1. /\ UNCHANGED <<logs, dash, pods, logsDenied, asked, ended, linesOf, strayed>>
        /\ UNCHANGED <<link, note>>
    BY <1>1 DEF logVars
  <2> QED BY <2>1, LinkMoves DEF SessionInv, LogTypeOK
<1>2. ASSUME NEW t \in Pods \cup {Deploy}, OpenDashboard(t) PROVE SessionInv'
  BY <1>2, OpenDashboardKeeps DEF Refs
<1>3. ASSUME NEW p \in Pods, OpenLogs(p) PROVE SessionInv'
  BY <1>3, OpenLogsKeeps
<1>4. ASSUME NEW c \in 1..2, PickContainer(c) PROVE SessionInv'
  BY <1>4, PickContainerKeeps
<1>5. CASE PopDashboard
  BY <1>5, PopDashboardKeeps
<1>6. CASE CycleDashboardContainer
  BY <1>6, CycleKeeps
<1>7. CASE OpenViewer
  BY <1>7, OpenViewerKeeps
<1>8. CASE CloseLogs
  BY <1>8, CloseLogsKeeps
<1>9. CASE LoadAll
  BY <1>9, LoadAllKeeps
<1>10. ASSUME NEW p \in Pods, NEW st \in Live \cup {"gone"}, PodChanges(p, st)
       PROVE  SessionInv'
  BY <1>10, PodChangesKeeps
<1>11. CASE LearnDenied
  BY <1>11, LearnDeniedKeeps
<1>12. CASE LeaveCluster
  BY <1>12, LeaveClusterKeeps
<1>13. ASSUME NEW s \in LogSessions, RunLogCommand(s) \/ DeliverLog(s) PROVE SessionInv'
  BY <1>13, RunLogCommandKeeps, DeliverLogKeeps
<1>14. ASSUME NEW s \in LogSessions, NEW kind \in {"lines", "reconnecting", "eos", "error"},
              ForwardLog(s, kind)
       PROVE  SessionInv'
  BY <1>14, ForwardLogKeeps
<1>15. CASE LogUser
  BY <1>2, <1>3, <1>4, <1>5, <1>6, <1>7, <1>8, <1>9, <1>15 DEF LogUser
<1> QED BY <1>1, <1>10, <1>11, <1>12, <1>13, <1>14, <1>15 DEF LogNext

\* Over any requests, pod events and late messages: the stream that goes on is
\* for the pod the dashboard and the viewer name, and the others were cancelled.
THEOREM SessionInvariance == LogSpec => []SessionInv
<1>1. SessionInv /\ [LogNext]_logVars => SessionInv'
  BY SessionStep
<1> QED BY <1>1, SessionInitially, PTL DEF LogSpec

\* beginLogStreamTail, stopDashboardLogs and the cases of Update for the log
\* messages: the lines on the screen are those of the pod named there, no stream
\* goes on that nothing shows, and a request that failed too early is made again.
THEOREM PaneIsTruthful == LogSpec => []LogPaneTruthful
<1>1. SessionInv => LogPaneTruthful
  <2> SUFFICES ASSUME SessionInv PROVE LogPaneTruthful
    OBVIOUS
  <2>1. StreamNamed /\ ViewerInv /\ NoLeakedStream /\ NoMissedRetry
    BY DEF SessionInv
  <2>2. LinesOfNamedPod
    <3> SUFFICES ASSUME BufferShown, NEW s \in linesOf
                 PROVE  /\ s = logs.session
                        /\ strayed \/ (asked[s].ref = logs.ref /\ asked[s].container = logs.container)
                        /\ DashOpen(dash) => asked[s].ref = dash.logRef
      BY DEF LinesOfNamedPod
    <3>1. s = logs.session /\ logs.streaming
      BY <2>1 DEF ViewerInv
    <3> QED BY <2>1, <3>1 DEF StreamNamed
  <2> QED BY <2>1, <2>2 DEF LogPaneTruthful
<1> QED BY <1>1, SessionInvariance, PTL

-----------------------------------------------------------------------------
(* LogBuffer.                                                              *)

\* The offset stays in the buffer.
LEMMA ClampFacts ==
  ASSUME NEW want \in Int, NEW count \in Nat, NEW body \in Nat \ {0}
  PROVE  /\ Clamp(want, count, body) \in Nat
         /\ Clamp(want, count, body) \in 0..Larger(0, count - 1)
         /\ body = 1 /\ count >= 1 /\ want >= 0 =>
              Clamp(want, count, body) = IF want > count - 1 THEN count - 1 ELSE want
BY DEF Clamp, Larger

\* Hits are finitely many numbers.
LEMMA HitsFinite ==
  ASSUME NEW t, NEW ls \in Seq(LineKinds), NEW b \in Nat, NEW from \in Nat
  PROVE  /\ Hits(t, ls, b, from) \in SUBSET Int /\ IsFiniteSet(Hits(t, ls, b, from))
         /\ \A n \in Hits(t, ls, b, from) : from <= n /\ n < b + Len(ls)
<1> DEFINE D == from..(b + Len(ls) - 1)
<1>1. Len(ls) \in Nat
  OBVIOUS
<1>2. IsFiniteSet(D)
  BY <1>1, FS_Interval
<1>3. Hits(t, ls, b, from) \in SUBSET D
  BY DEF Hits
<1>4. IsFiniteSet(Hits(t, ls, b, from))
  <2> HIDE DEF D
  <2> QED BY <1>2, <1>3, FS_Subset
<1>5. Hits(t, ls, b, from) \in SUBSET Int
  BY <1>3
<1>6. \A n \in Hits(t, ls, b, from) : from <= n /\ n < b + Len(ls)
  BY <1>1, <1>3
<1> QED BY <1>4, <1>5, <1>6

LEMMA SeqWithin ==
  ASSUME NEW S, NEW T, S \subseteq T, NEW s \in Seq(S)
  PROVE  s \in Seq(T) /\ Len(s) \in Nat
OBVIOUS

\* What a sequence shows once its first lines are dropped.
LEMMA Dropped ==
  ASSUME NEW S, NEW s \in Seq(S), NEW d \in 0..Len(s)
  PROVE  /\ SubSeq(s, d + 1, Len(s)) \in Seq(S)
         /\ Len(SubSeq(s, d + 1, Len(s))) = Len(s) - d
         /\ \A i \in 1..(Len(s) - d) : SubSeq(s, d + 1, Len(s))[i] = s[d + i]
<1>1. Len(s) \in Nat
  OBVIOUS
<1> QED BY <1>1

\* What is held after a batch: the lines in their places, d places lower.
LEMMA Shifted ==
  ASSUME NEW old \in Seq(LineKinds), NEW added \in Seq(LineKinds),
         NEW d \in 0..(Len(old) + Len(added))
  PROVE  LET new == SubSeq(old \o added, d + 1, Len(old \o added))
         IN  /\ new \in Seq(LineKinds) /\ Len(new) = Len(old) + Len(added) - d
             /\ \A i \in 1..Len(old) : i > d => new[i - d] = old[i]
<1> DEFINE all == old \o added
           new == SubSeq(all, d + 1, Len(all))
<1>1. /\ all \in Seq(LineKinds) /\ Len(all) = Len(old) + Len(added)
      /\ \A i \in 1..Len(old) : all[i] = old[i]
  BY Concatenated
<1>2. Len(old) \in Nat /\ Len(added) \in Nat
  OBVIOUS
<1> HIDE DEF all
<1>3. /\ new \in Seq(LineKinds) /\ Len(new) = Len(all) - d
      /\ \A i \in 1..(Len(all) - d) : new[i] = all[d + i]
  <2>1. d \in 0..Len(all)
    BY <1>1
  <2> QED BY <1>1, <2>1, Dropped
<1> HIDE DEF new
<1>4. ASSUME NEW i \in 1..Len(old), i > d PROVE new[i - d] = old[i]
  <2> DEFINE k == i - d
  <2>1. k \in 1..(Len(all) - d) /\ d + k = i
    BY <1>1, <1>2, <1>4
  <2> HIDE DEF k
  <2>2. new[k] = all[i] /\ all[i] = old[i]
    BY <1>1, <1>3, <2>1
  <2> QED BY <2>2 DEF k
<1> QED BY <1>1, <1>3, <1>4 DEF new, all

\* Those of a set of lines that are still held.
StillHeld(H, c) == {n \in H : n >= c}

\* The lines that match after a batch: those of the old ones that are still
\* held, and those of the rest.
LEMMA HitsGrow ==
  ASSUME NEW t, NEW old \in Seq(LineKinds), NEW new \in Seq(LineKinds), NEW b \in Nat,
         NEW c \in Nat, c >= b, c + Len(new) >= b + Len(old),
         \A i \in 1..Len(old) : i > c - b => new[i - (c - b)] = old[i]
  PROVE  Hits(t, new, c, c) =
           StillHeld(Hits(t, old, b, b), c) \cup Hits(t, new, c, Larger(b + Len(old), c))
<1> DEFINE start == Larger(b + Len(old), c)
           kept == StillHeld(Hits(t, old, b, b), c)
           fresh == Hits(t, new, c, start)
           hits == Hits(t, new, c, c)
<1>1. Len(old) \in Nat /\ Len(new) \in Nat /\ c + Len(new) >= b + Len(old)
  OBVIOUS
<1>2. /\ start \in Nat /\ start >= b + Len(old) /\ start >= c
      /\ (start = b + Len(old) \/ start = c)
  BY <1>1 DEF Larger
<1>3. ASSUME NEW n \in Int, n >= c, n < b + Len(old)
      PROVE  new[n - c + 1] = old[n - b + 1]
  <2> DEFINE i == n - b + 1
  <2>1. i \in 1..Len(old) /\ i > c - b /\ i - (c - b) = n - c + 1
    BY <1>1, <1>3
  <2> HIDE DEF i
  <2>2. new[i - (c - b)] = old[i]
    BY <2>1
  <2> QED BY <2>1, <2>2 DEF i
<1> HIDE DEF start, hits, kept, fresh
<1>4. \A n : n \in hits <=> n \in c..(c + Len(new) - 1) /\ t \in new[n - c + 1]
  BY DEF hits, Hits
<1>5. \A n : n \in fresh <=> n \in start..(c + Len(new) - 1) /\ t \in new[n - c + 1]
  BY DEF fresh, Hits
<1>6. \A n : n \in kept <=> n \in b..(b + Len(old) - 1) /\ n >= c /\ t \in old[n - b + 1]
  BY DEF kept, Hits, StillHeld
<1>7. ASSUME NEW n \in hits PROVE n \in kept \cup fresh
  <2>1. /\ n \in Int /\ n >= c /\ n <= c + Len(new) - 1
        /\ t \in new[n - c + 1]
    BY <1>1, <1>4
  <2>2. CASE n < start
    <3>1. n < b + Len(old)
      BY <1>1, <1>2, <2>1, <2>2
    <3>2. t \in old[n - b + 1]
      BY <1>3, <2>1, <3>1
    <3>3. n \in b..(b + Len(old) - 1)
      BY <1>1, <2>1, <3>1
    <3> QED BY <1>6, <2>1, <3>2, <3>3
  <2>3. CASE n >= start
    <3>1. n \in start..(c + Len(new) - 1)
      BY <1>1, <1>2, <2>1, <2>3
    <3> QED BY <1>5, <2>1, <3>1
  <2> QED BY <1>2, <2>1, <2>2, <2>3
<1>8. ASSUME NEW n \in kept PROVE n \in hits
  <2>1. n \in Int /\ n >= c /\ n < b + Len(old) /\ t \in old[n - b + 1]
    BY <1>1, <1>6
  <2>2. n \in c..(c + Len(new) - 1)
    BY <1>1, <2>1
  <2> QED BY <1>3, <1>4, <2>1, <2>2
<1>9. ASSUME NEW n \in fresh PROVE n \in hits
  <2>1. /\ n \in Int /\ n >= start /\ n <= c + Len(new) - 1
        /\ t \in new[n - c + 1]
    BY <1>1, <1>2, <1>5
  <2>2. n \in c..(c + Len(new) - 1)
    BY <1>1, <1>2, <2>1
  <2> QED BY <1>4, <2>1, <2>2
<1>10. hits = kept \cup fresh
  BY <1>7, <1>8, <1>9
<1> QED BY <1>10 DEF hits, kept, fresh, start

\* The lines that match in buffer ls with base b are those that did and are still
\* held, and those not searched yet.
HitsCarry(t, ls, b) ==
  Hits(t, ls, b, b) = StillHeld(Hits(t, buffered, lineBase, lineBase), b)
                        \cup Hits(t, ls, b, Larger(lineBase + Len(buffered), b))

\* What recomputing leaves, where the lines that match are those kept and those
\* after them: the matches of a scan, the cursor in them, and on its line.
LEMMA RecomputeScans ==
  ASSUME BufferInv, NEW t \in Needles, NEW ls \in Seq(LineKinds), NEW b \in Nat,
         Recompute(t, ls, b),
         t = searchTerm => HitsCarry(t, ls, b)
  PROVE  /\ searchTerm' = t /\ searchNeedle' = t /\ searchNext' = b + Len(ls)
         /\ searchMatches' = IF t = "" THEN <<>> ELSE Increasing(Hits(t, ls, b, b))
         /\ searchIdx' \in 1..Larger(1, Len(searchMatches')) /\ searchIdx' \in Nat \ {0}
         /\ t = searchTerm /\ searchMatches # <<>> /\ searchMatches[searchIdx] >= b
              => searchMatches'[searchIdx'] = searchMatches[searchIdx]
<1> DEFINE H0 == Hits(t, buffered, lineBase, lineBase)
           H1 == Hits(t, ls, b, b)
           start == Larger(lineBase + Len(buffered), b)
           kept == {n \in H0 : n >= b}
           fresh == Hits(t, ls, b, start)
<1>0. lineBase \in Nat /\ Len(buffered) \in Nat /\ buffered \in Seq(LineKinds)
  BY DEF BufferInv, BufferTypeOK
<1>1. /\ searchNeedle = searchTerm /\ searchNext = lineBase + Len(buffered)
      /\ searchIdx \in 1..Larger(1, Len(searchMatches))
      /\ searchMatches = IF searchTerm = "" THEN <<>>
                         ELSE Increasing(Hits(searchTerm, buffered, lineBase, lineBase))
  BY DEF BufferInv, SearchedInv, WindowExact, Matching
<1>2. start \in Nat /\ start >= lineBase + Len(buffered) /\ start >= b
  BY <1>0 DEF Larger
<1>3. H0 \in SUBSET Int /\ IsFiniteSet(H0) /\ \A n \in H0 : n < lineBase + Len(buffered)
  BY <1>0, HitsFinite
<1>4. H1 \in SUBSET Int /\ IsFiniteSet(H1)
  BY HitsFinite
<1>5. fresh \in SUBSET Int /\ IsFiniteSet(fresh) /\ \A n \in fresh : start <= n
  <2> HIDE DEF start
  <2> QED BY <1>2, HitsFinite
<1>6. searchTerm' = t /\ searchNeedle' = t /\ searchNext' = b + Len(ls)
  BY DEF Recompute
<1>7. CASE t = ""
  <2>1. searchMatches' = <<>> /\ searchIdx' = 1
    BY <1>7 DEF Recompute
  <2>2. t = searchTerm => searchMatches = <<>>
    BY <1>1, <1>7
  <2>3. searchIdx' \in 1..Larger(1, Len(searchMatches')) /\ searchIdx' \in Nat \ {0}
    BY <2>1 DEF Larger
  <2> QED BY <1>6, <1>7, <2>1, <2>2, <2>3
<1>8. CASE t # "" /\ t # searchTerm
  <2>1. Expired(<<>>, b) = 0
    <3>1. {i \in DOMAIN <<>> : <<>>[i] < b} = {}
      OBVIOUS
    <3> QED BY <3>1, FS_EmptySet DEF Expired
  <2>2. ResumeAt(b, b) = b
    BY DEF ResumeAt, Larger
  <2>3. /\ searchMatches' = SubSeq(<<>>, 0 + 1, Len(<<>>)) \o Increasing(H1)
        /\ searchIdx' = Larger(1, 1 - 0)
    BY <1>1, <1>8, <2>1, <2>2 DEF Recompute
  <2>4. Increasing(H1) \in Seq(H1)
    BY <1>4, IncreasingLists
  <2> HIDE DEF H1
  <2>5. searchMatches' = Increasing(H1)
    <3>1. SubSeq(<<>>, 0 + 1, Len(<<>>)) = <<>>
      OBVIOUS
    <3>2. <<>> \o Increasing(H1) = Increasing(H1)
      BY <2>4
    <3> QED BY <2>3, <3>1, <3>2
  <2>6. searchIdx' \in 1..Larger(1, Len(searchMatches')) /\ searchIdx' \in Nat \ {0}
    <3>1. Len(Increasing(H1)) \in Nat
      BY <2>4
    <3> QED BY <2>3, <2>5, <3>1 DEF Larger
  <2> QED BY <1>6, <1>8, <2>5, <2>6 DEF H1
<1>9. CASE t # "" /\ t = searchTerm
  <2> DEFINE s == Increasing(H0)
             G == {i \in DOMAIN s : s[i] < b}
             gone == Cardinality(G)
             rest == SubSeq(s, gone + 1, Len(s))
  <2>1. searchMatches = s
    BY <1>1, <1>9
  <2>2. /\ rest = Increasing(kept) /\ gone \in 0..Len(s)
        /\ \A i \in 1..Len(s) : s[i] >= b <=> i > gone
    <3>1. b \in Int
      OBVIOUS
    <3> HIDE DEF H0
    <3> QED BY <1>3, <3>1, IncreasingDropped
  <2>3. H1 = kept \cup fresh
    BY <1>9 DEF HitsCarry, StillHeld
  <2>4. kept \in SUBSET Int /\ IsFiniteSet(kept) /\ \A n \in kept, m \in fresh : n < m
    <3> HIDE DEF H0, fresh, start
    <3>1. kept \in SUBSET H0
      OBVIOUS
    <3>2. IsFiniteSet(kept)
      BY <1>3, <3>1, FS_Subset
    <3>3. ASSUME NEW n \in kept, NEW m \in fresh PROVE n < m
      <4>1. n \in H0 /\ m \in fresh
        BY <3>1
      <4>2. n \in Int /\ m \in Int /\ n < lineBase + Len(buffered) /\ start <= m
        BY <1>3, <1>5, <4>1
      <4> HIDE DEF kept
      <4>3. lineBase + Len(buffered) \in Int
        BY <1>0
      <4> QED BY <1>2, <4>2, <4>3
    <3> QED BY <1>3, <3>1, <3>2, <3>3
  <2> HIDE DEF H0, H1, kept, fresh, start
  <2>5. Increasing(H1) = rest \o Increasing(fresh)
    BY <1>5, <2>2, <2>3, <2>4, IncreasingJoined
  <2>6. gone = Expired(searchMatches, b)
    BY <2>1 DEF Expired
  <2>7. start = ResumeAt(searchNext, b)
    BY <1>1 DEF start, ResumeAt
  <2>8. /\ searchMatches' = SubSeq(searchMatches, Expired(searchMatches, b) + 1, Len(searchMatches))
                               \o Increasing(Hits(t, ls, b, ResumeAt(searchNext, b)))
        /\ searchIdx' = Larger(1, searchIdx - Expired(searchMatches, b))
    BY <1>1, <1>9 DEF Recompute
  <2>9. searchMatches' = rest \o Increasing(fresh) /\ searchIdx' = Larger(1, searchIdx - gone)
    <3> HIDE DEF gone
    <3> QED BY <2>1, <2>6, <2>7, <2>8 DEF fresh
  <2>10. /\ s \in Seq(Int) /\ Len(s) \in Nat
    <3>1. s \in Seq(H0)
      BY <1>3, IncreasingLists
    <3> HIDE DEF s
    <3>2. H0 \subseteq Int
      BY <1>3
    <3> QED BY <3>1, <3>2, SeqWithin
  <2>11. Increasing(fresh) \in Seq(Int)
    <3>1. Increasing(fresh) \in Seq(fresh)
      BY <1>5, IncreasingLists
    <3>2. fresh \subseteq Int
      BY <1>5
    <3> QED BY <3>1, <3>2, SeqWithin
  <2> HIDE DEF s, gone
  <2>12. /\ rest \in Seq(Int) /\ Len(rest) = Len(s) - gone
         /\ \A i \in 1..(Len(s) - gone) : rest[i] = s[gone + i]
    BY <2>2, <2>10, Dropped
  <2> DEFINE new == Increasing(fresh)
  <2> HIDE DEF rest, new
  <2>13. /\ Len(searchMatches') = Len(rest) + Len(new)
         /\ \A i \in 1..Len(rest) : searchMatches'[i] = rest[i]
         /\ Len(new) \in Nat
    <3>1. new \in Seq(Int)
      BY <2>11 DEF new
    <3>2. searchMatches' = rest \o new
      BY <2>9 DEF new
    <3>3. Len(new) \in Nat
      BY <3>1
    <3> QED BY <2>12, <3>1, <3>2, <3>3, Concatenated
  <2>14. searchIdx \in Nat /\ searchIdx >= 1 /\ searchIdx <= Larger(1, Len(s)) /\ gone \in Nat /\ gone <= Len(s)
    <3>1. searchIdx \in 1..Larger(1, Len(s)) /\ gone \in 0..Len(s)
      BY <1>1, <2>1, <2>2
    <3>2. Larger(1, Len(s)) \in Nat
      BY <2>10 DEF Larger
    <3> QED BY <2>10, <3>1, <3>2
  <2>15. searchIdx' \in 1..Larger(1, Len(searchMatches')) /\ searchIdx' \in Nat \ {0}
    <3>1. Larger(1, Len(searchMatches')) = Larger(1, Len(s) - gone + Len(new))
      BY <2>12, <2>13
    <3>2. searchIdx - gone <= Larger(1, Len(s) - gone + Len(new))
      BY <2>10, <2>13, <2>14 DEF Larger
    <3>3. Larger(1, searchIdx - gone) \in 1..Larger(1, Len(s) - gone + Len(new))
      BY <2>10, <2>13, <2>14, <3>2 DEF Larger
    <3>4. Larger(1, searchIdx - gone) \in Nat \ {0}
      BY <2>14 DEF Larger
    <3> QED BY <2>9, <3>1, <3>3, <3>4
  <2>16. ASSUME searchMatches # <<>>, searchMatches[searchIdx] >= b
         PROVE  searchMatches'[searchIdx'] = searchMatches[searchIdx]
    <3>1. Len(s) >= 1
      BY <2>1, <2>10, <2>16
    <3>2. searchIdx \in 1..Len(s)
      BY <2>10, <2>14, <3>1 DEF Larger
    <3>3. searchIdx > gone
      BY <2>1, <2>2, <2>16, <3>2
    <3>4. searchIdx' = searchIdx - gone /\ searchIdx - gone \in 1..Len(rest)
      BY <2>9, <2>12, <2>14, <3>2, <3>3 DEF Larger
    <3> DEFINE k == searchIdx - gone
    <3>5. k \in 1..(Len(s) - gone) /\ gone + k = searchIdx /\ k \in 1..Len(rest) /\ searchIdx' = k
      BY <2>12, <2>14, <3>4
    <3> HIDE DEF k
    <3>6. searchMatches'[k] = rest[k] /\ rest[k] = s[searchIdx]
      BY <2>12, <2>13, <3>5
    <3> QED BY <2>1, <3>5, <3>6
  <2>17. searchMatches' = Increasing(H1)
    BY <2>5, <2>9 DEF new
  <2> QED BY <1>6, <1>9, <2>15, <2>16, <2>17 DEF H1
<1> QED BY <1>7, <1>8, <1>9

LEMMA BufferBounds ==
  LineCap \in Nat \ {0} /\ Body \in Nat \ {0} /\ MaxBuffered \in Nat /\ MaxBatch \in Nat
BY LogBufferAssumption, Zenon

LEMMA BufferInitially == BufferInit => BufferInv
<1> SUFFICES ASSUME BufferInit PROVE BufferInv
  OBVIOUS
<1>0. searchTerm = "" /\ searchNeedle = ""
  BY DEF BufferInit
<1>1. buffered = <<>> /\ lineBase = 0 /\ scroll = 0 /\ searchMatches = <<>> /\ searchIdx = 1
      /\ searchNext = 0
  BY DEF BufferInit
<1>2. follow \in BOOLEAN /\ searchFocused \in BOOLEAN /\ viewed \in BOOLEAN
  BY DEF BufferInit
<1>3. Len(buffered) = 0 /\ Len(searchMatches) = 0 /\ buffered \in Seq(LineKinds)
  BY <1>1
<1>4. searchTerm \in Needles /\ LineCap \in Nat
  BY <1>0, LogBufferAssumption, Zenon
<1>5. lineBase \in Nat /\ scroll \in Nat /\ searchIdx \in Nat \ {0}
  BY <1>1
<1>6. BufferTypeOK
  BY <1>2, <1>3, <1>4, <1>5 DEF BufferTypeOK
<1>7. SearchedInv
  <2>1. searchNext = lineBase + Len(buffered)
    BY <1>1, <1>3
  <2> QED BY <1>0, <2>1 DEF SearchedInv
<1>8. WindowExact
  <2>1. searchMatches = Matching
    BY <1>0, <1>1 DEF Matching
  <2>2. searchIdx \in 1..Larger(1, 0) /\ scroll \in 0..Larger(0, 0 - 1)
    BY <1>1 DEF Larger
  <2>3. Len(buffered) <= LineCap /\ scroll = 0
    BY <1>1, <1>3, <1>4
  <2> QED BY <1>3, <2>1, <2>2, <2>3 DEF WindowExact
<1> QED BY <1>6, <1>7, <1>8 DEF BufferInv

\* The parts of the invariant that other steps cite.
LEMMA BufferParts ==
  ASSUME BufferInv
  PROVE  /\ buffered \in Seq(LineKinds) /\ lineBase \in Nat /\ Len(buffered) \in Nat
         /\ Len(buffered) <= LineCap /\ scroll \in Nat /\ scroll \in 0..Larger(0, Len(buffered) - 1)
         /\ follow \in BOOLEAN /\ searchFocused \in BOOLEAN /\ viewed \in BOOLEAN
         /\ (follow => scroll = 0)
         /\ searchTerm \in Needles /\ searchIdx \in Nat \ {0}
<1>1. BufferTypeOK /\ WindowExact
  BY DEF BufferInv
<1>2. Len(buffered) \in Nat
  BY <1>1 DEF BufferTypeOK
<1> QED BY <1>1, <1>2 DEF BufferTypeOK, WindowExact

LEMMA ApplyKeeps ==
  ASSUME BufferInv, NEW n \in 1..MaxBatch, NEW added \in [1..n -> LineKinds], ApplyLogLines(added)
  PROVE  BufferInv' /\ Undisturbed
<1> DEFINE all == buffered \o added
           d == Larger(0, Len(all) - LineCap)
           new == SubSeq(all, d + 1, Len(all))
           b == lineBase + d
<1>0. /\ buffered \in Seq(LineKinds) /\ lineBase \in Nat /\ Len(buffered) \in Nat
      /\ Len(buffered) <= LineCap /\ scroll \in Nat /\ scroll \in 0..Larger(0, Len(buffered) - 1)
      /\ follow \in BOOLEAN /\ searchFocused \in BOOLEAN /\ (follow => scroll = 0)
      /\ searchTerm \in Needles
  BY BufferParts
<1>1. n \in Nat /\ n >= 1 /\ added \in Seq(LineKinds) /\ Len(added) = n /\ LineCap \in Nat /\ LineCap >= 1
  <2>1. n \in Nat /\ n >= 1
    BY BufferBounds
  <2>2. added \in Seq(LineKinds) /\ Len(added) = n
    BY <2>1
  <2>3. LineCap \in Nat /\ LineCap >= 1
    BY BufferBounds
  <2> QED BY <2>1, <2>2, <2>3
<1>2. /\ buffered' = new /\ lineBase' = b
      /\ scroll' = Anchored(Len(added), Len(buffered'))
      /\ Recompute(searchTerm, buffered', lineBase')
      /\ viewed' = FALSE /\ follow' = follow /\ searchFocused' = searchFocused
  BY DEF ApplyLogLines
<1>3. Len(all) = Len(buffered) + n
  BY <1>0, <1>1, Concatenated
<1>4. d \in 0..(Len(buffered) + n) /\ Len(buffered) + n - d <= LineCap /\ Len(buffered) + n - d >= 1
  <2> HIDE DEF all
  <2> QED BY <1>0, <1>1, <1>3 DEF Larger
<1>5. /\ new \in Seq(LineKinds) /\ Len(new) = Len(buffered) + n - d
      /\ \A i \in 1..Len(buffered) : i > d => new[i - d] = buffered[i]
  <2> HIDE DEF d
  <2> QED BY <1>0, <1>1, <1>4, Shifted
<1> HIDE DEF all, d, new
<1>6. d \in Nat /\ b \in Nat
  BY <1>0, <1>1, <1>4
<1>7. HitsCarry(searchTerm, new, b)
  <2>1. Hits(searchTerm, new, b, b)
          = StillHeld(Hits(searchTerm, buffered, lineBase, lineBase), b)
              \cup Hits(searchTerm, new, b, Larger(lineBase + Len(buffered), b))
    <3> HIDE DEF b
    <3>1. d = b - lineBase /\ b >= lineBase /\ b \in Nat
      BY <1>0, <1>6 DEF b
    <3>2. b + Len(new) >= lineBase + Len(buffered)
      BY <1>0, <1>1, <1>5, <1>6, <3>1
    <3>3. \A i \in 1..Len(buffered) : i > b - lineBase => new[i - (b - lineBase)] = buffered[i]
      BY <1>5, <3>1
    <3>4. new \in Seq(LineKinds) /\ buffered \in Seq(LineKinds) /\ lineBase \in Nat /\ b \in Nat /\ b >= lineBase
      BY <1>0, <1>5, <3>1
    <3> HIDE DEF all
    <3> QED BY <3>2, <3>3, <3>4, HitsGrow
  <2> QED BY <2>1 DEF HitsCarry
<1>8. /\ searchTerm' = searchTerm /\ searchNeedle' = searchTerm /\ searchNext' = b + Len(new)
      /\ searchMatches' = IF searchTerm = "" THEN <<>> ELSE Increasing(Hits(searchTerm, new, b, b))
      /\ searchIdx' \in 1..Larger(1, Len(searchMatches')) /\ searchIdx' \in Nat \ {0}
      /\ searchMatches # <<>> /\ searchMatches[searchIdx] >= b
           => searchMatches'[searchIdx'] = searchMatches[searchIdx]
  <2>1. Recompute(searchTerm, new, b)
    BY <1>2
  <2> HIDE DEF b
  <2> QED BY <1>0, <1>5, <1>6, <1>7, <2>1, RecomputeScans
<1> DEFINE k == Len(new)
           want == scroll + n
<1>9. k \in Nat /\ k >= 1 /\ k = Len(buffered) + n - d /\ k <= LineCap /\ Len(buffered') = k
  BY <1>0, <1>1, <1>2, <1>4, <1>5
<1>10. scroll' = IF follow THEN scroll ELSE IF want > k - 1 THEN k - 1 ELSE want
  <2> HIDE DEF k, want
  <2>1. want \in Int /\ want >= 0 /\ 1 \in Nat \ {0}
    BY <1>0, <1>1 DEF want
  <2>2. Clamp(want, k, 1) = IF want > k - 1 THEN k - 1 ELSE want
    BY <1>9, <2>1, ClampFacts
  <2>3. scroll' = IF follow THEN scroll ELSE Clamp(want, k, 1)
    BY <1>1, <1>2, <1>9 DEF Anchored, want
  <2> QED BY <2>2, <2>3
<1> HIDE DEF k
<1>11. scroll' \in Nat /\ scroll' \in 0..Larger(0, k - 1) /\ (follow => scroll' = 0)
  BY <1>0, <1>1, <1>9, <1>10 DEF Larger
<1>12. searchIdx' \in Nat \ {0}
  BY <1>8
<1>13. BufferTypeOK'
  BY <1>0, <1>2, <1>5, <1>6, <1>8, <1>11, <1>12 DEF BufferTypeOK
<1>14. SearchedInv'
  BY <1>2, <1>8 DEF SearchedInv
<1>15. WindowExact'
  <2>1. searchMatches' = Matching'
    BY <1>2, <1>8 DEF Matching
  <2>2. Len(buffered') <= LineCap /\ scroll' \in 0..Larger(0, Len(buffered') - 1) /\ (follow' => scroll' = 0)
    BY <1>2, <1>9, <1>11
  <2> QED BY <1>8, <2>1, <2>2 DEF WindowExact
<1>16. ASSUME ~follow PROVE Bottom' = Larger(Bottom, lineBase' + 1)
  <2>1. Bottom' = b + k - scroll' /\ Bottom = lineBase + Len(buffered) - scroll /\ lineBase' = b
    BY <1>2, <1>9 DEF Bottom
  <2>2. b + k = lineBase + Len(buffered) + n
    BY <1>0, <1>1, <1>6, <1>9
  <2>3. scroll' = IF want > k - 1 THEN k - 1 ELSE want
    BY <1>10, <1>16
  <2> HIDE DEF b
  <2>4. b + k - scroll' = Larger(lineBase + Len(buffered) - scroll, b + 1)
    <3> DEFINE e == lineBase + Len(buffered)
    <3>1. e \in Nat /\ b \in Nat /\ k \in Nat /\ scroll \in Nat /\ n \in Nat /\ b + k = e + n
      BY <1>0, <1>1, <1>6, <1>9, <2>2
    <3> HIDE DEF e
    <3>2. b + k - scroll' = Larger(e - scroll, b + 1)
      BY <2>3, <3>1 DEF Larger
    <3> QED BY <1>0, <3>2 DEF e
  <2> QED BY <2>1, <2>4
<1>17. Undisturbed
  <2>1. lineBase' = b
    BY <1>2
  <2> QED BY <1>8, <1>16, <2>1 DEF Undisturbed
<1> QED BY <1>13, <1>14, <1>15, <1>17 DEF BufferInv

\* A search over the same lines.
LEMMA SearchKeeps ==
  ASSUME BufferInv, NEW t \in Needles, Recompute(t, buffered, lineBase),
         UNCHANGED <<buffered, lineBase, scroll, follow>>, searchFocused' \in BOOLEAN, viewed' = TRUE
  PROVE  BufferInv'
<1>0. /\ buffered \in Seq(LineKinds) /\ lineBase \in Nat /\ Len(buffered) \in Nat
      /\ Len(buffered) <= LineCap /\ scroll \in Nat /\ scroll \in 0..Larger(0, Len(buffered) - 1)
      /\ follow \in BOOLEAN /\ (follow => scroll = 0)
  BY BufferParts
<1>1. HitsCarry(t, buffered, lineBase)
  <2> DEFINE H == Hits(t, buffered, lineBase, lineBase)
             start == Larger(lineBase + Len(buffered), lineBase)
             F == Hits(t, buffered, lineBase, start)
  <2>1. start = lineBase + Len(buffered)
    BY <1>0 DEF Larger
  <2>2. start \in Nat
    BY <1>0, <2>1
  <2>3. H \in SUBSET Int /\ \A m \in H : lineBase <= m
    BY <1>0, HitsFinite
  <2>4. F \in SUBSET Int /\ \A m \in F : start <= m /\ m < lineBase + Len(buffered)
    <3> HIDE DEF start
    <3> QED BY <1>0, <2>2, HitsFinite
  <2> HIDE DEF start, H, F
  <2>5. F = {}
    <3>1. ASSUME NEW m \in F PROVE FALSE
      <4>1. m \in Int /\ start <= m /\ m < start
        BY <2>1, <2>4
      <4> QED BY <2>2, <4>1
    <3> QED BY <3>1
  <2>6. H = {m \in H : m >= lineBase}
    <3>1. \A m \in H : m >= lineBase
      <4>1. \A m \in H : m \in Int
        BY <2>3
      <4> QED BY <1>0, <2>3, <4>1
    <3> QED BY <3>1
  <2> QED BY <2>5, <2>6 DEF HitsCarry, StillHeld, H, F, start
<1>2. /\ searchTerm' = t /\ searchNeedle' = t /\ searchNext' = lineBase + Len(buffered)
      /\ searchMatches' = IF t = "" THEN <<>> ELSE Increasing(Hits(t, buffered, lineBase, lineBase))
      /\ searchIdx' \in 1..Larger(1, Len(searchMatches')) /\ searchIdx' \in Nat \ {0}
  BY <1>0, <1>1, RecomputeScans
<1>3. searchIdx' \in Nat \ {0}
  BY <1>2
<1>4. BufferTypeOK'
  BY <1>0, <1>2, <1>3 DEF BufferTypeOK
<1>5. SearchedInv'
  BY <1>2 DEF SearchedInv
<1>6. WindowExact'
  <2>1. searchMatches' = Matching'
    BY <1>2 DEF Matching
  <2> QED BY <1>0, <1>2, <2>1 DEF WindowExact
<1> QED BY <1>4, <1>5, <1>6 DEF BufferInv

\* A step that only moves the view, or the cursor among the matches.
LEMMA ViewKeeps ==
  ASSUME BufferInv,
         UNCHANGED <<buffered, lineBase, searchTerm, searchMatches, searchNeedle, searchNext>>,
         scroll' \in Nat, scroll' \in 0..Larger(0, Len(buffered) - 1),
         follow' \in BOOLEAN, follow' => scroll' = 0, searchFocused' \in BOOLEAN, viewed' = TRUE,
         searchIdx' \in 1..Larger(1, Len(searchMatches)), searchIdx' \in Nat \ {0}
  PROVE  BufferInv'
<1>1. BufferTypeOK /\ SearchedInv /\ WindowExact
  BY DEF BufferInv
<1>3. BufferTypeOK'
  BY <1>1 DEF BufferTypeOK
<1>4. SearchedInv'
  BY <1>1 DEF SearchedInv
<1>5. WindowExact'
  <2>1. Matching' = Matching
    BY DEF Matching
  <2> QED BY <1>1, <2>1 DEF WindowExact
<1> QED BY <1>3, <1>4, <1>5 DEF BufferInv

\* Matches are line numbers.
LEMMA MatchesAreNumbers ==
  ASSUME BufferInv
  PROVE  searchMatches \in Seq(Int)
<1>1. /\ buffered \in Seq(LineKinds) /\ lineBase \in Nat /\ searchMatches = Matching
  BY DEF BufferInv, BufferTypeOK, WindowExact
<1> DEFINE H == Hits(searchTerm, buffered, lineBase, lineBase)
<1>2. H \in SUBSET Int /\ IsFiniteSet(H)
  BY <1>1, HitsFinite
<1> HIDE DEF H
<1>3. Increasing(H) \in Seq(H) /\ H \subseteq Int
  BY <1>2, IncreasingLists
<1>4. Increasing(H) \in Seq(Int)
  BY <1>3, SeqWithin
<1>5. searchMatches = <<>> \/ searchMatches = Increasing(H)
  BY <1>1 DEF Matching, H
<1>6. <<>> \in Seq(Int)
  OBVIOUS
<1> QED BY <1>4, <1>5, <1>6

\* A scroll to a line ends in the buffer.
LEMMA ScrollToFacts ==
  ASSUME BufferInv, NEW n \in Int, ScrollTo(n)
  PROVE  /\ scroll' \in Nat /\ scroll' \in 0..Larger(0, Len(buffered) - 1)
         /\ follow' = FALSE
<1>1. lineBase \in Nat /\ Len(buffered) \in Nat /\ Body \in Nat \ {0}
  BY BufferParts, BufferBounds
<1>2. Len(buffered) - ((n - lineBase) + Body \div 2) \in Int
  <2>1. Body \div 2 \in Int
    BY <1>1
  <2> QED BY <1>1, <2>1
<1> DEFINE want == Len(buffered) - ((n - lineBase) + Body \div 2)
<1>3. scroll' = Clamp(want, Len(buffered), Body) /\ follow' = FALSE
  BY DEF ScrollTo
<1> HIDE DEF want
<1>4. want \in Int
  BY <1>2 DEF want
<1> QED BY <1>1, <1>3, <1>4, ClampFacts

\* An empty buffer has no line too many and no match.
LEMMA EmptiedKeeps ==
  ASSUME BufferInv, NEW base \in Nat, NEW t \in Needles, Emptied(base, t)
  PROVE  BufferInv' /\ viewed' = TRUE
<1>1. /\ buffered' = <<>> /\ lineBase' = base /\ scroll' = 0 /\ follow' = TRUE
      /\ searchMatches' = <<>> /\ searchIdx' = 1 /\ searchNeedle' = t
      /\ searchNext' = base /\ viewed' = TRUE /\ searchTerm' = t
      /\ searchFocused' = FALSE
  BY DEF Emptied
<1>2. buffered' \in Seq(LineKinds) /\ Len(buffered') = 0 /\ Len(searchMatches') = 0
  BY <1>1
<1>3. BufferTypeOK'
  <2>1. lineBase' \in Nat /\ scroll' \in Nat /\ searchTerm' \in Needles /\ searchIdx' \in Nat \ {0}
    BY <1>1
  <2>2. follow' \in BOOLEAN /\ searchFocused' \in BOOLEAN /\ viewed' \in BOOLEAN
    BY <1>1, Zenon
  <2> QED BY <1>2, <2>1, <2>2 DEF BufferTypeOK
<1>4. SearchedInv'
  BY <1>1, <1>2 DEF SearchedInv
<1>5. Hits(searchTerm', buffered', lineBase', lineBase') = {}
  <2>1. lineBase'..(lineBase' + Len(buffered') - 1) = {}
    BY <1>1, <1>2
  <2> QED BY <2>1 DEF Hits
<1>6. Matching' = <<>>
  <2>1. Increasing({}) = <<>>
    <3>1. {} \in SUBSET Int /\ IsFiniteSet({}) /\ Cardinality({}) = 0
      BY FS_EmptySet
    <3>2. Increasing({}) \in Seq({}) /\ Len(Increasing({})) = 0
      BY <3>1, IncreasingLists
    <3> QED BY <3>2
  <2> QED BY <1>5, <2>1 DEF Matching
<1>7. WindowExact'
  <2>1. searchIdx' \in 1..Larger(1, 0) /\ scroll' \in 0..Larger(0, 0 - 1) /\ 0 <= LineCap
    BY <1>1, BufferBounds DEF Larger
  <2> QED BY <1>1, <1>2, <1>6, <2>1 DEF WindowExact
<1> QED BY <1>1, <1>3, <1>4, <1>7 DEF BufferInv

LEMMA BufferStep ==
  ASSUME BufferInv, [BufferNext]_bufferVars
  PROVE  BufferInv' /\ [Undisturbed]_bufferVars
<1>0. /\ lineBase \in Nat /\ Len(buffered) \in Nat /\ scroll \in Nat
      /\ scroll \in 0..Larger(0, Len(buffered) - 1)
      /\ follow \in BOOLEAN /\ searchFocused \in BOOLEAN /\ (follow => scroll = 0)
      /\ searchTerm \in Needles /\ searchIdx \in Nat \ {0}
  BY BufferParts
<1>1. searchIdx \in 1..Larger(1, Len(searchMatches))
  BY DEF BufferInv, WindowExact
<1>2. Body \in Nat \ {0} /\ MaxBuffered \in Nat
  BY BufferBounds
<1>3. ASSUME viewed' = TRUE PROVE Undisturbed
  BY <1>3 DEF Undisturbed
<1>4. ASSUME NEW n \in 1..MaxBatch, NEW added \in [1..n -> LineKinds], ApplyLogLines(added)
      PROVE  BufferInv' /\ Undisturbed
  BY <1>4, ApplyKeeps
<1>5. ASSUME NEW rows \in {1, MaxBuffered}, ScrollUp(rows) PROVE BufferInv' /\ viewed' = TRUE
  <2>1. /\ scroll' = Clamp(scroll + rows, Len(buffered), Body) /\ follow' = FALSE
        /\ UNCHANGED <<buffered, lineBase, search>> /\ viewed' = TRUE
    BY <1>5 DEF ScrollUp, Unsearched
  <2>2. scroll + rows \in Int
    BY <1>0, <1>2
  <2>3. scroll' \in Nat /\ scroll' \in 0..Larger(0, Len(buffered) - 1)
    BY <1>0, <1>2, <2>1, <2>2, ClampFacts
  <2>4. BufferInv'
    BY <1>0, <1>1, <2>1, <2>3, ViewKeeps DEF search
  <2> QED BY <2>1, <2>4
<1>6. ASSUME NEW rows \in {1, MaxBuffered}, ScrollDown(rows) PROVE BufferInv' /\ viewed' = TRUE
  <2>1. /\ scroll' = Larger(0, scroll - rows) /\ follow' = (follow \/ scroll' = 0)
        /\ UNCHANGED <<buffered, lineBase, search>> /\ viewed' = TRUE
    BY <1>6 DEF ScrollDown, Unsearched
  <2>2. rows \in Nat
    BY <1>2
  <2>3. scroll' \in Nat /\ scroll' <= scroll /\ (scroll = 0 => scroll' = 0)
    BY <1>0, <2>1, <2>2 DEF Larger
  <2>4. scroll' \in 0..Larger(0, Len(buffered) - 1)
    BY <1>0, <2>3 DEF Larger
  <2>5. follow' \in BOOLEAN /\ (follow' => scroll' = 0)
    BY <1>0, <2>1, <2>3
  <2>6. BufferInv'
    BY <1>0, <1>1, <2>1, <2>3, <2>4, <2>5, ViewKeeps DEF search
  <2> QED BY <2>1, <2>6
<1>7. ASSUME NEW delta \in {-1, 1}, NEW body \in {1, Body}, ScrollPane(delta, body)
      PROVE  BufferInv' /\ viewed' = TRUE
  <2>1. /\ scroll' = Clamp(scroll + delta, Len(buffered), body) /\ follow' = (scroll' = 0)
        /\ UNCHANGED <<buffered, lineBase, search>> /\ viewed' = TRUE
    BY <1>7 DEF ScrollPane, Unsearched
  <2>2. scroll + delta \in Int /\ body \in Nat \ {0}
    BY <1>0, <1>2
  <2>3. scroll' \in Nat /\ scroll' \in 0..Larger(0, Len(buffered) - 1)
    BY <1>0, <2>1, <2>2, ClampFacts
  <2>4. BufferInv'
    BY <1>0, <1>1, <2>1, <2>3, ViewKeeps DEF search
  <2> QED BY <2>1, <2>4
<1>8. ASSUME ScrollEnd PROVE BufferInv' /\ viewed' = TRUE
  <2>1. /\ scroll' = 0 /\ follow' = TRUE
        /\ UNCHANGED <<buffered, lineBase, search>> /\ viewed' = TRUE
    BY <1>8 DEF ScrollEnd, Unsearched
  <2>2. 0 \in 0..Larger(0, Len(buffered) - 1)
    BY <1>0 DEF Larger
  <2>3. BufferInv'
    BY <1>0, <1>1, <2>1, <2>2, ViewKeeps DEF search
  <2> QED BY <2>1, <2>3
<1>9. ASSUME ToggleFollow PROVE BufferInv' /\ viewed' = TRUE
  <2>1. /\ follow' = ~follow /\ scroll' = IF follow' THEN 0 ELSE scroll
        /\ UNCHANGED <<buffered, lineBase, search>> /\ viewed' = TRUE
    BY <1>9 DEF ToggleFollow, Unsearched
  <2>2. 0 \in 0..Larger(0, Len(buffered) - 1) /\ 0 \in Nat
    BY <1>0 DEF Larger
  <2>3. scroll' \in Nat /\ scroll' \in 0..Larger(0, Len(buffered) - 1) /\ (follow' => scroll' = 0)
    BY <1>0, <2>1, <2>2
  <2>4. BufferInv'
    BY <1>0, <1>1, <2>1, <2>3, ViewKeeps DEF search
  <2> QED BY <2>1, <2>4
<1>10. ASSUME FocusSearch PROVE BufferInv' /\ viewed' = TRUE
  <2>1. /\ searchFocused' = TRUE /\ follow' = FALSE /\ viewed' = TRUE
        /\ UNCHANGED <<buffered, lineBase, scroll, searchTerm, searchMatches, searchIdx, searchNeedle, searchNext>>
    BY <1>10 DEF FocusSearch
  <2>2. BufferInv'
    BY <1>0, <1>1, <2>1, ViewKeeps
  <2> QED BY <2>1, <2>2
<1>11. ASSUME NEW t \in Needles, EditTerm(t) PROVE BufferInv' /\ viewed' = TRUE
  BY <1>0, <1>11, SearchKeeps DEF EditTerm
<1>12. ASSUME ClearSearch PROVE BufferInv' /\ viewed' = TRUE
  <2>1. "" \in Needles
    BY LogBufferAssumption, Zenon
  <2>2. /\ Recompute("", buffered, lineBase) /\ searchFocused' = FALSE /\ viewed' = TRUE
        /\ UNCHANGED <<buffered, lineBase, scroll, follow>>
    BY <1>12 DEF ClearSearch
  <2>3. searchFocused' \in BOOLEAN
    BY <2>2
  <2>4. BufferInv'
    BY <2>1, <2>2, <2>3, SearchKeeps, Zenon
  <2> QED BY <2>2, <2>4
<1>13. ASSUME EnterSearch PROVE BufferInv' /\ viewed' = TRUE
  <2>1. /\ searchFocused' = FALSE /\ viewed' = TRUE
        /\ UNCHANGED <<buffered, lineBase, searchTerm, searchMatches, searchNeedle, searchNext>>
    BY <1>13 DEF EnterSearch
  <2>2. CASE searchMatches = <<>>
    <3>1. UNCHANGED <<scroll, follow, searchIdx>>
      BY <1>13, <2>2 DEF EnterSearch
    <3> QED BY <1>0, <1>1, <2>1, <3>1, ViewKeeps
  <2>3. CASE searchMatches # <<>>
    <3>1. ScrollTo(searchMatches[1]) /\ searchIdx' = 1
      BY <1>13, <2>3 DEF EnterSearch
    <3>2. searchMatches \in Seq(Int) /\ Len(searchMatches) \in Nat
      BY MatchesAreNumbers
    <3>3. Len(searchMatches) >= 1 /\ searchMatches[1] \in Int
      BY <2>3, <3>2
    <3>4. /\ scroll' \in Nat /\ scroll' \in 0..Larger(0, Len(buffered) - 1) /\ follow' = FALSE
      BY <3>1, <3>3, ScrollToFacts
    <3>5. searchIdx' \in 1..Larger(1, Len(searchMatches)) /\ searchIdx' \in Nat \ {0}
      BY <3>1, <3>2, <3>3 DEF Larger
    <3>6. BufferInv'
      BY <2>1, <3>4, <3>5, ViewKeeps
    <3> QED BY <2>1, <3>6
  <2> QED BY <2>2, <2>3
<1>14. ASSUME NEW delta \in {-1, 1}, StepMatch(delta) PROVE BufferInv' /\ viewed' = TRUE
  <2>1. /\ searchMatches # <<>> /\ searchIdx' = ((searchIdx - 1 + delta) % Len(searchMatches)) + 1
        /\ ScrollTo(searchMatches[searchIdx']) /\ viewed' = TRUE
        /\ UNCHANGED <<buffered, lineBase, searchTerm, searchFocused, searchMatches, searchNeedle, searchNext>>
    BY <1>14 DEF StepMatch
  <2>2. searchMatches \in Seq(Int) /\ Len(searchMatches) \in Nat
    BY MatchesAreNumbers
  <2>3. Len(searchMatches) >= 1
    BY <2>1, <2>2
  <2>4. searchIdx' \in 1..Len(searchMatches)
    <3> DEFINE a == searchIdx - 1 + delta
               m == Len(searchMatches)
    <3>1. a \in Int /\ m \in Nat /\ m >= 1
      BY <1>0, <2>2, <2>3
    <3>2. searchIdx' = (a % m) + 1
      BY <2>1
    <3> HIDE DEF a, m
    <3>3. a % m \in 0..(m - 1)
      BY <3>1
    <3>4. searchIdx' \in 1..m
      BY <3>1, <3>2, <3>3
    <3> QED BY <3>4 DEF m
  <2>5. searchMatches[searchIdx'] \in Int
    BY <2>2, <2>4
  <2>6. /\ scroll' \in Nat /\ scroll' \in 0..Larger(0, Len(buffered) - 1) /\ follow' = FALSE
    BY <2>1, <2>5, ScrollToFacts
  <2>7. searchIdx' \in 1..Larger(1, Len(searchMatches)) /\ searchIdx' \in Nat \ {0}
    BY <2>2, <2>4 DEF Larger
  <2>8. BufferInv'
    BY <1>0, <2>1, <2>6, <2>7, ViewKeeps
  <2> QED BY <2>1, <2>8
<1>15. ASSUME BeginBuffer \/ ResetBuffer PROVE BufferInv' /\ viewed' = TRUE
  <2>1. PICK base \in Nat, t \in Needles : Emptied(base, t)
    <3>1. "" \in Needles
      BY LogBufferAssumption
    <3>2. lineBase + Len(buffered) \in Nat
      BY <1>0
    <3> QED BY <1>0, <1>15, <3>1, <3>2 DEF BeginBuffer, ResetBuffer
  <2> QED BY <2>1, EmptiedKeeps
<1>16. CASE UNCHANGED bufferVars
  <2>1. BufferInv'
    BY <1>16 DEF bufferVars, search, BufferInv, BufferTypeOK, SearchedInv, WindowExact, Matching
  <2> QED BY <1>16, <2>1
<1>17. CASE BufferNext
  BY <1>3, <1>4, <1>5, <1>6, <1>7, <1>8, <1>9, <1>10, <1>11, <1>12, <1>13, <1>14, <1>15, <1>17
     DEF BufferNext
<1> QED BY <1>16, <1>17

\* In every state of every run of the buffer the matches are those of a full scan,
\* the cursor is among them and the view in the buffer.
THEOREM BufferInvariance == BufferSpec => []BufferInv
<1>1. BufferInit => BufferInv
  BY BufferInitially
<1>2. BufferInv /\ [BufferNext]_bufferVars => BufferInv'
  BY BufferStep
<1> QED BY <1>1, <1>2, PTL DEF BufferSpec

\* What is on the screen is what was searched for and where the reader left it,
\* for any lines, terms, capacity and viewport.
THEOREM ReadingIsSteady == BufferSpec => ViewSteady
<1>1. BufferInv => WindowExact
  BY DEF BufferInv
<1>2. BufferInv /\ [BufferNext]_bufferVars => [Undisturbed]_bufferVars
  BY BufferStep
<1> QED BY <1>1, <1>2, BufferInvariance, PTL DEF BufferSpec, ViewSteady
=============================================================================
