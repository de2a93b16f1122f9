----------------------------- MODULE LogStream -----------------------------
(***************************************************************************)
(* internal/cluster/logstream.go runStream and cmd/kubetin/main.go         *)
(* forwardLogs: following one container's log across reconnects, and       *)
(* batching the lines into the UI.                                         *)
(*                                                                         *)
(* The container's log and the kubelet that serves it are outside the      *)
(* program: lines are stamped with the time they are written at, a stream  *)
(* may break at any moment, and a reopened one starts at or before the     *)
(* time asked for.  A line is its position in `log`.  Every line carries a *)
(* time stamp (Timestamps: true).                                          *)
(***************************************************************************)
EXTENDS Naturals, Sequences, SequencesExt, FiniteSets

CONSTANTS Texts,         \* what a line may say
          MaxLines,      \* bound on the lines written
          MaxTime,       \* bound on the clock
          MaxFailures,   \* maxConsecutiveStreamFailures
          Cap,           \* capacity of Out
          BatchMax,      \* logBatchMax
          TailSplitsTie  \* the tail may begin between two lines of one time stamp

ASSUME BoundAssumption == MaxLines \in Nat /\ MaxTime \in Nat \ {0}
ASSUME LimitAssumption == /\ MaxFailures \in Nat /\ Cap \in Nat \ {0}
                          /\ BatchMax \in Nat \ {0} /\ TailSplitsTie \in BOOLEAN

VARIABLES
  log, now, terminated, \* the container: its lines, the clock, it has ended for good
  cancelled,            \* parent is done
  spc,                  \* where runStream is
  stream,               \* the open stream, or NoStream
  finishing, cursor, consec, gotLine, clean, \* runStream's locals; clean is scanErr = nil
  saying,               \* the control record runStream is sending
  out,                  \* the channel Out
  batch,                \* forwardLogs' batch
  fpc,                  \* forwardLogs: "recv" or "done"
  shown, reconnecting, err, finished, \* the UI's m.logs
  accepted, dropped,    \* history: lines past the cursor, those that found Out full
  retries,              \* history: streams reopened since the last new line
  endedBy                \* history: why runStream returned

container == <<log, now, terminated>>
locals == <<finishing, cursor, consec, gotLine, clean, saying>>
streamer == <<spc, stream, locals, retries, endedBy>>
lines == <<out, accepted, dropped>>
ui == <<shown, reconnecting, err, finished>>
forwarder == <<batch, fpc>>
streamVars == <<container, cancelled, streamer, lines, forwarder, ui>>

Line == [at : 1..MaxTime, text : Texts]
Controls == {"reconnecting", "err", "eos"}
LogLine == [kind : Controls \cup {"line"}, pos : 0..MaxLines]
LineAt(i) == [kind |-> "line", pos |-> i]
Control(kind) == [kind |-> kind, pos |-> 0]
NoStream == [pos |-> 0, whole |-> FALSE, first |-> FALSE, open |-> FALSE]
NoCounts == [t \in Texts |-> 0]

StreamInit ==
  /\ log = <<>> /\ now = 1 /\ terminated = FALSE /\ cancelled = FALSE
  /\ spc = "start" /\ stream = NoStream
  /\ finishing = FALSE /\ consec = 0 /\ gotLine = FALSE /\ clean = FALSE
  /\ cursor = [at |-> 0, seen |-> NoCounts, overlap |-> NoCounts]
  /\ saying = "eos"
  /\ out = <<>> /\ accepted = <<>> /\ dropped = {}
  /\ batch = <<>> /\ fpc = "recv"
  /\ shown = <<>> /\ reconnecting = FALSE /\ err = FALSE /\ finished = FALSE
  /\ retries = 0 /\ endedBy = "none"

-----------------------------------------------------------------------------
(* The container and the user.                                             *)

Write(text) ==
  /\ ~terminated /\ Len(log) < MaxLines
  /\ log' = Append(log, [at |-> now, text |-> text])
  /\ UNCHANGED <<now, terminated, cancelled, streamer, lines, forwarder, ui>>

Tick ==
  /\ now < MaxTime
  /\ now' = now + 1
  /\ UNCHANGED <<log, terminated, cancelled, streamer, lines, forwarder, ui>>

Terminate ==
  /\ ~terminated
  /\ terminated' = TRUE
  /\ UNCHANGED <<log, now, cancelled, streamer, lines, forwarder, ui>>

\* The viewer is closed, the focus changes or the program ends.
Cancel ==
  /\ ~cancelled
  /\ cancelled' = TRUE
  /\ UNCHANGED <<container, streamer, lines, forwarder, ui>>

-----------------------------------------------------------------------------
(* logCursor.                                                              *)

\* A wrong BeginStream: nothing is expected to be replayed.
BeginStreamUncounted(c) == [c EXCEPT !.overlap = NoCounts]

BeginStream(c) == [c EXCEPT !.overlap = c.seen]

\* The cursor moves to a newer time stamp, where nothing was seen yet.
Moved(c, l) ==
  IF c.at = 0 \/ l.at > c.at THEN [at |-> l.at, seen |-> NoCounts, overlap |-> NoCounts] ELSE c

Replayed(c, l) == l.at < c.at \/ Moved(c, l).overlap[l.text] > 0

\* The cursor after a line was accepted, or recognised as replayed.
Accept(c, l) ==
  IF l.at < c.at THEN c
  ELSE IF Replayed(c, l) THEN [Moved(c, l) EXCEPT !.overlap[l.text] = @ - 1]
  ELSE [Moved(c, l) EXCEPT !.seen[l.text] = @ + 1]

-----------------------------------------------------------------------------
(* runStream.                                                              *)

\* A stream that serves the log from behind its first pos lines.
Opened(pos, first) ==
  stream' = [pos |-> pos, whole |-> terminated, first |-> first, open |-> TRUE]

\* Line pos + 1 and the one before it carry one time stamp.
SplitsTie(pos) == pos \in 1..(Len(log) - 1) /\ log[pos].at = log[pos + 1].at

\* StreamLogs: the first stream begins with the tail.
Start(pos) ==
  /\ spc = "start"
  /\ pos = 0 \/ pos < Len(log)
  /\ SplitsTie(pos) => TailSplitsTie
  /\ Opened(pos, TRUE)
  /\ spc' = "scan"
  /\ UNCHANGED <<container, cancelled, locals, retries, endedBy, lines, forwarder, ui>>

\* send: a line that finds Out full is dropped and counted.
Send(i) ==
  IF Len(out) < Cap
  THEN out' = Append(out, LineAt(i)) /\ UNCHANGED dropped
  ELSE dropped' = dropped \cup {i} /\ UNCHANGED out

\* sc.Scan returns a line.
Scan ==
  /\ spc = "scan" /\ stream.open /\ ~cancelled
  /\ stream.pos < Len(log)
  /\ LET i == stream.pos + 1 IN
     /\ stream' = [stream EXCEPT !.pos = i]
     /\ cursor' = Accept(cursor, log[i])
     /\ IF Replayed(cursor, log[i])
        THEN UNCHANGED <<lines, gotLine, retries>>
        ELSE /\ accepted' = Append(accepted, i)
             /\ gotLine' = TRUE /\ retries' = 0
             /\ Send(i)
  /\ UNCHANGED <<container, cancelled, spc, finishing, consec, clean, saying, endedBy,
                 forwarder, ui>>

ScanEnds(isClean) ==
  /\ spc = "scan" /\ stream.open
  /\ spc' = "scanned"
  /\ clean' = isClean
  /\ UNCHANGED <<container, cancelled, stream, finishing, cursor, consec, gotLine, saying,
                 retries, endedBy, lines, forwarder, ui>>

\* The connection breaks, or the server ends it; a stream that serves the log
\* of a terminated container ends cleanly only at its end.
Break(isClean) == (isClean => ~stream.whole) /\ ScanEnds(isClean)

\* The log of a terminated container has been read to its end.
LogEnds == terminated /\ stream.pos = Len(log) /\ ScanEnds(TRUE)

\* A wrong Watched: the watchdog is set up once.
WatchedOnce == cancelled /\ stream.first

\* The watchdog closes each stream when parent is cancelled.
Watched == cancelled

Interrupt == Watched /\ ScanEnds(FALSE)

\* There is no stream to read: the last attempt to open one failed.
Skip ==
  /\ spc = "scan" /\ ~stream.open
  /\ spc' = "scanned"
  /\ clean' = FALSE
  /\ UNCHANGED <<container, cancelled, stream, finishing, cursor, consec, gotLine, saying,
                 retries, endedBy, lines, forwarder, ui>>

\* The deferred EOS.
ReturnBecause(why) == spc' = "say" /\ saying' = "eos" /\ endedBy' = why

ReturnCancelled ==
  /\ spc \in {"scanned", "backoff"} /\ cancelled
  /\ ReturnBecause("cancelled")
  /\ UNCHANGED <<container, cancelled, stream, finishing, cursor, consec, gotLine, clean,
                 retries, lines, forwarder, ui>>

\* A wrong Drained: the status alone ends the stream.
DrainedAtOnce == terminated

Drained == finishing

ReturnComplete ==
  /\ spc = "scanned" /\ ~cancelled
  /\ clean /\ Drained
  /\ ReturnBecause("complete")
  /\ UNCHANGED <<container, cancelled, stream, finishing, cursor, consec, gotLine, clean,
                 retries, lines, forwarder, ui>>

\* logsComplete: the status may also be unreadable.
LogsComplete(complete) ==
  /\ spc = "scanned" /\ ~cancelled
  /\ clean /\ ~Drained
  /\ complete => terminated
  /\ finishing' = complete
  /\ consec' = IF complete THEN 0 ELSE consec
  /\ retries' = IF complete THEN 0 ELSE retries
  /\ spc' = "count"
  /\ UNCHANGED <<container, cancelled, stream, cursor, gotLine, clean, saying, endedBy, lines,
                 forwarder, ui>>

\* An attempt that read a new line makes up for the earlier failures.
Failures == IF gotLine THEN 1 ELSE consec + 1

\* Give up, or announce the next attempt.
Count ==
  /\ spc = "count" \/ (spc = "scanned" /\ ~cancelled /\ ~clean)
  /\ consec' = Failures
  /\ spc' = "say"
  /\ IF Failures > MaxFailures
     THEN saying' = "err" /\ endedBy' = "failed"
     ELSE saying' = "reconnecting" /\ UNCHANGED endedBy
  /\ UNCHANGED <<container, cancelled, stream, finishing, cursor, gotLine, clean, retries, lines,
                 forwarder, ui>>

SendBlocking(kind) ==
  \/ Len(out) < Cap /\ out' = Append(out, Control(kind))
  \/ cancelled /\ UNCHANGED out

\* sendBlocking returns: back off after an announcement, send the EOS after an
\* error, close Out after the EOS.
Say ==
  /\ spc = "say"
  /\ SendBlocking(saying)
  /\ CASE saying = "reconnecting" -> spc' = "backoff" /\ UNCHANGED saying
       [] saying = "err" -> saying' = "eos" /\ UNCHANGED spc
       [] saying = "eos" -> spc' = "done" /\ UNCHANGED saying
  /\ UNCHANGED <<container, cancelled, stream, finishing, cursor, consec, gotLine, clean, retries,
                 endedBy, accepted, dropped, forwarder, ui>>

Backoff ==
  /\ spc = "backoff"
  /\ spc' = "open"
  /\ UNCHANGED <<container, cancelled, stream, locals, retries, endedBy, lines, forwarder, ui>>

\* The top of the loop.
Loop ==
  /\ spc' = "scan" /\ gotLine' = FALSE
  /\ cursor' = BeginStream(cursor)
  /\ retries' = retries + 1

\* The stream reopens at the cursor or some time before it; without a cursor
\* at a time that has passed.
Reopen(since) ==
  /\ spc = "open"
  /\ since <= (IF cursor.at = 0 THEN now ELSE cursor.at)
  /\ Opened(Cardinality({i \in DOMAIN log : log[i].at < since}), FALSE)
  /\ Loop
  /\ UNCHANGED <<container, cancelled, finishing, consec, clean, saying, endedBy, lines,
                 forwarder, ui>>

ReopenFails ==
  /\ spc = "open"
  /\ stream' = NoStream
  /\ Loop
  /\ UNCHANGED <<container, cancelled, finishing, consec, clean, saying, endedBy, lines,
                 forwarder, ui>>

\* isFatalStreamErr
ReopenFatal ==
  /\ spc = "open"
  /\ spc' = "say" /\ saying' = "err" /\ endedBy' = "fatal"
  /\ UNCHANGED <<container, cancelled, stream, finishing, cursor, consec, gotLine, clean, retries,
                 lines, forwarder, ui>>

-----------------------------------------------------------------------------
(* forwardLogs and the UI's handling of what it sends.                     *)

FlushBatch == shown' = shown \o batch /\ batch' = <<>>

\* disarmTimer and flush ahead of a control record.
FlushFirst == FlushBatch

ReceiveLine ==
  /\ fpc = "recv" /\ out # <<>> /\ Head(out).kind = "line"
  /\ out' = Tail(out)
  /\ IF Len(batch) + 1 < BatchMax
     THEN batch' = Append(batch, Head(out).pos) /\ UNCHANGED <<shown, reconnecting>>
     ELSE /\ shown' = shown \o Append(batch, Head(out).pos) /\ batch' = <<>>
          /\ reconnecting' = FALSE
  /\ UNCHANGED <<container, cancelled, streamer, accepted, dropped, fpc, err, finished>>

ReceiveControl ==
  /\ fpc = "recv" /\ out # <<>> /\ Head(out).kind # "line"
  /\ out' = Tail(out)
  /\ FlushFirst
  /\ CASE Head(out).kind = "reconnecting" ->
            reconnecting' = TRUE /\ err' = FALSE /\ UNCHANGED finished
       [] Head(out).kind = "err" ->
            err' = TRUE /\ reconnecting' = FALSE /\ UNCHANGED finished
       [] Head(out).kind = "eos" ->
            finished' = TRUE /\ reconnecting' = FALSE /\ UNCHANGED err
  /\ UNCHANGED <<container, cancelled, streamer, accepted, dropped, fpc>>

\* case <-timer.C
FlushTimer ==
  /\ fpc = "recv" /\ batch # <<>>
  /\ FlushBatch
  /\ reconnecting' = FALSE
  /\ UNCHANGED <<container, cancelled, streamer, lines, fpc, err, finished>>

\* Out is closed and drained.
OutClosed ==
  /\ fpc = "recv" /\ spc = "done" /\ out = <<>>
  /\ fpc' = "done"
  /\ FlushBatch
  /\ reconnecting' = IF batch = <<>> THEN reconnecting ELSE FALSE
  /\ UNCHANGED <<container, cancelled, streamer, lines, err, finished>>

-----------------------------------------------------------------------------
Run ==
  \/ Scan \/ LogEnds \/ Interrupt \/ Skip
  \/ ReturnCancelled \/ ReturnComplete
  \/ \E complete \in BOOLEAN : LogsComplete(complete)
  \/ Count \/ Say \/ Backoff
  \/ \E since \in 1..MaxTime : Reopen(since)
  \/ ReopenFails \/ ReopenFatal

ForwardLogs == ReceiveLine \/ ReceiveControl \/ FlushTimer \/ OutClosed

StreamNext ==
  \/ \E text \in Texts : Write(text)
  \/ Tick \/ Terminate \/ Cancel
  \/ \E pos \in 0..MaxLines : Start(pos)
  \/ \E isClean \in BOOLEAN : Break(isClean)
  \/ Run
  \/ ForwardLogs

StreamSpec == StreamInit /\ [][StreamNext]_streamVars

\* Both goroutines are scheduled; nobody promises that a connection breaks.
FairStreamSpec == StreamSpec /\ WF_streamVars(Run) /\ WF_streamVars(ForwardLogs)

-----------------------------------------------------------------------------
\* "Discard overlap ... without hiding additional, identical lines": however
\* streams break and overlap, the lines taken are those of the log from where
\* the tail began, each once and in order (TailedLog).
Promise == INSTANCE TailedLog WITH Lines <- Line, log <- log, taken <- accepted
FollowsLog == Promise!Spec

\* "Resume from the last seen log timestamp without replaying history": no
\* line from before the tail is taken after a reconnect.
NoHistoryReplayed == \A i \in DOMAIN accepted : accepted[i] >= accepted[1]

\* How often a line, that is a time stamp and a text, is in a piece of the log,
\* and how often it was taken.
Copies(l, first, last) == Cardinality({n \in first..last : log[n] = l})
TimesTaken(l) == Cardinality({j \in DOMAIN accepted : log[accepted[j]] = l})

StampsKept == \A i, j \in DOMAIN accepted : i <= j => log[accepted[i]].at <= log[accepted[j]].at

\* "Discard overlap ... without hiding additional, identical lines", wherever
\* the tail began: over any number of reconnects the lines taken do not go back
\* in time, none is taken more often than it was written, and all that was read
\* from the first one on has been taken.
TakenAsWritten ==
  /\ StampsKept
  /\ accepted # <<>> => \A l \in Range(log) :
       /\ TimesTaken(l) <= Copies(l, 1, Len(log))
       /\ Copies(l, accepted[1], stream.pos) <= TimesTaken(l)

\* "Writes between this EOF and the status response are drained as well": a
\* stream that ends because the container has ended has taken its last line.
\* "After this many failures with no new timestamped line read in between, the
\* streamer gives up": not one attempt earlier or later.
EndsComplete ==
  /\ endedBy = "complete" => accepted = <<>> \/ accepted[Len(accepted)] = Len(log)
  /\ endedBy = "failed" => retries = MaxFailures

Rising(s) == \A i, j \in DOMAIN s : i < j => s[i] < s[j]

\* "The user never loses tail context to a buffered shutdown": when the UI
\* says the stream has ended, it shows every line that was not dropped, in
\* order, and an error exactly if there was one.
EndShown ==
  finished => /\ Range(shown) = Range(accepted) \ dropped /\ Rising(shown)
              /\ ~reconnecting
              /\ ~cancelled => (err <=> endedBy \in {"failed", "fatal"})

\* The end that is told is the one the log had, and comes after its lines.
EndTruthful == EndsComplete /\ EndShown

\* The end of the container's log reaches the UI, "even on a full Out buffer".
EndReachesUI == (terminated /\ spc # "start") ~> (finished \/ cancelled)

\* Closing the viewer ends both goroutines, whatever stream is open.
CancelReturns == (cancelled /\ spc # "start") ~> (spc = "done" /\ fpc = "done")

\* Whichever way a log ends, the viewer is told and the goroutines end.
StreamEnds == EndReachesUI /\ CancelReturns

-----------------------------------------------------------------------------
(* What makes FollowsLog inductive.                                        *)

StreamTypeOK ==
  /\ log \in Seq(Line) /\ Len(log) <= MaxLines /\ now \in 1..MaxTime /\ terminated \in BOOLEAN
  /\ spc \in {"start", "scan", "scanned", "count", "say", "backoff", "open", "done"}
  /\ saying \in Controls
  /\ stream \in [pos : 0..Len(log), whole : BOOLEAN, first : BOOLEAN, open : BOOLEAN]
  /\ cursor \in [at : 0..MaxTime, seen : [Texts -> Nat], overlap : [Texts -> Nat]]
  /\ accepted \in Seq(DOMAIN log)

\* Time stamps do not go back.
StampsRise ==
  /\ \A i, j \in DOMAIN log : i <= j => log[i].at <= log[j].at
  /\ \A i \in DOMAIN log : log[i].at <= now

LastTaken == accepted[Len(accepted)]

\* The lines behind the first p and taken that carry the cursor's time and say t.
SameTime(p, t) ==
  {j \in (p + 1)..LastTaken : log[j].at = cursor.at /\ log[j].text = t}

\* No line before the tail carries the time of its first line.
TailWhole(first) == first = 1 \/ log[first - 1].at < log[first].at

\* The cursor has counted the lines of its time, and what the open stream will
\* replay of them; what was taken is one piece of the log.
CursorInv ==
  /\ spc = "start" => accepted = <<>>
  /\ accepted = <<>> =>
       /\ cursor = [at |-> 0, seen |-> NoCounts, overlap |-> NoCounts]
       /\ stream.pos \in 1..(Len(log) - 1) => TailWhole(stream.pos + 1)
       /\ stream.pos # 0 /\ stream.pos = Len(log) => log[stream.pos].at < now
  /\ accepted # <<>> =>
       /\ \A j \in DOMAIN accepted : accepted[j] = accepted[1] + j - 1
       /\ TailWhole(accepted[1]) /\ cursor.at = log[LastTaken].at
       /\ stream.pos <= LastTaken
       /\ \A t \in Texts : /\ cursor.seen[t] = Cardinality(SameTime(0, t))
                           /\ cursor.overlap[t] = Cardinality(SameTime(stream.pos, t))

FollowInv == StreamTypeOK /\ StampsRise /\ CursorInv

-----------------------------------------------------------------------------
(* What makes TakenAsWritten inductive.                                    *)

\* The lines of the cursor's time are counted, those that came before it
\* complete; what the open stream has yet to replay is at most what was read of
\* them before.
CountedInv(l) ==
  /\ TimesTaken(l) <= Copies(l, 1, Len(log))
  /\ l.at < cursor.at => Copies(l, accepted[1], Len(log)) <= TimesTaken(l)
  /\ l.at = cursor.at =>
       /\ TimesTaken(l) = cursor.seen[l.text]
       /\ Copies(l, accepted[1], stream.pos) + cursor.overlap[l.text] <= cursor.seen[l.text]
       /\ cursor.seen[l.text] <= cursor.overlap[l.text] + Copies(l, 1, stream.pos)

TakenInv ==
  /\ spc = "start" => accepted = <<>>
  /\ accepted = <<>> => cursor = [at |-> 0, seen |-> NoCounts, overlap |-> NoCounts]
  /\ accepted # <<>> =>
       /\ StampsKept /\ cursor.at = log[LastTaken].at
       /\ stream.pos # 0 => log[stream.pos].at <= cursor.at
       /\ \A l \in Line : CountedInv(l)

AnyTailInv == StreamTypeOK /\ StampsRise /\ TakenInv

-----------------------------------------------------------------------------
(* What makes EndTruthful inductive.                                       *)

Endings == {"complete", "cancelled", "failed", "fatal"}

EndTypeOK ==
  /\ cancelled \in BOOLEAN /\ finishing \in BOOLEAN
  /\ consec \in Nat /\ retries \in Nat /\ gotLine \in BOOLEAN /\ clean \in BOOLEAN
  /\ endedBy \in Endings \cup {"none"}
  /\ out \in Seq(LogLine) /\ batch \in Seq(Nat) /\ shown \in Seq(Nat)
  /\ reconnecting \in BOOLEAN /\ err \in BOOLEAN /\ finished \in BOOLEAN

\* A clean end that counts as complete is the end of the log.
DrainInv ==
  /\ finishing => terminated
  /\ finishing /\ spc = "scan" /\ stream.open => stream.whole
  /\ stream.open /\ stream.whole => terminated
  /\ spc = "scanned" /\ clean /\ finishing => stream.pos = Len(log)
  /\ endedBy = "complete" =>
       terminated /\ (accepted = <<>> \/ LastTaken = Len(log))

\* The streams reopened since the last new line are the failures counted, but
\* for the attempt in progress.
RetryInv ==
  /\ retries <= MaxFailures
  /\ spc \in {"start", "scan", "scanned", "count"} => retries = (IF gotLine THEN 0 ELSE consec)
  /\ (spc = "say" /\ saying = "reconnecting") \/ spc \in {"backoff", "open"} =>
       consec = retries + 1 /\ consec <= MaxFailures
  /\ endedBy = "failed" => retries = MaxFailures

LinesOf(o) == {o[i].pos : i \in {j \in DOMAIN o : o[j].kind = "line"}}

\* What was taken and not dropped is shown, in the batch or in Out, in order.
PipelineInv ==
  /\ Range(shown) \cup Range(batch) \cup LinesOf(out) = Range(accepted) \ dropped
  /\ dropped \subseteq Range(accepted)
  /\ Rising(shown) /\ Rising(batch)
  /\ \A i \in Range(shown), j \in Range(batch) \cup LinesOf(out) : i < j
  /\ \A i \in Range(batch), j \in LinesOf(out) : i < j
  /\ \A i, j \in DOMAIN out :
       i < j /\ out[i].kind = "line" /\ out[j].kind = "line" => out[i].pos < out[j].pos

ErrInOut == \E i \in DOMAIN out : out[i].kind = "err"

\* An error, then the end, are the last that is said.
SaidInv ==
  /\ endedBy # "none" => spc \in {"say", "done"} /\ saying \in {"err", "eos"}
  /\ spc = "say" /\ saying = "err" => endedBy \in {"failed", "fatal"}
  /\ spc = "done" => saying = "eos"
  /\ err \/ ErrInOut => endedBy \in {"failed", "fatal"} /\ saying = "eos"
  /\ ~cancelled /\ endedBy \in {"failed", "fatal"} /\ saying = "eos" => err \/ ErrInOut
  /\ \A i, j \in DOMAIN out : i < j => /\ out[i].kind = "err" => out[j].kind = "eos"
                                       /\ out[i].kind # "eos"
  /\ \A i \in DOMAIN out : out[i].kind = "eos" => spc = "done"
  /\ err => \A i \in DOMAIN out : out[i].kind = "eos"
  /\ finished => spc = "done" /\ out = <<>> /\ batch = <<>> /\ ~reconnecting

EndInv == EndTypeOK /\ DrainInv /\ RetryInv /\ PipelineInv /\ SaidInv
=============================================================================
