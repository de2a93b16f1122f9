----------------------------- MODULE LogSession -----------------------------
(***************************************************************************)
(* internal/ui/logs.go and dashboard.go: which pod the log view and the    *)
(* dashboard's log pane show, and the streams opened for them one after    *)
(* another.                                                                *)
(*                                                                         *)
(* Each request has a session number.  Its command (a goroutine of its own)*)
(* opens the stream and leaves a forwarder (LogStream), whose messages     *)
(* carry the number: they reach Update also after the view was closed or   *)
(* given another pod.  The content of the buffer is LogBuffer; here only   *)
(* which sessions its lines are from is kept.                              *)
(***************************************************************************)
EXTENDS Naturals, Sequences, FiniteSets

CONSTANTS Pods,        \* 1..n in order of creation, the replicas of one deployment
          Containers,  \* how many containers each pod has
          MaxRequests, \* bound on the requests the user makes
          MaxLogEvents \* bound on pod events and focus changes

ASSUME LogSessionAssumption ==
  /\ IsFiniteSet(Pods) /\ Pods = 1..Cardinality(Pods)
  /\ Containers \in [Pods -> Nat \ {0}]
  /\ MaxRequests \in Nat /\ MaxLogEvents \in Nat

\* Bound on the sessions with a stream: a request of the user can stop one session
\* and be retried twice, so it is not met.
LogSessions == 1..(3 * MaxRequests + 2 * MaxLogEvents)
Deploy == 0 \* the deployment as a dashboard target, and "no pod" as a log target

VARIABLES
  logs,       \* logsState
  dash,       \* dashboardState
  pods,       \* m.pods: a pod's phase and whether its containers have started there
  logsDenied, \* the permission cache forbids reading pod logs
  asked,      \* each session's LogStartMsg
  link,       \* each session's command and forwarder; "ending" after an error
  note,       \* each session's message on its way
  ended,      \* sessions whose context was cancelled
  linesOf,    \* the sessions whose lines are in the buffer
  strayed,    \* history: the picker was left and its pod is still named
  logBudget   \* what is left of the bounds

logVars == <<logs, dash, pods, logsDenied, asked, link, note, ended, linesOf, strayed, logBudget>>

NoLogs == [session |-> 0, open |-> FALSE, picker |-> FALSE, offered |-> Deploy,
           streaming |-> FALSE, ref |-> Deploy, container |-> 0, full |-> FALSE, err |-> FALSE,
           retry |-> FALSE, finished |-> FALSE, reconnecting |-> FALSE]
NoDash == [stack |-> <<>>, logRef |-> Deploy, n |-> 0, container |-> 0]
NoRequest == [ref |-> Deploy, container |-> 0, waiting |-> FALSE]

\* Of the pods that are there: those of phase Running, which is not to say that
\* each container runs, and those whose containers have started, which an ended
\* pod's have too.
Live == {"waiting", "running", "started", "ended"}
PhaseRunning == {"running", "started"}
HaveStarted == {"started", "ended"}

LogInit ==
  /\ logs = NoLogs /\ dash = NoDash
  /\ pods \in [Pods -> {"unseen"} \cup Live]
  /\ logsDenied = FALSE
  /\ asked = [s \in LogSessions |-> NoRequest]
  /\ link = [s \in LogSessions |-> "none"] /\ note = [s \in LogSessions |-> "none"]
  /\ ended = {} /\ linesOf = {} /\ strayed = FALSE
  /\ logBudget = [requests |-> MaxRequests, events |-> MaxLogEvents]

-----------------------------------------------------------------------------
(* Starting and stopping streams.                                          *)

DashOpen(d) == d.stack # <<>>
Known(p, ps) == p # Deploy /\ ps[p] \in Live

\* containersFor, as a number
ContainersFor(p, ps) == IF Known(p, ps) THEN Containers[p] ELSE 0

\* logContainerStarted; a container not chosen (0) matches none.
Started(p, c, ps) == c \in 1..ContainersFor(p, ps) /\ ps[p] \in HaveStarted

\* newestRunningPod
Newest(ps) ==
  LET present == {p \in Pods : Known(p, ps)}
      running == {p \in Pods : ps[p] \in PhaseRunning}
      from == IF running # {} THEN running ELSE present
  IN  IF from = {} THEN Deploy ELSE CHOOSE p \in from : \A q \in from : q <= p

\* prepareLogTarget for the target on top of d's stack.
Prepared(d, ps) ==
  LET top == d.stack[Len(d.stack)]
      p == IF top = Deploy THEN Newest(ps) ELSE top
      n == ContainersFor(p, ps)
  IN  [d EXCEPT !.logRef = p, !.n = n, !.container = IF n = 0 THEN 0 ELSE 1]

\* syncDashboardLogTarget
Synced(d, p, c, ps) ==
  IF ~DashOpen(d) THEN d
  ELSE LET n == ContainersFor(p, ps)
       IN  [d EXCEPT !.logRef = p, !.n = n,
                     !.container = IF c \in 1..n THEN c ELSE IF n = 0 THEN 0 ELSE 1]

\* beginLogStreamTail, from dashboard state d and with pods ps.
Begin(l, d, p, c, all, ps) ==
  LET s == l.session + 1
  IN  /\ s \in LogSessions
      /\ logs' = [NoLogs EXCEPT !.session = s, !.open = l.open, !.picker = l.picker,
                                !.offered = l.offered, !.streaming = TRUE, !.ref = p,
                                !.container = c, !.full = all]
      /\ dash' = Synced(d, p, c, ps)
      /\ asked' = [asked EXCEPT ![s] = [ref |-> p, container |-> c,
                                        waiting |-> ~Started(p, c, ps)]]
      /\ link' = [link EXCEPT ![s] = "queued"]
      /\ ended' = ended \cup {logs.session}
      /\ linesOf' = {} /\ strayed' = FALSE

\* A wrong stopDashboardLogs: the session's late messages are still accepted.
StoppedSameSession(l) == [l EXCEPT !.streaming = FALSE, !.retry = FALSE]

\* stopDashboardLogs
Stopped(l) == [l EXCEPT !.session = @ + 1, !.streaming = FALSE, !.retry = FALSE]

\* resetDashboardLogs
ResetLogs(l, d) ==
  /\ logs' = [NoLogs EXCEPT !.session = Stopped(l).session, !.err = TRUE]
  /\ dash' = d
  /\ ended' = ended \cup {logs.session}
  /\ linesOf' = {} /\ strayed' = FALSE
  /\ UNCHANGED <<asked, link>>

\* startDashboardLogsTail
StartDash(l, d, all, ps) ==
  IF d.logRef = Deploy \/ logsDenied
  THEN ResetLogs(l, d)
  ELSE Begin(l, d, d.logRef, d.container, all, ps)

\* The condition of recoverDashboardLogs.
RecoverDue(l, d, ps) ==
  /\ DashOpen(d)
  /\ \/ d.logRef # Deploy /\ l.retry /\ Started(l.ref, l.container, ps)
     \/ d.logRef = Deploy /\ d.stack[Len(d.stack)] = Deploy /\ Newest(ps) # Deploy

\* recoverDashboardLogs
RecoverDashboardLogs(l, ps) ==
  IF RecoverDue(l, dash, ps)
  THEN IF dash.logRef # Deploy THEN StartDash(l, dash, l.full, ps)
       ELSE StartDash(l, Prepared(dash, ps), FALSE, ps)
  ELSE logs' = l /\ UNCHANGED <<dash, asked, link, ended, linesOf, strayed>>

-----------------------------------------------------------------------------
(* The user.  The viewer, while it is open, takes every key.               *)

Request ==
  /\ logBudget.requests > 0
  /\ logBudget' = [logBudget EXCEPT !.requests = @ - 1]
  /\ UNCHANGED <<pods, logsDenied, note>>

\* openDashboard for a row of a table, or drillIntoSelectedPod from a deployment's.
OpenDashboard(t) ==
  /\ Request /\ ~logs.open
  /\ t = Deploy \/ Known(t, pods)
  /\ dash.stack = <<>> \/ (dash.stack = <<Deploy>> /\ t # Deploy)
  /\ LET d == Prepared([dash EXCEPT !.stack = Append(@, t)], pods)
     IN  StartDash(logs, d, FALSE, pods)

\* popDashboard, closeDashboard
PopDashboard ==
  /\ Request /\ ~logs.open /\ DashOpen(dash)
  /\ IF Len(dash.stack) > 1
     THEN LET d == Prepared([dash EXCEPT !.stack = SubSeq(@, 1, Len(@) - 1)], pods)
          IN  StartDash(logs, d, FALSE, pods)
     ELSE /\ dash' = NoDash /\ logs' = Stopped(logs) /\ ended' = ended \cup {logs.session}
          /\ UNCHANGED <<asked, link, linesOf, strayed>>

CycleDashboardContainer ==
  /\ Request /\ ~logs.open /\ DashOpen(dash) /\ dash.n >= 2
  /\ StartDash(logs, [dash EXCEPT !.container = (@ % dash.n) + 1], FALSE, pods)

\* `l` in the dashboard: the same buffer on the whole screen.
OpenViewer ==
  /\ ~logs.open /\ DashOpen(dash) /\ logs.streaming
  /\ logs' = [logs EXCEPT !.open = TRUE]
  /\ UNCHANGED <<dash, pods, logsDenied, asked, link, note, ended, linesOf, strayed, logBudget>>

\* openLogsForCursorKey and the action menu's Logs, for a row of a table or a
\* replica of the dashboard, which may be gone since the menu was opened; with
\* several containers a picker comes first, which offers those there are now.
OpenLogs(p) ==
  /\ Request /\ ~logs.open /\ ~logsDenied /\ pods[p] # "unseen"
  /\ DashOpen(dash) => dash.stack[Len(dash.stack)] \in {Deploy, p}
  /\ LET viewer == [logs EXCEPT !.open = TRUE]
         n == ContainersFor(p, pods)
     IN  IF n <= 1
         THEN Begin(viewer, dash, p, n, FALSE, pods)
         ELSE /\ logs' = [viewer EXCEPT !.picker = TRUE, !.offered = p, !.ref = p]
              /\ strayed' = (strayed \/ (logs.streaming /\ p # logs.ref))
              /\ UNCHANGED <<dash, asked, link, ended, linesOf>>

\* handleContainerPickerKey: enter.  A recovery of the dashboard may have named
\* another pod meanwhile; the containers are still those that were offered.
PickContainer(c) ==
  /\ Request /\ logs.open /\ logs.picker /\ c \in 1..Containers[logs.offered]
  /\ Begin([logs EXCEPT !.picker = FALSE, !.offered = Deploy], dash, logs.ref, c, FALSE, pods)

\* closeLogs, from the picker too: over a dashboard the stream goes on.
CloseLogs ==
  /\ logs.open
  /\ LET closed == [logs EXCEPT !.open = FALSE, !.picker = FALSE, !.offered = Deploy]
     IN  IF DashOpen(dash) THEN logs' = closed /\ UNCHANGED ended
         ELSE logs' = Stopped(closed) /\ ended' = ended \cup {logs.session}
  /\ UNCHANGED <<dash, pods, logsDenied, asked, link, note, linesOf, strayed, logBudget>>

\* L: the same pod and container with the whole log.
LoadAll ==
  /\ Request /\ logs.open /\ ~logs.picker /\ ~logs.full
  /\ Begin(logs, dash, logs.ref, logs.container, TRUE, pods)

-----------------------------------------------------------------------------
(* The cluster.                                                            *)

LogEvent ==
  /\ logBudget.events > 0
  /\ logBudget' = [logBudget EXCEPT !.events = @ - 1]
  /\ UNCHANGED note

\* What a pod can become: one that is gone does not come back, and one that
\* runs may have to start its containers again.
Becomes(st) ==
  CASE st = "unseen" -> Live
    [] st = "waiting" -> PhaseRunning \cup {"ended", "gone"}
    [] st = "running" -> {"started", "ended", "gone"}
    [] st = "started" -> {"running", "ended", "gone"}
    [] st = "ended" -> {"gone"}
    [] OTHER -> {}

\* updatePod, then recoverDashboardLogs.
PodChanges(p, st) ==
  /\ LogEvent /\ st \in Becomes(pods[p])
  /\ pods' = [pods EXCEPT ![p] = st]
  /\ RecoverDashboardLogs(logs, pods')
  /\ UNCHANGED logsDenied

\* PermissionResultMsg
LearnDenied ==
  /\ LogEvent /\ ~logsDenied /\ logsDenied' = TRUE
  /\ UNCHANGED <<logs, dash, pods, asked, link, ended, linesOf, strayed>>

\* clearFocusedState: another cluster, whose pods are not known yet.
LeaveCluster ==
  /\ LogEvent /\ ~logs.open /\ dash = NoDash
  /\ logs' = [NoLogs EXCEPT !.session = logs.session + 2]
  /\ pods' = [p \in Pods |-> "unseen"] /\ logsDenied' = FALSE
  /\ ended' = ended \cup {logs.session}
  /\ linesOf' = {} /\ strayed' = FALSE
  /\ UNCHANGED <<dash, asked, link>>

-----------------------------------------------------------------------------
(* The command and the forwarder.                                          *)

\* The command finds its context gone, opens the stream, or fails.
RunLogCommand(s) ==
  /\ link[s] = "queued"
  /\ \/ s \in ended /\ link' = [link EXCEPT ![s] = "over"] /\ UNCHANGED note
     \/ link' = [link EXCEPT ![s] = "running"] /\ UNCHANGED note
     \/ /\ link' = [link EXCEPT ![s] = "over"]
        /\ note' = [note EXCEPT ![s] = "refused"]
  /\ UNCHANGED <<logs, dash, pods, logsDenied, asked, ended, linesOf, strayed, logBudget>>

\* Send blocks until Update takes the message, so each stream has one on its
\* way; an error is followed by the end of the stream.
ForwardLog(s, kind) ==
  /\ link[s] = "running" \/ (link[s] = "ending" /\ kind = "eos")
  /\ note[s] = "none"
  /\ note' = [note EXCEPT ![s] = kind]
  /\ link' = [link EXCEPT ![s] = CASE kind = "eos" -> "over"
                                   [] kind = "error" -> "ending"
                                   [] OTHER -> @]
  /\ UNCHANGED <<logs, dash, pods, logsDenied, asked, ended, linesOf, strayed, logBudget>>

Accepts(s) == s = logs.session

\* The cases of Update for the log messages.
DeliverLog(s) ==
  /\ note[s] # "none"
  /\ UNCHANGED <<pods, logsDenied, logBudget>>
  /\ note' = [note EXCEPT ![s] = "none"]
  /\ IF ~Accepts(s)
     THEN UNCHANGED <<logs, dash, asked, link, ended, linesOf, strayed>>
     ELSE LET failed == note[s] \in {"refused", "error"}
              l == [logs EXCEPT !.reconnecting = (note[s] = "reconnecting"),
                                !.finished = @ \/ note[s] = "eos",
                                !.err = failed \/ (@ /\ note[s] # "reconnecting"),
                                !.retry = IF failed THEN note[s] = "refused" /\ asked[s].waiting
                                          ELSE @]
          IN  IF failed THEN RecoverDashboardLogs(l, pods)
              ELSE /\ logs' = l
                   /\ linesOf' = IF note[s] = "lines" THEN linesOf \cup {s} ELSE linesOf
                   /\ UNCHANGED <<dash, asked, link, ended, strayed>>

-----------------------------------------------------------------------------
LogUser ==
  \/ \E t \in Pods \cup {Deploy} : OpenDashboard(t)
  \/ \E p \in Pods : OpenLogs(p)
  \/ \E c \in 1..2 : PickContainer(c)
  \/ PopDashboard \/ CycleDashboardContainer \/ OpenViewer \/ CloseLogs \/ LoadAll

LogNext ==
  \/ LogUser
  \/ \E p \in Pods, st \in Live \cup {"gone"} : PodChanges(p, st)
  \/ LearnDenied \/ LeaveCluster
  \/ \E s \in LogSessions :
       \/ RunLogCommand(s) \/ DeliverLog(s)
       \/ \E kind \in {"lines", "reconnecting", "eos", "error"} : ForwardLog(s, kind)

LogSpec == LogInit /\ [][LogNext]_logVars

-----------------------------------------------------------------------------
\* The buffer is on the screen.
BufferShown == DashOpen(dash) \/ (logs.open /\ ~logs.picker)

\* What is read on the screen as the log of a pod is that pod's: all lines are
\* from the request shown, and dashboard and viewer name the pod it was for.
LinesOfNamedPod ==
  BufferShown =>
    \A s \in linesOf :
      /\ s = logs.session
      /\ strayed \/ (asked[s].ref = logs.ref /\ asked[s].container = logs.container)
      /\ DashOpen(dash) => asked[s].ref = dash.logRef

\* No stream is left running that nothing shows or will cancel.
NoLeakedStream ==
  \A s \in LogSessions :
    link[s] \in {"queued", "running", "ending"} /\ s \notin ended => s = logs.session /\ logs.streaming

\* A first request that failed because its container had not started is made
\* again when the dashboard learns that it has, whichever of the failure and
\* the pod event comes first; a deployment without a pod takes the first one.
NoMissedRetry ==
  DashOpen(dash) /\ ~strayed =>
    /\ ~(logs.retry /\ Started(logs.ref, logs.container, pods))
    /\ (dash.logRef = Deploy /\ dash.stack[Len(dash.stack)] = Deploy) => Newest(pods) = Deploy

LogPaneTruthful == LinesOfNamedPod /\ NoLeakedStream /\ NoMissedRetry

\* "Re-request the same pod and container with no tail limit" (handleLogsKey).
AllOfTheSamePod ==
  [][logs'.full /\ ~logs.full =>
       /\ asked'[logs'.session].ref = asked[logs.session].ref
       /\ asked'[logs'.session].container = asked[logs.session].container]_logVars

-----------------------------------------------------------------------------
(* What makes LogPaneTruthful inductive.                                   *)

Refs == Pods \cup {Deploy}
LogsType ==
  [session : Nat, open : BOOLEAN, picker : BOOLEAN, offered : Refs, streaming : BOOLEAN,
   ref : Refs, container : Nat, full : BOOLEAN, err : BOOLEAN, retry : BOOLEAN,
   finished : BOOLEAN, reconnecting : BOOLEAN]
DashType == [stack : Seq(Refs), logRef : Refs, n : Nat, container : Nat]
PodsType == [Pods -> {"unseen", "gone"} \cup Live]

LogTypeOK ==
  /\ logs \in LogsType /\ dash \in DashType /\ pods \in PodsType /\ logsDenied \in BOOLEAN
  /\ asked \in [LogSessions -> [ref : Refs, container : Nat, waiting : BOOLEAN]]
  /\ link \in [LogSessions -> {"none", "queued", "running", "ending", "over"}]
  /\ note \in [LogSessions -> {"none", "refused", "lines", "reconnecting", "eos", "error"}]
  /\ ended \subseteq Nat /\ linesOf \subseteq LogSessions /\ strayed \in BOOLEAN

\* A number that no request was given yet has neither stream nor message.
FreshNumbers ==
  \A s \in LogSessions :
    s > logs.session \/ (s = logs.session /\ ~logs.streaming) =>
      link[s] = "none" /\ note[s] = "none"

\* The stream that goes on is for the pod that is named, and something shows it.
StreamNamed ==
  logs.streaming =>
    /\ logs.session \in LogSessions /\ (logs.open \/ DashOpen(dash))
    /\ logs.ref # Deploy /\ asked[logs.session].ref # Deploy
    /\ strayed \/ (/\ asked[logs.session].ref = logs.ref
                   /\ asked[logs.session].container = logs.container)
    /\ DashOpen(dash) => asked[logs.session].ref = dash.logRef

\* The viewer is at its picker or shows a stream; a retry is for a stream; the
\* buffer on the screen holds the stream's lines only.
ViewerInv ==
  /\ logs.open => logs.streaming \/ logs.picker
  /\ logs.picker => logs.open /\ logs.ref # Deploy /\ logs.offered # Deploy
  /\ logs.retry => logs.streaming
  /\ BufferShown => linesOf \subseteq {logs.session} /\ (linesOf # {} => logs.streaming)

\* A deployment's dashboard is without a pod only if there is none.
PodTaken(d, ps) ==
  DashOpen(d) /\ d.logRef = Deploy /\ d.stack[Len(d.stack)] = Deploy => Newest(ps) = Deploy

SessionInv ==
  /\ LogTypeOK /\ FreshNumbers /\ StreamNamed /\ ViewerInv /\ NoLeakedStream
  /\ PodTaken(dash, pods) /\ NoMissedRetry
=============================================================================
