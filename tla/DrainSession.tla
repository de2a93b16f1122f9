---------------------------- MODULE DrainSession ----------------------------
(***************************************************************************)
(* internal/ui/drain.go with the gate of Update (internal/ui/app.go),      *)
(* focusedCmd (internal/ui/focus.go) and startDrain (cmd/kubetin/drain.go):*)
(* the drains a user starts, one after another, and the two dialogs.       *)
(*                                                                         *)
(* Confirming returns a command that bubbletea runs on a goroutine of its  *)
(* own.  The command launches the drain and its forwarder and returns an   *)
(* acknowledgement, which travels separately from the forwarder's          *)
(* progress and summary: the three reach Update in any order, also after   *)
(* the dialog was dismissed, another drain confirmed or the focus changed. *)
(* The drain itself is NodeDrain; here it runs, and at some time it ends.  *)
(***************************************************************************)
EXTENDS Naturals, FiniteSets

CONSTANTS MaxSessions, \* bound on the drains confirmed
          MaxFocus     \* bound on focus changes

ASSUME SessionAssumption == MaxSessions \in Nat /\ MaxFocus \in Nat

Sessions == 1..MaxSessions

VARIABLES
  generation, \* m.focusGeneration
  confirm,    \* m.drainConfirm: "closed", "open" or "pending"
  progress,   \* m.drainProgress
  last,       \* m.drainSession
  focusOf,    \* the generation each session was confirmed in
  stopped,    \* sessions whose request context was cancelled
  released,   \* sessions whose own cancel function was called
  parentDone, \* the program ends
  job,        \* each session's command and drain
  ack,        \* each session's DrainStartMsg on its way, or "none"
  news,       \* each session's message from the forwarder on its way
  shownOf     \* history: the sessions the progress dialog tells of

model == <<generation, confirm, progress, last, focusOf, stopped, shownOf>>
jobs == <<job, ack, news>>
vars == <<model, released, parentDone, jobs>>

\* drainProgressState{}; cancel tells whether it holds the cancel function.
NoProgress == [session |-> 0, acknowledged |-> FALSE, finished |-> FALSE, open |-> FALSE,
               cancel |-> FALSE]

Init ==
  /\ generation = 0 /\ confirm = "closed" /\ progress = NoProgress /\ last = 0
  /\ focusOf = [s \in Sessions |-> 0]
  /\ stopped = {} /\ released = {} /\ parentDone = FALSE
  /\ job = [s \in Sessions |-> "none"]
  /\ ack = [s \in Sessions |-> "none"] /\ news = [s \in Sessions |-> "none"]
  /\ shownOf = {}

-----------------------------------------------------------------------------
(* The user.                                                               *)

\* cancelDrain: the request, and the drain's own handle if it is here.
CancelDrain ==
  /\ stopped' = stopped \cup ({progress.session} \ {0})
  /\ released' = IF progress.cancel THEN released \cup {progress.session} ELSE released

\* A wrong StopDrain: the dialogs close and the drain goes on.
StopDrainForgets ==
  /\ progress' = NoProgress /\ shownOf' = {} /\ UNCHANGED <<stopped, released>>

StopDrain == CancelDrain /\ progress' = NoProgress /\ shownOf' = {}

\* No drain dialog takes the keys.
KeysFree == confirm = "closed" /\ ~progress.open

OpenDrainConfirm ==
  /\ KeysFree
  /\ StopDrain
  /\ confirm' = "open"
  /\ UNCHANGED <<generation, last, focusOf, parentDone, jobs>>

\* n or esc, also while the command is pending; with ctrl+c the program ends.
DismissConfirm(quit) ==
  /\ confirm # "closed"
  /\ StopDrain
  /\ confirm' = "closed"
  /\ parentDone' = (parentDone \/ quit)
  /\ UNCHANGED <<generation, last, focusOf, jobs>>

Confirm ==
  /\ confirm = "open" /\ last < MaxSessions
  /\ confirm' = "pending"
  /\ last' = last + 1
  /\ progress' = [NoProgress EXCEPT !.session = last']
  /\ shownOf' = {}
  /\ focusOf' = [focusOf EXCEPT ![last'] = generation]
  /\ job' = [job EXCEPT ![last'] = "queued"]
  /\ UNCHANGED <<generation, stopped, released, parentDone, ack, news>>

\* esc in the progress dialog: cancel, and once there is a summary, close.
Escape ==
  /\ confirm = "closed" /\ progress.open
  /\ IF progress.finished THEN StopDrain
     ELSE CancelDrain /\ progress' = [progress EXCEPT !.cancel = FALSE] /\ UNCHANGED shownOf
  /\ UNCHANGED <<generation, confirm, last, focusOf, parentDone, jobs>>

QuitFromProgress ==
  /\ confirm = "closed" /\ progress.open
  /\ StopDrain
  /\ parentDone' = TRUE
  /\ UNCHANGED <<generation, confirm, last, focusOf, jobs>>

\* focusContext: the old focus's lifetime ends, and its requests with it.
FocusContext ==
  /\ KeysFree /\ generation < MaxFocus
  /\ generation' = generation + 1
  /\ StopDrain
  /\ UNCHANGED <<confirm, last, focusOf, parentDone, jobs>>

\* The process is told to stop.
Shutdown ==
  /\ ~parentDone
  /\ parentDone' = TRUE
  /\ UNCHANGED <<model, released, jobs>>

-----------------------------------------------------------------------------
(* The command.                                                            *)

\* The request or its focus is gone before the command runs.
Gone(s) == s \in stopped \/ focusOf[s] # generation

Skip(s) ==
  /\ job[s] = "queued" /\ Gone(s)
  /\ job' = [job EXCEPT ![s] = "ended"]
  /\ UNCHANGED <<model, released, parentDone, ack, news>>

\* startDrain finds it cancelled.
RefuseStart(s) ==
  /\ job[s] = "queued" /\ (Gone(s) \/ parentDone)
  /\ job' = [job EXCEPT ![s] = "ended"]
  /\ ack' = [ack EXCEPT ![s] = "err"]
  /\ UNCHANGED <<model, released, parentDone, news>>

Launch(s) ==
  /\ job[s] = "queued" /\ ~Gone(s) /\ ~parentDone
  /\ job' = [job EXCEPT ![s] = "running"]
  /\ ack' = [ack EXCEPT ![s] = "ok"]
  /\ UNCHANGED <<model, released, parentDone, news>>

-----------------------------------------------------------------------------
(* The drain and its forwarder.                                            *)

Cancelled(s) == Gone(s) \/ s \in released \/ parentDone

Report(s) ==
  /\ job[s] = "running" /\ news[s] = "none"
  /\ news' = [news EXCEPT ![s] = "progress"]
  /\ UNCHANGED <<model, released, parentDone, job, ack>>

\* A wrong Summary: a cancelled drain has none.
SummaryUnlessCancelled(s) == IF Cancelled(s) THEN "gone" ELSE "done"

Summary(s) == "done"

\* The drain ends, cancelled or not, and the forwarder publishes its summary.
End(s) ==
  /\ job[s] = "running" /\ news[s] = "none"
  /\ job' = [job EXCEPT ![s] = "ended"]
  /\ news' = [news EXCEPT ![s] = Summary(s)]
  /\ UNCHANGED <<model, released, parentDone, ack>>

-----------------------------------------------------------------------------
(* Update.                                                                 *)

\* Wrong forms of Current: one knows the focus only, one forgets that a
\* finished drain takes no more messages.
CurrentFocusOnly(s) == focusOf[s] = generation
CurrentSession(s) == focusOf[s] = generation /\ s = progress.session

\* The gate for messages of session s.
Current(s) == focusOf[s] = generation /\ s = progress.session /\ ~progress.finished

\* discardFocusedMessage
Discard(s) ==
  /\ released' = IF ack[s] = "ok" THEN released \cup {s} ELSE released
  /\ UNCHANGED <<confirm, progress, stopped, shownOf>>

\* applyDrainStart; a session has one acknowledgement.
ApplyDrainStart(s) ==
  /\ ~progress.acknowledged
  /\ confirm' = "closed"
  /\ UNCHANGED shownOf
  /\ IF ack[s] = "err"
     THEN /\ CancelDrain
          /\ progress' = [progress EXCEPT !.acknowledged = TRUE, !.finished = TRUE,
                                          !.open = FALSE, !.cancel = FALSE]
     ELSE /\ progress' = [progress EXCEPT !.acknowledged = TRUE, !.open = TRUE,
                                          !.cancel = progress.session \notin stopped]
          /\ UNCHANGED stopped
          /\ released' = IF progress.session \in stopped THEN released \cup {s} ELSE released

DeliverStart(s) ==
  /\ ack[s] # "none"
  /\ ack' = [ack EXCEPT ![s] = "none"]
  /\ IF Current(s) THEN ApplyDrainStart(s) ELSE Discard(s)
  /\ UNCHANGED <<generation, last, focusOf, parentDone, job, news>>

\* applyDrainProgress
DeliverProgress(s) ==
  /\ news[s] = "progress"
  /\ news' = [news EXCEPT ![s] = "none"]
  /\ IF Current(s)
     THEN /\ confirm' = "closed"
          /\ progress' = [progress EXCEPT !.open = TRUE]
          /\ shownOf' = shownOf \cup {s}
     ELSE UNCHANGED <<confirm, progress, shownOf>>
  /\ UNCHANGED <<generation, last, focusOf, stopped, released, parentDone, job, ack>>

\* applyDrainDone: an incomplete result stays open.
DeliverDone(s, incomplete) ==
  /\ news[s] = "done"
  /\ news' = [news EXCEPT ![s] = "gone"]
  /\ IF Current(s)
     THEN /\ confirm' = "closed"
          /\ CancelDrain
          /\ progress' = [progress EXCEPT !.finished = TRUE, !.open = incomplete,
                                          !.cancel = FALSE]
          /\ shownOf' = shownOf \cup {s}
     ELSE UNCHANGED <<confirm, progress, stopped, released, shownOf>>
  /\ UNCHANGED <<generation, last, focusOf, parentDone, job, ack>>

-----------------------------------------------------------------------------
User ==
  \/ OpenDrainConfirm \/ Confirm \/ Escape \/ QuitFromProgress \/ FocusContext
  \/ \E quit \in BOOLEAN : DismissConfirm(quit)

Command(s) == Skip(s) \/ RefuseStart(s) \/ Launch(s)

Deliver(s) ==
  DeliverStart(s) \/ DeliverProgress(s) \/ \E incomplete \in BOOLEAN : DeliverDone(s, incomplete)

Next ==
  \/ User \/ Shutdown
  \/ \E s \in Sessions : Command(s) \/ Report(s) \/ End(s) \/ Deliver(s)

Spec == Init /\ [][Next]_vars

\* bubbletea runs every command and Update handles every message; a drain ends
\* (NodeDrain, DrainEnds), however many reports it makes.
Fairness ==
  \A s \in Sessions : /\ WF_vars(Command(s)) /\ SF_vars(End(s))
                      /\ WF_vars(DeliverStart(s)) /\ WF_vars(DeliverProgress(s))
                      /\ WF_vars(\E incomplete \in BOOLEAN : DeliverDone(s, incomplete))

FairSpec == Spec /\ Fairness

-----------------------------------------------------------------------------
TypeOK ==
  /\ generation \in 0..MaxFocus /\ last \in 0..MaxSessions
  /\ confirm \in {"closed", "open", "pending"}
  /\ progress \in [session : 0..MaxSessions, acknowledged : BOOLEAN, finished : BOOLEAN,
                   open : BOOLEAN, cancel : BOOLEAN]
  /\ focusOf \in [Sessions -> 0..MaxFocus]
  /\ stopped \subseteq Sessions /\ released \subseteq Sessions /\ shownOf \subseteq Sessions
  /\ parentDone \in BOOLEAN
  /\ job \in [Sessions -> {"none", "queued", "running", "ended"}]
  /\ ack \in [Sessions -> {"none", "ok", "err"}]
  /\ news \in [Sessions -> {"none", "progress", "done", "gone"}]

\* A drain that is queued or evicting pods, and was not told to stop.
Live(s) == job[s] \in {"queued", "running"} /\ ~Cancelled(s)

\* No drain runs behind the user's back: whoever is live is the drain of the
\* dialog on the screen, where esc cancels it.
LiveDrainOwned ==
  \A s \in Sessions : Live(s) =>
    /\ s = progress.session /\ ~progress.finished
    /\ confirm = "pending" \/ progress.open

\* The progress dialog tells of the drain it names and of no earlier one.
ShowsOwnDrain == shownOf \subseteq {progress.session}

\* A summary is final: an acknowledgement or report that comes after it does
\* not open the dialog again.
FinishedIsFinal ==
  [][progress.finished /\ progress'.session = progress.session
       => progress'.finished /\ (progress'.open => progress.open)]_vars

\* What makes these inductive (DrainSession_proof): the dialog's session is the
\* last one confirmed, earlier ones were cancelled, and until its summary the
\* dialog is on the screen.
OwnerInv ==
  /\ progress.session \in {0, last}
  /\ progress.session = 0 => ~progress.open /\ ~progress.finished /\ ~progress.cancel
  /\ \A s \in Sessions : (job[s] # "none") <=> s <= last
  /\ \A s \in Sessions : s <= last /\ s # progress.session => s \in stopped
  /\ confirm = "open" => progress = NoProgress
  /\ progress.session # 0 /\ ~progress.finished => confirm = "pending" \/ progress.open
  /\ confirm = "pending" => progress.session # 0 /\ ~progress.open
  /\ progress.session # 0 => focusOf[progress.session] = generation
  /\ progress.finished => progress.session \in stopped
  /\ \A s \in Sessions : focusOf[s] <= generation

\* "Keep the identity until the terminal summary arrives": a progress dialog
\* that is not left gets the summary of its drain, cancelled or not; and the
\* start handshake always ends, so that the confirmation does not stay pending.
SummaryArrives ==
  \A s \in Sessions :
    /\ (progress.session = s /\ progress.open) ~> (progress.session # s \/ progress.finished)
    /\ (confirm = "pending" /\ last = s) ~> (confirm # "pending" \/ last # s)
=============================================================================
