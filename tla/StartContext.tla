---------------------------- MODULE StartContext ----------------------------
(***************************************************************************)
(* Which context kubetin opens on (cmd/kubetin/main.go, lastcontext.go).   *)
(*                                                                         *)
(* pickWatchContext looks at the store every half second while the probes  *)
(* fill it, until a context is good enough or the window closes.  It reads *)
(* one context after the other, so reports come in the middle of a look.   *)
(* The context a session watched last is kept in a file that is truncated  *)
(* and then written, and is what the next start prefers.                   *)
(***************************************************************************)
EXTENDS Integers, Sequences, FiniteSets, Ordered

CONSTANTS StartContexts,   \* 1..n in the order of their names
          MaxStarts,  \* bound on launches
          MaxReports, \* bound on the probe results of one launch
          MaxSwitches \* bound on the focus changes of one launch

ASSUME StartAssumption ==
  /\ StartContexts \subseteq Nat \ {0} /\ IsFiniteSet(StartContexts)
  /\ MaxStarts \in Nat /\ MaxReports \in Nat /\ MaxSwitches \in Nat

Nobody == 0 \* no context: an empty name, an empty or missing file

VARIABLES
  process,  \* "off", "picking", "open" (the TUI or the headless watch), "alone"
            \* (headless without a watch)
  launch,   \* the launch's flags and contexts, and the remembered context it read
  reach,    \* the store; "none" before the first result
  look,     \* pickWatchContext: what it prefers, where it is, whether it is the last look
  deadline,    \* deadline.C: "running", "fired"
  interrupted,\* ctx.Err() # nil
  chosen,   \* what it opened on
  session,  \* the focus, the context watched, and the one being saved
  lastFile, \* the last-context file
  used,     \* bounds: launches, reports and focus changes
  steady,   \* history: contexts that are healthy since the deadline fired
  leftAt,   \* history: the context watched last, Nobody once a save failed or was cut short
  excused   \* history: why the remembered context need not be the one opened

startVars == <<process, launch, reach, look, deadline, interrupted, chosen, session, lastFile, used,
               steady, leftAt, excused>>

NoLaunch == [tui |-> TRUE, noWatch |-> FALSE, want |-> Nobody, contexts |-> {}, last |-> Nobody]
NoLook == [prefer |-> Nobody, at |-> 0, queue |-> <<>>, final |-> FALSE]
NoSession == [focus |-> Nobody, active |-> Nobody, saving |-> Nobody, coord |-> FALSE]
Quiet == [c \in StartContexts |-> "none"]

StartInit ==
  /\ process = "off" /\ launch = NoLaunch /\ reach = Quiet /\ look = NoLook
  /\ deadline = "running" /\ interrupted = FALSE /\ chosen = Nobody
  /\ session = NoSession /\ lastFile = Nobody
  /\ used = [starts |-> 0, reports |-> 0, switches |-> 0]
  /\ steady = {} /\ leftAt = Nobody /\ excused = FALSE

FirstOf(S) == CHOOSE c \in S : \A x \in S : c <= x

-----------------------------------------------------------------------------
(* The start.                                                              *)

\* A look at the store begins: the preferred context first, if there is one.
LookFrom(prefer, final) ==
  [prefer |-> prefer, at |-> IF prefer = Nobody THEN 1 ELSE 0,
   queue |-> Increasing(launch.contexts), final |-> final]

\* Open the TUI, or start the headless watch, on c.
OpenOn(c) ==
  /\ process' = "open" /\ chosen' = c
  /\ session' = [NoSession EXCEPT !.focus = c, !.coord = launch.tui /\ ~launch.noWatch]
  /\ look' = NoLook

\* The program ends, or its headless watch does.
NotOpened ==
  /\ process' = IF launch.tui THEN "off" ELSE "alone"
  /\ look' = NoLook /\ UNCHANGED <<chosen, session>>

\* main, up to pickWatchContext's first look; contexts is never empty.  Headless
\* does not remember, and with -no-watch does not pick.
Launch(flags) ==
  /\ process = "off" /\ used.starts < MaxStarts
  /\ used' = [starts |-> used.starts + 1, reports |-> 0, switches |-> 0]
  /\ launch' = [flags EXCEPT !.last = IF flags.tui THEN lastFile ELSE Nobody]
  /\ reach' = Quiet /\ deadline' = "running" /\ interrupted' = FALSE /\ steady' = {}
  /\ chosen' = Nobody /\ session' = NoSession
  /\ process' = IF ~flags.tui /\ flags.noWatch THEN "alone" ELSE "picking"
  /\ LET prefer == IF launch'.last \in flags.contexts THEN launch'.last ELSE Nobody
     IN  look' = [prefer |-> prefer, at |-> IF prefer = Nobody THEN 1 ELSE 0,
                  queue |-> Increasing(flags.contexts), final |-> FALSE]
  /\ excused' = (~flags.tui \/ flags.want # Nobody \/ leftAt \notin flags.contexts)
  /\ UNCHANGED <<lastFile, leftAt>>

Picking == process = "picking" /\ launch.want = Nobody
Looking == Picking /\ look.at <= Len(look.queue)
Waiting == Picking /\ look.at > Len(look.queue) /\ ~look.final

\* -watch: it must be one of the contexts.
OpenWanted ==
  /\ process = "picking" /\ launch.want # Nobody
  /\ IF launch.want \in launch.contexts THEN OpenOn(launch.want) ELSE NotOpened
  /\ UNCHANGED <<launch, reach, deadline, interrupted, lastFile, used, steady, leftAt, excused>>

\* The remembered cluster has not reported yet.
Unresolved(c) == reach[c] = "none"

\* firstHealthy, its first half: the preferred context may be degraded, and is
\* waited for while it has not reported.
ReadPreferred ==
  /\ Looking /\ look.at = 0
  /\ IF reach[look.prefer] \in {"healthy", "degraded"}
     THEN OpenOn(look.prefer) /\ UNCHANGED excused
     ELSE /\ look' = [look EXCEPT !.at = IF Unresolved(look.prefer) THEN Len(look.queue) + 1 ELSE 1]
          /\ excused' = (excused \/ reach[look.prefer] = "down")
          /\ UNCHANGED <<process, chosen, session>>
  /\ UNCHANGED <<launch, reach, deadline, interrupted, lastFile, used, steady, leftAt>>

\* firstHealthy, its second half, one context.
ReadContext ==
  /\ Looking /\ look.at > 0
  /\ IF reach[look.queue[look.at]] = "healthy" THEN OpenOn(look.queue[look.at])
     ELSE look' = [look EXCEPT !.at = @ + 1] /\ UNCHANGED <<process, chosen, session>>
  /\ UNCHANGED <<launch, reach, deadline, interrupted, lastFile, used, steady, leftAt, excused>>

\* tick.C
LookAgain ==
  /\ Waiting /\ look' = LookFrom(look.prefer, FALSE)
  /\ UNCHANGED <<process, launch, reach, deadline, interrupted, chosen, session, lastFile, used,
                 steady, leftAt, excused>>

\* ctx.Done()
SeeCancel ==
  /\ Waiting /\ interrupted /\ NotOpened
  /\ UNCHANGED <<launch, reach, deadline, interrupted, lastFile, used, steady, leftAt, excused>>

\* A wrong LastLook: there is another look after it.
LastLookAgain == LookFrom(Nobody, FALSE)

\* The look after the deadline has no preference.
LastLook == LookFrom(Nobody, TRUE)

\* deadline.C: cancellation wins; otherwise one more look.
TakeDeadline ==
  /\ Waiting /\ deadline = "fired"
  /\ IF interrupted THEN NotOpened
     ELSE look' = LastLook /\ UNCHANGED <<process, chosen, session>>
  /\ excused' = TRUE
  /\ UNCHANGED <<launch, reach, deadline, interrupted, lastFile, used, steady, leftAt>>

\* errNoHealthyCluster: the TUI opens on the remembered or the first context.
GiveUpPicking ==
  /\ Picking /\ look.at > Len(look.queue) /\ look.final
  /\ IF launch.tui
     THEN OpenOn(IF launch.last \in launch.contexts THEN launch.last ELSE FirstOf(launch.contexts))
     ELSE NotOpened
  /\ UNCHANGED <<launch, reach, deadline, interrupted, lastFile, used, steady, leftAt, excused>>

-----------------------------------------------------------------------------
(* Around it: the probes, the timer, the user.                             *)

Report(c, r) ==
  /\ process # "off" /\ ~interrupted /\ used.reports < MaxReports /\ r # reach[c]
  /\ used' = [used EXCEPT !.reports = @ + 1]
  /\ reach' = [reach EXCEPT ![c] = r]
  /\ steady' = IF r = "healthy" THEN steady ELSE steady \ {c}
  /\ UNCHANGED <<process, launch, look, deadline, interrupted, chosen, session, lastFile, leftAt, excused>>

DeadlineFires ==
  /\ process = "picking" /\ deadline = "running" /\ deadline' = "fired"
  /\ steady' = {c \in launch.contexts : reach[c] = "healthy"}
  /\ UNCHANGED <<process, launch, reach, look, interrupted, chosen, session, lastFile, used,
                 leftAt, excused>>

ReceiveSignal ==
  /\ process # "off" /\ ~interrupted /\ interrupted' = TRUE
  /\ UNCHANGED <<process, launch, reach, look, deadline, chosen, session, lastFile, used,
                 steady, leftAt, excused>>

-----------------------------------------------------------------------------
(* The session and the file.                                               *)

SwitchFocus(c) ==
  /\ process = "open" /\ launch.tui /\ c \in launch.contexts /\ c # session.focus
  /\ used.switches < MaxSwitches /\ used' = [used EXCEPT !.switches = @ + 1]
  /\ session' = [session EXCEPT !.focus = c]
  /\ UNCHANGED <<process, launch, reach, look, deadline, interrupted, chosen, lastFile,
                 steady, leftAt, excused>>

\* The focus has settled: spawnWatchers saves it, which truncates the file.
\* ok: the file could be opened.
Settle(ok) ==
  /\ process = "open" /\ session.coord /\ session.saving = Nobody
  /\ session.active # session.focus
  /\ session' = [session EXCEPT !.active = session.focus,
                                !.saving = IF ok THEN session.focus ELSE Nobody]
  /\ lastFile' = IF ok THEN Nobody ELSE lastFile
  /\ leftAt' = Nobody
  /\ UNCHANGED <<process, launch, reach, look, deadline, interrupted, chosen, used, steady, excused>>

\* os.WriteFile ends.
FinishSave ==
  /\ process = "open" /\ session.saving # Nobody
  /\ lastFile' = session.saving /\ leftAt' = session.saving
  /\ session' = [session EXCEPT !.saving = Nobody]
  /\ UNCHANGED <<process, launch, reach, look, deadline, interrupted, chosen, used, steady, excused>>

\* The coordinator leaves with its parent.
CoordinatorLeaves ==
  /\ process = "open" /\ session.coord /\ interrupted /\ session.saving = Nobody
  /\ session' = [session EXCEPT !.coord = FALSE]
  /\ UNCHANGED <<process, launch, reach, look, deadline, interrupted, chosen, lastFile, used,
                 steady, leftAt, excused>>

\* The TUI ends after the coordinator did; the headless program when interrupted.
Quit ==
  /\ IF process = "open" /\ launch.tui THEN session.saving = Nobody
     ELSE process \in {"open", "alone"} /\ interrupted
  /\ process' = "off"
  /\ UNCHANGED <<launch, reach, look, deadline, interrupted, chosen, session, lastFile, used,
                 steady, leftAt, excused>>

\* The process is killed, or panics.
Crash ==
  /\ process # "off" /\ process' = "off"
  /\ UNCHANGED <<launch, reach, look, deadline, interrupted, chosen, session, lastFile, used,
                 steady, leftAt, excused>>

Flags ==
  [tui : BOOLEAN, noWatch : BOOLEAN, want : {Nobody} \cup StartContexts,
   contexts : (SUBSET StartContexts) \ {{}}, last : {Nobody}]

StartNext ==
  \/ \E flags \in Flags : Launch(flags)
  \/ OpenWanted \/ ReadPreferred \/ ReadContext \/ LookAgain \/ SeeCancel \/ TakeDeadline
  \/ GiveUpPicking \/ DeadlineFires \/ ReceiveSignal
  \/ \E c \in StartContexts : SwitchFocus(c) \/ \E r \in {"healthy", "degraded", "down"} : Report(c, r)
  \/ \E ok \in BOOLEAN : Settle(ok)
  \/ FinishSave \/ CoordinatorLeaves \/ Quit \/ Crash

\* pickWatchContext keeps running, the timer fires, and select, which takes a
\* ready case at random, does not pass over the deadline for ever.
StartFair ==
  /\ WF_startVars(OpenWanted) /\ WF_startVars(ReadPreferred) /\ WF_startVars(ReadContext)
  /\ WF_startVars(LookAgain) /\ WF_startVars(GiveUpPicking) /\ WF_startVars(DeadlineFires)
  /\ SF_startVars(TakeDeadline)

StartSpec == StartInit /\ [][StartNext]_startVars /\ StartFair

-----------------------------------------------------------------------------
\* A fleet that is up is not written off: a start that falls back, or opens on
\* a context that is not up, left no healthy one unseen since its deadline.
HealthyNotMissed ==
  Picking /\ look.at > Len(look.queue) /\ look.final => steady = {}

\* A start opens on the context the last session watched, unless it was told
\* another, the context is gone, it was seen to be down, or the time was up;
\* which context answers its probe first makes no difference.
ReopensWhereLeft ==
  process = "open" /\ leftAt # Nobody /\ session.active = Nobody
    => excused \/ chosen = leftAt

StartTruthful == HealthyNotMissed /\ ReopensWhereLeft

\* However the probes end, a start does: on a context, or with an error.
StartEnds == process = "picking" ~> process # "picking"

\* A start ends, where it should.
StartRight == []StartTruthful /\ StartEnds

-----------------------------------------------------------------------------
(* What an induction needs besides.                                        *)

StartTypeOK ==
  LET Ctx == StartContexts \cup {Nobody}
  IN  /\ launch \in [tui : BOOLEAN, noWatch : BOOLEAN, want : Ctx, contexts : SUBSET StartContexts, last : Ctx]
      /\ reach \in [StartContexts -> {"none", "healthy", "degraded", "down"}] /\ lastFile \in Ctx
      /\ look \in [prefer : Ctx, at : Nat, queue : Seq(StartContexts), final : BOOLEAN]
      /\ session \in [focus : Ctx, active : Ctx, saving : Ctx, coord : BOOLEAN]
      /\ process = "picking" =>
           /\ launch.contexts # {} /\ look.queue = Increasing(launch.contexts)
           /\ look.prefer \in launch.contexts \cup {Nobody} /\ (look.at = 0 => look.prefer # Nobody)

\* What has been healthy since the deadline still is, and the last look, which
\* is after it, has not passed it.
SteadyInv ==
  /\ deadline = "running" => steady = {}
  /\ \A c \in steady : reach[c] = "healthy"
  /\ process = "picking" =>
       /\ steady \subseteq launch.contexts
       /\ look.final =>
            /\ deadline = "fired" /\ look.at # 0
            /\ \A c \in steady : \E i \in DOMAIN look.queue : look.at <= i /\ look.queue[i] = c

\* What was left is in the file, a session that saves watches, and a start that
\* has no excuse looks at nothing else.
LeftInv ==
  /\ leftAt # Nobody => lastFile = leftAt
  /\ process = "open" => session.focus # Nobody /\ (session.saving # Nobody => session.active # Nobody)
  /\ process = "picking" /\ ~excused /\ leftAt # Nobody =>
       /\ launch.want = Nobody /\ look.prefer = leftAt /\ ~look.final
       /\ look.at = 0 \/ look.at > Len(look.queue)

StartInv == StartTypeOK /\ SteadyInv /\ LeftInv /\ StartTruthful
=============================================================================
