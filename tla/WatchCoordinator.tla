-------------------------- MODULE WatchCoordinator --------------------------
(***************************************************************************)
(* cmd/kubetin/main.go, watchCoordinator, with the focus changes of the UI *)
(* that drive it (internal/ui/app.go focusContext, internal/ui/focus.go)   *)
(* and the gate at the top of Update that the watchers' messages meet.     *)
(*                                                                         *)
(* A focus change returns a command that bubbletea runs on a goroutine of  *)
(* its own, so calls of switchTo may be delayed and reordered.  switchTo   *)
(* keeps the newest target under mu and signals reqCh after releasing it.  *)
(* loop debounces: it applies a target only when the debounce timer fires  *)
(* and no newer target was accepted.  Cancelled forwarders may still send  *)
(* what they had read.                                                     *)
(***************************************************************************)
EXTENDS Naturals, FiniteSets

CONSTANTS Contexts,  \* names of clusters
          First,     \* the context the UI opens on
          NoContext, \* ""
          MaxFocus   \* bound on focus changes

ASSUME ContextAssumption == First \in Contexts /\ NoContext \notin Contexts
ASSUME MaxFocusAssumption == MaxFocus \in Nat

VARIABLES
  focus,      \* the UI's (WatchedContext, focusGeneration)
  rows,       \* the focus targets whose rows are in the UI's tables
  commands,   \* focus commands bubbletea has yet to run
  signalling, \* number of switchTo calls between unlock and their signal
  latest,     \* c.latest
  hasRequest, \* c.hasRequest
  reqCh,      \* tokens in c.reqCh
  stopCh,     \* c.stopCh is closed
  parentDone, \* c.parent is done
  lpc,        \* loop: "select" or "done"
  pending,    \* loop's pending
  active,     \* loop's active
  timer,      \* the debounce timer: "off" or "armed"
  live,       \* targets whose watch context is not cancelled
  forwarders, \* targets with forwarder goroutines still running
  inbox       \* FocusedMsgs on their way to Update

request == <<latest, hasRequest, reqCh>>
ending == <<stopCh, parentDone>>
loop == <<lpc, pending, active, timer>>
watchers == <<live, forwarders>>
vars == <<focus, rows, commands, signalling, request, ending, loop, watchers, inbox>>

Target == [context : Contexts, gen : Nat]
NoTarget == [context |-> NoContext, gen |-> 0]

\* run: the UI opens on First; loop starts; switchTo(m.Focus()) is called.
Init ==
  /\ focus = [context |-> First, gen |-> 0]
  /\ rows = {}
  /\ commands = {focus}
  /\ signalling = 0
  /\ latest = NoTarget /\ hasRequest = FALSE
  /\ reqCh = 0 /\ stopCh = FALSE /\ parentDone = FALSE
  /\ lpc = "select" /\ pending = NoTarget /\ active = NoTarget /\ timer = "off"
  /\ live = {} /\ forwarders = {}
  /\ inbox = {}

-----------------------------------------------------------------------------
(* The UI.                                                                 *)

\* clearFocusedState: the tables and everything else of the previous focus.
ClearFocusedState == rows' = {}

\* cycleFocus and focusContext: a new generation even for a cluster visited before; the
\* tables are cleared before the command can run.
FocusContext(c) ==
  /\ c # focus.context
  /\ focus.gen < MaxFocus
  /\ focus' = [context |-> c, gen |-> focus.gen + 1]
  /\ ClearFocusedState
  /\ commands' = commands \cup {focus'}
  /\ UNCHANGED <<signalling, request, ending, loop, watchers, inbox>>

\* A wrong Current: only the context's name is compared.
CurrentByName(target) == target.context = focus.context

Current(target) == target = focus

\* Update receives a batch of rows under the focus that requested it.
Deliver(target) ==
  /\ target \in inbox
  /\ inbox' = inbox \ {target}
  /\ rows' = IF Current(target) THEN rows \cup {target} ELSE rows
  /\ UNCHANGED <<focus, commands, signalling, request, ending, loop, watchers>>

-----------------------------------------------------------------------------
(* switchTo.                                                               *)

\* A wrong Newer: the calls are expected in order.
NewerInOrder(target) == ~hasRequest \/ target.gen = latest.gen + 1

Newer(target) == ~hasRequest \/ target.gen > latest.gen

\* The part under c.mu.
SwitchTo(target) ==
  /\ target \in commands
  /\ commands' = commands \ {target}
  /\ IF Newer(target)
     THEN /\ latest' = target /\ hasRequest' = TRUE
          /\ signalling' = signalling + 1
     ELSE UNCHANGED <<latest, hasRequest, signalling>>
  /\ UNCHANGED <<focus, rows, reqCh, ending, loop, watchers, inbox>>

\* The channel has room for one token.
AddToken == reqCh' = 1

Signal ==
  /\ signalling > 0
  /\ signalling' = signalling - 1
  /\ AddToken
  /\ UNCHANGED <<focus, rows, commands, latest, hasRequest, ending, loop, watchers,
                 inbox>>

-----------------------------------------------------------------------------
(* loop.                                                                   *)

\* case <-c.reqCh: take the newest target and restart the debounce timer.
Request ==
  /\ lpc = "select" /\ reqCh > 0
  /\ reqCh' = reqCh - 1
  /\ IF latest = active
     THEN pending' = NoTarget /\ UNCHANGED timer
     ELSE pending' = latest /\ timer' = "armed"
  /\ UNCHANGED <<focus, rows, commands, signalling, latest, hasRequest, ending,
                 lpc, active, watchers, inbox>>

\* The watcher set of target, each watcher with its forwarder.
SpawnWatchers(target) == forwarders' = forwarders \cup {target}

\* A wrong SpawnFor: the previous set is not cancelled.
SpawnForKeepsOld(target) ==
  /\ live' = live \cup {target}
  /\ SpawnWatchers(target)

\* apply: cancel the current set, start the set of the new target.
SpawnFor(target) ==
  /\ live' = IF parentDone THEN {} ELSE {target}
  /\ SpawnWatchers(target)

\* A wrong Superseded: the fire trusts what the last request saw.
SupersededNever == FALSE

\* c.latest != pending, read under c.mu
Superseded == latest # pending

\* case <-debounce.C
Fire ==
  /\ lpc = "select" /\ timer = "armed"
  /\ \/ /\ pending = NoTarget
        /\ timer' = "off"
        /\ UNCHANGED <<pending, active, watchers>>
     \/ /\ pending # NoTarget /\ Superseded
        /\ pending' = latest
        /\ UNCHANGED <<timer, active, watchers>>
     \/ /\ pending # NoTarget /\ ~Superseded
        /\ timer' = "off"
        /\ pending' = NoTarget
        /\ active' = pending
        /\ SpawnFor(pending)
  /\ UNCHANGED <<focus, rows, commands, signalling, request, ending, lpc, inbox>>

\* curCancel, then close(c.doneCh)
Leave == lpc' = "done" /\ live' = {}

\* case <-c.stopCh, case <-c.parent.Done()
Stop ==
  /\ lpc = "select" /\ (stopCh \/ parentDone)
  /\ Leave
  /\ UNCHANGED <<focus, rows, commands, signalling, request, ending, pending, active, timer,
                 forwarders, inbox>>

\* stop, called when the program ends.
Close ==
  /\ ~stopCh
  /\ stopCh' = TRUE
  /\ UNCHANGED <<focus, rows, commands, signalling, request, parentDone, loop, watchers,
                 inbox>>

\* The process is told to stop: every context derived from parent is done.
ParentDone ==
  /\ ~parentDone
  /\ parentDone' = TRUE
  /\ live' = {}
  /\ UNCHANGED <<focus, rows, commands, signalling, request, stopCh, loop, forwarders,
                 inbox>>

-----------------------------------------------------------------------------
(* The forwarders of a watch set: the select between events and ctx.Done   *)
(* is random, so a cancelled one may send before it leaves.                *)
Forward(target) ==
  /\ target \in forwarders
  /\ inbox' = inbox \cup {target}
  /\ UNCHANGED <<focus, rows, commands, signalling, request, ending, loop, watchers>>

ForwarderExit(target) ==
  /\ target \in forwarders \ live
  /\ forwarders' = forwarders \ {target}
  /\ UNCHANGED <<focus, rows, commands, signalling, request, ending, loop, live, inbox>>

Next ==
  \/ \E c \in Contexts : FocusContext(c)
  \/ \E target \in inbox : Deliver(target)
  \/ \E target \in commands : SwitchTo(target)
  \/ Signal
  \/ Request \/ Fire \/ Stop \/ Close \/ ParentDone
  \/ \E target \in forwarders : Forward(target) \/ ForwarderExit(target)

Spec == Init /\ [][Next]_vars

\* bubbletea runs every command; goroutines are scheduled; an armed timer
\* fires; a select whose stop case stays ready takes it.
Fairness ==
  /\ WF_vars(\E target \in commands : SwitchTo(target))
  /\ WF_vars(Signal)
  /\ WF_vars(Request)
  /\ WF_vars(Fire)
  /\ WF_vars(Stop)

FairSpec == Spec /\ Fairness

-----------------------------------------------------------------------------
TypeOK ==
  /\ focus \in Target /\ rows \subseteq Target /\ commands \subseteq Target
  /\ signalling \in Nat
  /\ latest \in Target \cup {NoTarget} /\ hasRequest \in BOOLEAN
  /\ reqCh \in 0..1 /\ stopCh \in BOOLEAN /\ parentDone \in BOOLEAN
  /\ lpc \in {"select", "done"}
  /\ pending \in Target \cup {NoTarget} /\ active \in Target \cup {NoTarget}
  /\ timer \in {"off", "armed"}
  /\ live \subseteq Target /\ forwarders \subseteq Target /\ inbox \subseteq Target

\* The tables never show rows of another cluster, nor of an earlier visit to
\* the same one, whatever cancelled forwarders still send.
RowsCurrent == rows \subseteq {focus}

\* At most one set of watchers runs, and it is the one loop believes in.
OneLiveSet == live \subseteq {active}

\* "An older set cannot start or persist its context after a newer request is
\* accepted": a set is started only for the newest accepted target, and never
\* for one older than the set it replaces.
NoStaleStart ==
  [][active' # active => active' = latest /\ (active # NoTarget => active'.gen > active.gen)]_vars

\* When the user stops switching, the watchers of the focused cluster run
\* (and no other); when the program ends, stop() returns and leaves none behind.
Converges ==
  <>[](IF stopCh \/ parentDone THEN lpc = "done" /\ live = {}
       ELSE active = focus /\ live = {focus})
=============================================================================
