--------------------------- MODULE ConfirmedAction ---------------------------
(***************************************************************************)
(* The dialogs that ask before they act: delete, scale and restart         *)
(* (internal/ui/delete.go, scale.go, restart.go), and describe, with their *)
(* request identities (modal_request.go), their cases in Update            *)
(* (internal/ui/app.go), the callbacks of runTUI (cmd/kubetin/main.go) and *)
(* what these do to the cluster (internal/cluster/mutate.go, auth.go and   *)
(* describe.go).                                                           *)
(*                                                                         *)
(* A dialog names an object by the row it was opened on; the row may be    *)
(* older than the cluster, where the name can meanwhile belong to another  *)
(* object.  Each confirmation is a command on a goroutine of its own: its  *)
(* result may come after the dialog was left, and after another was opened.*)
(***************************************************************************)
EXTENDS Integers, Sequences

CONSTANTS Names,        \* objects, each of which can be deleted and made again
          MaxIncarnation, \* bound on how often a name is made again
          MaxModal,     \* bound on the dialogs opened
          IntBits,      \* the width of a replica count (32)
          Typed         \* the numbers a user types into the scale dialog

ASSUME ActionAssumption ==
  /\ MaxIncarnation \in Nat /\ MaxModal \in Nat /\ IntBits \in Nat \ {0}
  /\ Typed \subseteq Nat

Modals == 1..MaxModal
Kinds == {"delete", "scale", "restart", "describe"}
Mutations == Kinds \ {"describe"}

VARIABLES
  shownUids,     \* the uid the tables show for each name
  live,     \* the cluster: each name's uid (0: none) and resource version
  dialogs,  \* deleteConfirm, scaleConfirm, restartConfirm and describe
  modals,   \* each request and its command
  stoppedModals,  \* requests whose context was cancelled
  opened,   \* the last request made
  visit,    \* m.focusGeneration
  toast,    \* the footer: the request it tells of, and what it says
  done      \* history: the uids each request acted on, act after act

actVars == <<shownUids, live, dialogs, modals, stoppedModals, opened, visit, toast, done>>

NoDialog == [request |-> 0, open |-> FALSE, pending |-> FALSE, name |-> "", uid |-> 0,
             revealed |-> FALSE, text |-> "none"]
NoModal == [kind |-> "none", name |-> "", uid |-> 0, arg |-> 0, visit |-> 0, phase |-> "none",
            seen |-> 0, answer |-> "none"]

ActInit ==
  /\ shownUids = [n \in Names |-> 1]
  /\ live = [n \in Names |-> [uid |-> 1, version |-> 0]]
  /\ dialogs = [k \in Kinds |-> NoDialog]
  /\ modals = [r \in Modals |-> NoModal]
  /\ stoppedModals = {} /\ opened = 0 /\ visit = 0
  /\ toast = [request |-> 0, ok |-> FALSE]
  /\ done = [r \in Modals |-> <<>>]

-----------------------------------------------------------------------------
(* The user.  An open dialog takes every key.                              *)

AllClosed == \A k \in Kinds : ~dialogs[k].open

\* int32(n)
ToInt32(n) ==
  LET r == n % (2 ^ IntBits) IN IF r >= 2 ^ (IntBits - 1) THEN r - 2 ^ IntBits ELSE r

\* request.stop() of dialog k.
StopRequest(k) == stoppedModals \cup ({dialogs[k].request} \ {0})

\* newModalRequest; a describe is its own confirmation.
NewModal(k, n, uid, reveal) ==
  /\ opened < MaxModal
  /\ opened' = opened + 1
  /\ stoppedModals' = StopRequest(k)
  /\ dialogs' = [dialogs EXCEPT ![k] = [NoDialog EXCEPT
                   !.request = opened', !.open = TRUE, !.pending = (k = "describe"),
                   !.name = n, !.uid = uid, !.revealed = (reveal = 1)]]
  /\ modals' = [modals EXCEPT ![opened'] = [NoModal EXCEPT
                   !.kind = k, !.name = n, !.uid = uid, !.arg = reveal, !.visit = visit,
                   !.phase = IF k = "describe" THEN "queued" ELSE "asking"]]
  /\ UNCHANGED <<shownUids, live, visit, toast, done>>

\* openDeleteConfirm, openScaleConfirm, openRestartConfirm, openDescribe.
OpenDialog(k, n) == AllClosed /\ shownUids[n] # 0 /\ NewModal(k, n, shownUids[n], 0)

\* Y in the describe of a Secret: again, with the values.
Reveal ==
  /\ dialogs["describe"].open
  /\ NewModal("describe", dialogs["describe"].name, dialogs["describe"].uid, 1)

\* enter (y): the name was typed again, or a number that is not the current size.
ConfirmAction(k, typed) ==
  /\ k \in Mutations /\ dialogs[k].open /\ ~dialogs[k].pending
  /\ dialogs' = [dialogs EXCEPT ![k].pending = TRUE]
  /\ modals' = [modals EXCEPT ![dialogs[k].request].phase = "queued",
                              ![dialogs[k].request].arg = ToInt32(typed)]
  /\ UNCHANGED <<shownUids, live, stoppedModals, opened, visit, toast, done>>

\* esc, also while the command is pending; describe forgets what it showed.
EscapeDialog(k) ==
  /\ dialogs[k].open
  /\ stoppedModals' = StopRequest(k)
  /\ dialogs' = [dialogs EXCEPT ![k] = IF k = "describe" THEN NoDialog
                                       ELSE [@ EXCEPT !.open = FALSE, !.pending = FALSE]]
  /\ UNCHANGED <<shownUids, live, modals, opened, visit, toast, done>>

\* clearFocusedState
LeaveDialogs ==
  /\ AllClosed /\ visit = 0
  /\ visit' = visit + 1
  /\ stoppedModals' = stoppedModals \cup ({dialogs[k].request : k \in Kinds} \ {0})
  /\ dialogs' = [k \in Kinds |-> NoDialog]
  /\ toast' = [request |-> 0, ok |-> FALSE]
  /\ UNCHANGED <<shownUids, live, modals, opened, done>>

-----------------------------------------------------------------------------
(* Other clients of the cluster, and the watch.                            *)

OthersReplace(n) ==
  /\ live[n].uid # 0 /\ live[n].uid < MaxIncarnation
  /\ live' = [live EXCEPT ![n] = [uid |-> @.uid + 1, version |-> 0]]
  /\ UNCHANGED <<shownUids, dialogs, modals, stoppedModals, opened, visit, toast, done>>

\* An autoscaler decides.
OthersScale(n) ==
  /\ live[n].uid # 0 /\ live[n].version = 0
  /\ live' = [live EXCEPT ![n].version = 1]
  /\ UNCHANGED <<shownUids, dialogs, modals, stoppedModals, opened, visit, toast, done>>

RowArrives(n) ==
  /\ shownUids[n] # live[n].uid
  /\ shownUids' = [shownUids EXCEPT ![n] = live[n].uid]
  /\ UNCHANGED <<live, dialogs, modals, stoppedModals, opened, visit, toast, done>>

-----------------------------------------------------------------------------
(* The commands.                                                           *)

Advance(r, phase, answer) ==
  /\ modals' = [modals EXCEPT ![r].phase = phase, ![r].answer = answer]
  /\ UNCHANGED <<shownUids, dialogs, stoppedModals, opened, visit, toast>>

\* focusedCmd and modalCmd find the focus or the request gone.
WasStopped(r) == modals[r].visit # visit \/ r \in stoppedModals

SkipCommand(r) ==
  /\ modals[r].phase = "queued" /\ WasStopped(r)
  /\ Advance(r, "over", "none") /\ UNCHANGED <<live, done>>

CallCommand(r) ==
  /\ modals[r].phase = "queued" /\ ~WasStopped(r)
  /\ Advance(r, "called", "none") /\ UNCHANGED <<live, done>>

Fail(r) ==
  /\ modals[r].phase \in {"called", "read"}
  /\ Advance(r, "answered", "err") /\ UNCHANGED <<live, done>>

\* The object a delete request is for: Preconditions.UID.
Doomed(r) == live[modals[r].name].uid # 0 /\ live[modals[r].name].uid = modals[r].uid

\* What a request does to an object: the answer to it may be lost.
Acts(r, n, lost) ==
  /\ done' = [done EXCEPT ![r] = Append(@, live[n].uid)]
  /\ Advance(r, "answered", IF lost THEN "err" ELSE "ok")

\* Supervisor.Delete
DeleteObject(r, lost) ==
  /\ modals[r].kind = "delete" /\ modals[r].phase = "called" /\ Doomed(r)
  /\ Acts(r, modals[r].name, lost)
  /\ live' = [live EXCEPT ![modals[r].name].uid = 0]

\* Supervisor.RolloutRestart: by name.
RestartObject(r, lost) ==
  /\ modals[r].kind = "restart" /\ modals[r].phase = "called"
  /\ live[modals[r].name].uid # 0
  /\ Acts(r, modals[r].name, lost)
  /\ UNCHANGED live

\* Supervisor.Scale reads the scale; a negative count is refused before.
ReadScale(r) ==
  /\ modals[r].kind = "scale" /\ modals[r].phase = "called" /\ modals[r].arg >= 0
  /\ live[modals[r].name].uid # 0
  /\ modals' = [modals EXCEPT ![r].phase = "read", ![r].uid = live[modals[r].name].uid,
                              ![r].seen = live[modals[r].name].version]
  /\ UNCHANGED <<shownUids, live, dialogs, stoppedModals, opened, visit, toast, done>>

Unchanged(r) ==
  live[modals[r].name].uid = modals[r].uid /\ live[modals[r].name].version = modals[r].seen

\* The update carries the version it read; the apiserver refuses another.
WriteScale(r, lost) ==
  /\ modals[r].kind = "scale" /\ modals[r].phase = "read" /\ Unchanged(r)
  /\ Acts(r, modals[r].name, lost)
  /\ UNCHANGED live

\* Supervisor.Describe; its context is the request's.
FetchObject(r) ==
  /\ modals[r].kind = "describe" /\ modals[r].phase = "called" /\ r \notin stoppedModals
  /\ live[modals[r].name].uid # 0
  /\ Advance(r, "answered", IF modals[r].arg = 1 THEN "clear" ELSE "redacted")
  /\ UNCHANGED <<live, done>>

-----------------------------------------------------------------------------
(* Update.                                                                 *)

\* A wrong TakesResult: any result of the kind closes a pending dialog.
TakesAnyResult(r) ==
  /\ modals[r].visit = visit
  /\ dialogs[modals[r].kind].open /\ dialogs[modals[r].kind].pending

\* The focus gate, then the guard of the result's case with accepts().
TakesResult(r) ==
  /\ modals[r].visit = visit
  /\ dialogs[modals[r].kind].open /\ dialogs[modals[r].kind].pending
  /\ dialogs[modals[r].kind].request = r /\ r \notin stoppedModals

DeliverResult(r) ==
  LET k == modals[r].kind IN
  /\ modals[r].phase = "answered"
  /\ modals' = [modals EXCEPT ![r].phase = "over"]
  /\ IF ~TakesResult(r) THEN UNCHANGED <<dialogs, stoppedModals, toast>>
     ELSE /\ stoppedModals' = StopRequest(k)
          /\ IF k = "describe"
             THEN /\ dialogs' = [dialogs EXCEPT ![k].pending = FALSE, ![k].text = modals[r].answer]
                  /\ UNCHANGED toast
             ELSE /\ dialogs' = [dialogs EXCEPT ![k].open = FALSE, ![k].pending = FALSE]
                  /\ toast' = [request |-> dialogs[k].request, ok |-> modals[r].answer = "ok"]
  /\ UNCHANGED <<shownUids, live, opened, visit, done>>

-----------------------------------------------------------------------------
ModalCommand(r) ==
  \/ SkipCommand(r) \/ CallCommand(r) \/ Fail(r) \/ ReadScale(r) \/ FetchObject(r)
  \/ \E lost \in BOOLEAN : DeleteObject(r, lost) \/ RestartObject(r, lost) \/ WriteScale(r, lost)

ActNext ==
  \/ \E k \in Kinds : EscapeDialog(k) \/ \E n \in Names : OpenDialog(k, n)
  \/ \E k \in Mutations, t \in Typed : ConfirmAction(k, t)
  \/ Reveal \/ LeaveDialogs
  \/ \E n \in Names : OthersReplace(n) \/ OthersScale(n) \/ RowArrives(n)
  \/ \E r \in Modals : ModalCommand(r) \/ DeliverResult(r)

ActSpec == ActInit /\ [][ActNext]_actVars

-----------------------------------------------------------------------------
\* Only the object in the dialog is deleted, not another of the same name.
OnlyNamedObjectDeleted ==
  \A r \in Modals : modals[r].kind = "delete" =>
    \A i \in DOMAIN done[r] : done[r][i] = modals[r].uid

\* Nothing happens unasked or twice: a request acts at most once, after it was
\* confirmed.
ActsOnce ==
  \A r \in Modals : /\ Len(done[r]) <= 1
                    /\ done[r] # <<>> => modals[r].phase \in {"answered", "over"}

\* The footer reports the request whose dialog it closed, and reports success
\* only of what happened.
ToastTruthful ==
  toast.ok => toast.request # 0 /\ done[toast.request] # <<>>

\* Values of a Secret are on the screen only in the dialog that says so.
CleartextAnnounced ==
  dialogs["describe"].text = "clear" => dialogs["describe"].revealed

\* An open dialog that waits still has the command it waits for.
PendingHasCommand ==
  \A k \in Kinds : dialogs[k].open /\ dialogs[k].pending =>
    /\ dialogs[k].request \notin stoppedModals
    /\ modals[dialogs[k].request].phase \in {"queued", "called", "read", "answered"}

ActionsAsConfirmed ==
  OnlyNamedObjectDeleted /\ ActsOnce /\ ToastTruthful /\ CleartextAnnounced /\ PendingHasCommand

-----------------------------------------------------------------------------
(* What makes ActionsAsConfirmed inductive.                                *)

Args == {0, 1} \cup {ToInt32(t) : t \in Typed}
Awaited == {"queued", "called", "read", "answered"}
Replies == {"none", "ok", "err", "clear", "redacted"}
Dialog == [request : Nat, open : BOOLEAN, pending : BOOLEAN, name : Names \cup {""}, uid : Nat,
           revealed : BOOLEAN, text : Replies]
Modal == [kind : Kinds \cup {"none"}, name : Names \cup {""}, uid : Nat, arg : Args, visit : Nat,
          phase : Awaited \cup {"none", "asking", "over"}, seen : {0, 1}, answer : Replies]

ActTypeOK ==
  /\ shownUids \in [Names -> Nat] /\ live \in [Names -> [uid : Nat, version : {0, 1}]]
  /\ dialogs \in [Kinds -> Dialog] /\ modals \in [Modals -> Modal]
  /\ opened \in 0..MaxModal /\ stoppedModals \subseteq 1..opened /\ visit \in Nat
  /\ toast \in [request : 0..opened, ok : BOOLEAN]
  /\ done \in [Modals -> Seq(Nat)]

\* A dialog and its request belong together: the kind and the promise of
\* secrecy are the same, an open dialog's request is of this visit and,
\* while it is needed, not stopped, and only one not yet asked for is waiting to be confirmed.
DialogOf(k) ==
  LET d == dialogs[k]
      m == modals[d.request]
  IN  /\ d.request \in 0..opened
      /\ d.request # 0 => m.kind = k /\ (k = "describe" => d.revealed = (m.arg = 1))
      /\ d.text = "clear" => d.revealed
      /\ d.open => d.request # 0 /\ m.visit = visit /\ d.name \in Names
      /\ d.open /\ d.request \in stoppedModals => k = "describe" /\ ~d.pending
      /\ d.open /\ d.pending => m.phase \in Awaited
      /\ d.open /\ ~d.pending /\ k # "describe" => m.phase = "asking"

\* What a request did: nothing before its answer, and one thing at most.
RequestOf(r) ==
  /\ IF r > opened THEN modals[r].kind = "none" /\ modals[r].phase = "none"
     ELSE modals[r].kind \in Kinds /\ modals[r].name \in Names
  /\ done[r] # <<>> => modals[r].phase \in {"answered", "over"}
  /\ Len(done[r]) <= 1
  /\ modals[r].kind = "delete" => \A i \in DOMAIN done[r] : done[r][i] = modals[r].uid
  /\ modals[r].answer = "ok" => done[r] # <<>>
  /\ modals[r].answer = "clear" => modals[r].kind = "describe" /\ modals[r].arg = 1

ActInv ==
  /\ ActTypeOK /\ ToastTruthful
  /\ \A k \in Kinds : DialogOf(k)
  /\ \A r \in Modals : RequestOf(r)
=============================================================================
