----------------------------- MODULE Actions_proof -----------------------------
(***************************************************************************)
(* Proofs about what the screens show and set going: ConfirmedAction and   *)
(* ActionMenu, the two ends of an action, and FleetView.  Whatever dialogs *)
(* are opened, left and opened again, and whenever their answers come, the *)
(* cluster is changed as it was confirmed and the screen says what         *)
(* happened; the menu that leads to them offers what the cluster was known *)
(* to allow, and keeps the highlight on its action; and the dashboards     *)
(* give back the filter they borrow and show each card its own detail.     *)
(* Tab comes to every cluster that is up.                                  *)
(* DrainSession: no drain runs without its dialog, which tells of it.      *)
(* PodTable: the table, counts and orders kept between draws are those of  *)
(* the rows there are, however they were repaired.                         *)
(* For any number of objects, dialogs, replica counts, visits, probes,     *)
(* clusters and pods.                                                      *)
(***************************************************************************)
EXTENDS ConfirmedAction, ActionMenu, FleetView, DrainSession, PodTable, Ordered_proof

LEMMA ActInitially == ActInit => ActInv
<1> SUFFICES ASSUME ActInit PROVE ActInv
  OBVIOUS
<1>1. NoDialog \in Dialog /\ NoModal \in Modal
  BY DEF NoDialog, NoModal, Dialog, Modal, Replies, Args, Awaited
<1>2. ActTypeOK
  BY <1>1, ActionAssumption DEF ActInit, ActTypeOK
<1>3. ToastTruthful
  BY DEF ActInit, ToastTruthful
<1>4. opened = 0 /\ 0 \in 0..opened
  BY DEF ActInit
<1>5. ASSUME NEW k \in Kinds PROVE DialogOf(k)
  <2>1. dialogs[k] = NoDialog
    BY DEF ActInit
  <2>2. dialogs[k].request = 0 /\ ~dialogs[k].open /\ dialogs[k].text = "none"
    <3>1. NoDialog.request = 0 /\ NoDialog.open = FALSE /\ NoDialog.text = "none"
      BY DEF NoDialog
    <3> QED BY <2>1, <3>1
  <2> QED BY <1>4, <2>2 DEF DialogOf
<1>7. ASSUME NEW r \in Modals PROVE RequestOf(r)
  <2>1. modals[r] = NoModal /\ done[r] = <<>> /\ r > opened
    BY <1>4, ActionAssumption DEF ActInit, Modals
  <2>2. /\ modals[r].kind = "none" /\ modals[r].phase = "none" /\ modals[r].answer = "none"
    <3>1. NoModal.kind = "none" /\ NoModal.phase = "none" /\ NoModal.answer = "none"
      BY DEF NoModal
    <3> QED BY <2>1, <3>1
  <2> QED BY <2>1, <2>2 DEF RequestOf
<1> QED BY <1>2, <1>3, <1>5, <1>7 DEF ActInv

\* What ActInv says of one dialog and of one request.
LEMMA DialogFacts ==
  ASSUME ActInv, NEW k \in Kinds
  PROVE  /\ dialogs[k] \in Dialog /\ DialogOf(k)
         /\ dialogs[k].request \in 0..opened /\ dialogs[k].request \in Nat
         /\ dialogs[k].request # 0 => dialogs[k].request \in Modals
         /\ dialogs[k].open \in BOOLEAN /\ dialogs[k].pending \in BOOLEAN
         /\ dialogs[k].revealed \in BOOLEAN
<1>1. dialogs[k] \in Dialog /\ DialogOf(k) /\ opened \in 0..MaxModal
  BY DEF ActInv, ActTypeOK
<1>2. dialogs[k].request \in 0..opened
  BY <1>1 DEF DialogOf
<1>3. dialogs[k].request \in Nat /\ (dialogs[k].request # 0 => dialogs[k].request \in Modals)
  BY <1>1, <1>2, ActionAssumption DEF Modals
<1>4. /\ dialogs[k].open \in BOOLEAN /\ dialogs[k].pending \in BOOLEAN
      /\ dialogs[k].revealed \in BOOLEAN
  BY <1>1 DEF Dialog
<1> QED BY <1>1, <1>2, <1>3, <1>4

LEMMA RequestFacts ==
  ASSUME ActInv, NEW r \in Modals
  PROVE  /\ modals[r] \in Modal /\ RequestOf(r) /\ r \in Nat \ {0} /\ opened \in Nat
         /\ done[r] \in Seq(Nat)
         /\ modals[r].phase # "none" => r <= opened
  BY ActionAssumption DEF ActInv, ActTypeOK, RequestOf, Modals

\* Others change the cluster, or a row arrives.
LEMMA OthersKeep ==
  ASSUME ActInv, live' \in [Names -> [uid : Nat, version : {0, 1}]], shownUids' \in [Names -> Nat],
         UNCHANGED <<dialogs, modals, stoppedModals, opened, visit, toast, done>>
  PROVE  ActInv'
<1>1. ActTypeOK' /\ ToastTruthful'
  BY DEF ActInv, ActTypeOK, ToastTruthful
<1>2. ASSUME NEW k \in Kinds PROVE DialogOf(k)'
  BY DEF ActInv, DialogOf
<1>3. ASSUME NEW r \in Modals PROVE RequestOf(r)'
  BY DEF ActInv, RequestOf
<1> QED BY <1>1, <1>2, <1>3 DEF ActInv

LEMMA ClusterSteps ==
  ASSUME ActInv, NEW n \in Names, OthersReplace(n) \/ OthersScale(n) \/ RowArrives(n)
  PROVE  ActInv'
<1>1. live \in [Names -> [uid : Nat, version : {0, 1}]] /\ shownUids \in [Names -> Nat]
  BY DEF ActInv, ActTypeOK
<1>2. live[n].uid \in Nat /\ live[n].uid + 1 \in Nat /\ live[n] \in [uid : Nat, version : {0, 1}]
  BY <1>1
<1>3. CASE OthersReplace(n)
  BY <1>1, <1>2, <1>3, OthersKeep DEF OthersReplace
<1>4. CASE OthersScale(n)
  <2>1. live' = [live EXCEPT ![n] = [@ EXCEPT !.version = 1]]
    BY <1>4 DEF OthersScale
  <2>2. [live[n] EXCEPT !.version = 1] \in [uid : Nat, version : {0, 1}]
    BY <1>2
  <2> QED BY <1>1, <1>4, <2>1, <2>2, OthersKeep DEF OthersScale
<1>5. CASE RowArrives(n)
  BY <1>1, <1>2, <1>5, OthersKeep DEF RowArrives
<1> QED BY <1>3, <1>4, <1>5

\* A request that was awaited goes on, with or without an effect.
LEMMA AdvanceKeeps ==
  ASSUME ActInv, NEW r \in Modals, NEW p \in Awaited \cup {"over"}, NEW a \in Replies,
         modals[r].phase \in {"queued", "called", "read"}, Advance(r, p, a),
         p = "over" => WasStopped(r),
         live' \in [Names -> [uid : Nat, version : {0, 1}]],
         \/ UNCHANGED done /\ a # "ok"
         \/ \E u \in Nat : /\ done' = [done EXCEPT ![r] = Append(@, u)] /\ p = "answered"
                           /\ modals[r].kind = "delete" => u = modals[r].uid,
         a = "clear" => modals[r].kind = "describe" /\ modals[r].arg = 1
  PROVE  ActInv'
<1>1. /\ UNCHANGED <<shownUids, dialogs, stoppedModals, opened, visit, toast>>
      /\ modals' = [modals EXCEPT ![r] = [@ EXCEPT !.phase = p, !.answer = a]]
  BY DEF Advance
<1>2. modals[r] \in Modal /\ done[r] = <<>> /\ r <= opened /\ modals \in [Modals -> Modal]
      /\ done \in [Modals -> Seq(Nat)]
  BY RequestFacts DEF RequestOf, ActInv, ActTypeOK
<1>3. /\ modals'[r] \in Modal /\ modals'[r].phase = p /\ modals'[r].answer = a
      /\ modals'[r].kind = modals[r].kind /\ modals'[r].name = modals[r].name
      /\ modals'[r].uid = modals[r].uid /\ modals'[r].arg = modals[r].arg
      /\ modals'[r].visit = modals[r].visit
      /\ \A q \in Modals : q # r => modals'[q] = modals[q]
      /\ modals' \in [Modals -> Modal]
  BY <1>1, <1>2 DEF Modal
<1>4. /\ done' \in [Modals -> Seq(Nat)] /\ \A q \in Modals : q # r => done'[q] = done[q]
      /\ \A q \in Modals : done[q] # <<>> => done'[q] # <<>>
      /\ done'[r] # <<>> => p = "answered"
      /\ Len(done'[r]) <= 1
      /\ modals[r].kind = "delete" => \A i \in DOMAIN done'[r] : done'[r][i] = modals[r].uid
      /\ a = "ok" => done'[r] # <<>>
  <2>1. \E acts \in Seq(Nat) :
           /\ done' = [done EXCEPT ![r] = acts] /\ Len(acts) <= 1
           /\ acts # <<>> => p = "answered"
           /\ modals[r].kind = "delete" => \A i \in DOMAIN acts : acts[i] = modals[r].uid
           /\ a = "ok" => acts # <<>>
    <3>1. CASE UNCHANGED done /\ a # "ok"
      BY <1>2, <3>1
    <3>2. ASSUME NEW u \in Nat, done' = [done EXCEPT ![r] = Append(@, u)], p = "answered",
                 modals[r].kind = "delete" => u = modals[r].uid
          PROVE  /\ <<u>> \in Seq(Nat) /\ Len(<<u>>) <= 1 /\ <<u>> # <<>>
                 /\ done' = [done EXCEPT ![r] = <<u>>]
                 /\ modals[r].kind = "delete" => \A i \in DOMAIN <<u>> : <<u>>[i] = modals[r].uid
      <4>1. Append(<<>>, u) = <<u>>
        OBVIOUS
      <4>2. <<u>> \in Seq(Nat) /\ Len(<<u>>) = 1 /\ DOMAIN <<u>> = {1} /\ <<u>>[1] = u
        OBVIOUS
      <4> QED BY <1>2, <3>2, <4>1, <4>2
    <3> QED BY <3>1, <3>2
  <2> QED BY <1>2, <2>1
<1>5. ActTypeOK'
  BY <1>1, <1>3, <1>4 DEF ActInv, ActTypeOK
<1>6. ToastTruthful'
  <2>1. toast.request \in 0..opened /\ opened \in 0..MaxModal
    BY DEF ActInv, ActTypeOK
  <2>2. toast.request # 0 => toast.request \in Modals
    BY <2>1, ActionAssumption DEF Modals
  <2> QED BY <1>1, <1>4, <2>2 DEF ActInv, ToastTruthful
<1>7. ASSUME NEW k \in Kinds PROVE DialogOf(k)'
  <2>1. DialogOf(k) /\ (dialogs[k].request # 0 => dialogs[k].request \in Modals)
    BY DialogFacts
  <2>2. CASE dialogs[k].request # r
    BY <1>1, <1>3, <2>1, <2>2 DEF DialogOf
  <2>3. CASE dialogs[k].request = r
    <3>1. r # 0
      BY RequestFacts
    <3>2. dialogs[k].open => dialogs[k].pending \/ k = "describe"
      BY <2>1, <2>3 DEF DialogOf
    <3>3. dialogs[k].open /\ dialogs[k].pending => p # "over"
      BY <2>1, <2>3 DEF DialogOf, WasStopped
    <3> QED BY <1>1, <1>3, <2>1, <2>3, <3>1, <3>2, <3>3 DEF DialogOf
  <2> QED BY <2>2, <2>3
<1>8. ASSUME NEW q \in Modals PROVE RequestOf(q)'
  <2>1. CASE q # r
    BY <1>1, <1>3, <1>4, <2>1, RequestFacts DEF RequestOf
  <2>2. CASE q = r
    BY <1>1, <1>2, <1>3, <1>4, <2>2, RequestFacts DEF RequestOf
  <2> QED BY <2>1, <2>2
<1> QED BY <1>5, <1>6, <1>7, <1>8 DEF ActInv

LEMMA CommandSteps == ASSUME ActInv, NEW r \in Modals, ModalCommand(r) PROVE ActInv'
<1>0. /\ modals[r] \in Modal /\ RequestOf(r) /\ modals[r].uid \in Nat
      /\ live \in [Names -> [uid : Nat, version : {0, 1}]]
      /\ modals[r].phase # "none" => modals[r].name \in Names
  BY RequestFacts DEF ActInv, ActTypeOK, Modal, RequestOf
<1>1. CASE SkipCommand(r)
  BY <1>0, <1>1, AdvanceKeeps DEF SkipCommand, Replies
<1>2. CASE CallCommand(r)
  BY <1>0, <1>2, AdvanceKeeps DEF CallCommand, Replies, Awaited
<1>3. CASE Fail(r)
  BY <1>0, <1>3, AdvanceKeeps DEF Fail, Replies, Awaited
<1>4. CASE FetchObject(r)
  BY <1>0, <1>4, AdvanceKeeps DEF FetchObject, Replies, Awaited
<1>5. ASSUME NEW lost \in BOOLEAN, NEW n \in Names, n = modals[r].name, Acts(r, n, lost),
             modals[r].phase \in {"called", "read"},
             modals[r].kind = "delete" => live[n].uid = modals[r].uid,
             live' \in [Names -> [uid : Nat, version : {0, 1}]]
      PROVE  ActInv'
  <2>1. live[n].uid \in Nat
    BY <1>0
  <2> DEFINE a == IF lost THEN "err" ELSE "ok"
  <2>2. a \in Replies /\ a # "clear"
    BY DEF Replies
  <2>3. Advance(r, "answered", a) /\ done' = [done EXCEPT ![r] = Append(@, live[n].uid)]
    BY <1>5 DEF Acts
  <2> HIDE DEF a
  <2> QED BY <1>5, <2>1, <2>2, <2>3, AdvanceKeeps DEF Awaited
<1>6. ASSUME NEW lost \in BOOLEAN, DeleteObject(r, lost) PROVE ActInv'
  <2>1. modals[r].name \in Names /\ live[modals[r].name] \in [uid : Nat, version : {0, 1}]
    BY <1>0, <1>6 DEF DeleteObject
  <2>2. live' = [live EXCEPT ![modals[r].name] = [@ EXCEPT !.uid = 0]]
    BY <1>6 DEF DeleteObject
  <2>3. [live[modals[r].name] EXCEPT !.uid = 0] \in [uid : Nat, version : {0, 1}]
    BY <2>1
  <2>4. live' \in [Names -> [uid : Nat, version : {0, 1}]]
    BY <1>0, <2>1, <2>2, <2>3
  <2> QED BY <1>5, <1>6, <2>1, <2>4 DEF DeleteObject, Doomed
<1>7. ASSUME NEW lost \in BOOLEAN, RestartObject(r, lost) \/ WriteScale(r, lost) PROVE ActInv'
  BY <1>0, <1>5, <1>7 DEF RestartObject, WriteScale
<1>8. CASE ReadScale(r)
  <2> DEFINE n == modals[r].name
  <2>1. /\ UNCHANGED <<shownUids, live, dialogs, stoppedModals, opened, visit, toast, done>>
        /\ modals' = [modals EXCEPT ![r] = [@ EXCEPT !.phase = "read", !.uid = live[n].uid,
                                                     !.seen = live[n].version]]
        /\ modals[r].phase = "called" /\ modals[r].kind = "scale" /\ n \in Names
    BY <1>0, <1>8 DEF ReadScale
  <2>2. live[n].uid \in Nat /\ live[n].version \in {0, 1} /\ modals \in [Modals -> Modal]
    BY <1>0, <2>1 DEF ActInv, ActTypeOK
  <2>3. /\ modals'[r] \in Modal /\ modals'[r].phase = "read" /\ modals'[r].answer = modals[r].answer
        /\ modals'[r].kind = modals[r].kind /\ modals'[r].name = modals[r].name
        /\ modals'[r].arg = modals[r].arg /\ modals'[r].visit = modals[r].visit
        /\ \A q \in Modals : q # r => modals'[q] = modals[q]
        /\ modals' \in [Modals -> Modal]
    BY <1>0, <2>1, <2>2 DEF Modal, Awaited
  <2>4. ActTypeOK' /\ ToastTruthful'
    BY <2>1, <2>3 DEF ActInv, ActTypeOK, ToastTruthful
  <2>5. ASSUME NEW k \in Kinds PROVE DialogOf(k)'
    <3>1. DialogOf(k) /\ (dialogs[k].request # 0 => dialogs[k].request \in Modals) /\ r # 0
      BY DialogFacts, RequestFacts
    <3>2. CASE dialogs[k].request # r
      BY <2>1, <2>3, <3>1, <3>2 DEF DialogOf
    <3>3. CASE dialogs[k].request = r
      BY <2>1, <2>3, <3>1, <3>3 DEF DialogOf, Awaited
    <3> QED BY <3>2, <3>3
  <2>6. ASSUME NEW q \in Modals PROVE RequestOf(q)'
    <3>1. CASE q # r
      BY <2>1, <2>3, <3>1, RequestFacts DEF RequestOf
    <3>2. CASE q = r
      BY <1>0, <2>1, <2>3, <3>2, RequestFacts DEF RequestOf
    <3> QED BY <3>1, <3>2
  <2> QED BY <2>4, <2>5, <2>6 DEF ActInv
<1> QED BY <1>1, <1>2, <1>3, <1>4, <1>6, <1>7, <1>8 DEF ModalCommand

\* A dialog is opened, or describe is asked for the values: its request is new,
\* and only the one it replaces is stopped.
LEMMA NewModalKeeps ==
  ASSUME ActInv, NEW k \in Kinds, NEW n \in Names, NEW u \in Nat, NEW reveal \in {0, 1},
         NewModal(k, n, u, reveal)
  PROVE  ActInv'
<1> DEFINE d == [NoDialog EXCEPT !.request = opened', !.open = TRUE, !.pending = (k = "describe"),
                   !.name = n, !.uid = u, !.revealed = (reveal = 1)]
           m == [NoModal EXCEPT !.kind = k, !.name = n, !.uid = u, !.arg = reveal, !.visit = visit,
                   !.phase = IF k = "describe" THEN "queued" ELSE "asking"]
<1>1. /\ opened < MaxModal /\ opened' = opened + 1
      /\ stoppedModals' = stoppedModals \cup ({dialogs[k].request} \ {0})
      /\ dialogs' = [dialogs EXCEPT ![k] = d] /\ modals' = [modals EXCEPT ![opened'] = m]
      /\ UNCHANGED <<shownUids, live, visit, toast, done>>
  BY DEF NewModal, StopRequest
<1>2. /\ opened \in Nat /\ opened' \in Modals /\ opened' \in Nat \ {0} /\ opened' \in 0..MaxModal
      /\ visit \in Nat /\ dialogs \in [Kinds -> Dialog] /\ modals \in [Modals -> Modal]
      /\ stoppedModals \subseteq 1..opened
  BY <1>1, ActionAssumption DEF ActInv, ActTypeOK, Modals
<1>3. /\ d \in Dialog /\ d.request = opened' /\ d.open /\ d.pending = (k = "describe")
      /\ d.name = n /\ d.revealed = (reveal = 1) /\ d.text = "none"
  BY <1>2 DEF NoDialog, Dialog, Replies
<1>4. /\ m \in Modal /\ m.kind = k /\ m.name = n /\ m.arg = reveal /\ m.visit = visit
      /\ m.phase = (IF k = "describe" THEN "queued" ELSE "asking") /\ m.answer = "none"
  BY <1>2 DEF NoModal, Modal, Replies, Args, Awaited
<1> HIDE DEF d, m
<1>5. /\ dialogs'[k] = d /\ modals'[opened'] = m
      /\ \A j \in Kinds : j # k => dialogs'[j] = dialogs[j]
      /\ \A q \in Modals : q # opened' => modals'[q] = modals[q]
      /\ dialogs' \in [Kinds -> Dialog] /\ modals' \in [Modals -> Modal]
  BY <1>1, <1>2, <1>3, <1>4
<1>6. stoppedModals' \subseteq 1..opened
  <2>1. dialogs[k].request \in 0..opened
    BY DialogFacts
  <2>2. {dialogs[k].request} \ {0} \subseteq 1..opened
    BY <1>2, <2>1
  <2> QED BY <1>1, <1>2, <2>2
<1>7. ActTypeOK'
  <2>1. toast.request \in 0..opened /\ toast \in [request : 0..opened, ok : BOOLEAN]
    BY DEF ActInv, ActTypeOK
  <2>2. toast \in [request : 0..opened', ok : BOOLEAN] /\ 1..opened \subseteq 1..opened'
    BY <1>1, <1>2, <2>1
  <2> QED BY <1>1, <1>2, <1>5, <1>6, <2>2 DEF ActInv, ActTypeOK
<1>8. ToastTruthful'
  BY <1>1 DEF ActInv, ToastTruthful
<1>9. ASSUME NEW j \in Kinds PROVE DialogOf(j)'
  <2>1. CASE j = k
    <3>1. opened' \notin stoppedModals' /\ opened' \in 0..opened'
      BY <1>1, <1>2, <1>6
    <3>2. /\ dialogs'[j] = d /\ d.request = opened' /\ modals'[d.request] = m /\ visit' = visit
      BY <1>1, <1>3, <1>5, <2>1
    <3>3. m.kind = j /\ d.revealed = (m.arg = 1) /\ d.text # "clear" /\ m.visit = visit
      BY <1>3, <1>4, <2>1
    <3>4. d.pending => m.phase \in Awaited
      BY <1>3, <1>4 DEF Awaited
    <3>5. ~d.pending => m.phase = "asking"
      BY <1>3, <1>4
    <3>6. d.request # 0 /\ d.name \in Names
      BY <1>2, <1>3
    <3> QED BY <3>1, <3>2, <3>3, <3>4, <3>5, <3>6 DEF DialogOf
  <2>2. CASE j # k
    <3>1. dialogs'[j] = dialogs[j] /\ dialogs[j].request \in 0..opened /\ DialogOf(j)
          /\ dialogs[j].request # opened'
          /\ (dialogs[j].request # 0 => dialogs[j].request \in Modals)
      BY <1>1, <1>2, <1>5, <2>2, DialogFacts
    <3>2. dialogs[j].request # 0 => dialogs[j].request # dialogs[k].request
      BY <2>2, <3>1, DialogFacts DEF DialogOf
    <3>3. dialogs[j].request # 0 => modals'[dialogs[j].request] = modals[dialogs[j].request]
      BY <1>5, <3>1
    <3> QED BY <1>1, <1>2, <3>1, <3>2, <3>3 DEF DialogOf
  <2> QED BY <2>1, <2>2
<1>10. ASSUME NEW q \in Modals PROVE RequestOf(q)'
  <2>1. CASE q = opened'
    <3>1. done[q] = <<>>
      BY <1>1, <1>2, <2>1, RequestFacts DEF RequestOf
    <3> QED BY <1>1, <1>2, <1>4, <1>5, <2>1, <3>1 DEF RequestOf
  <2>2. CASE q # opened'
    <3>1. q > opened' <=> q > opened
      BY <1>1, <1>2, <2>2 DEF Modals
    <3> QED BY <1>1, <1>5, <2>2, <3>1, RequestFacts DEF RequestOf
  <2> QED BY <2>1, <2>2
<1> QED BY <1>7, <1>8, <1>9, <1>10 DEF ActInv

LEMMA OpeningSteps ==
  ASSUME ActInv, Reveal \/ \E k \in Kinds, n \in Names : OpenDialog(k, n)
  PROVE  ActInv'
<1>1. CASE Reveal
  <2>1. "describe" \in Kinds
    BY DEF Kinds
  <2>2. dialogs["describe"].name \in Names /\ dialogs["describe"].uid \in Nat
    BY <1>1, <2>1, DialogFacts DEF Reveal, DialogOf, Dialog
  <2> QED BY <1>1, <2>1, <2>2, NewModalKeeps DEF Reveal
<1>2. ASSUME NEW k \in Kinds, NEW n \in Names, OpenDialog(k, n) PROVE ActInv'
  <2>1. shownUids[n] \in Nat
    BY DEF ActInv, ActTypeOK
  <2> QED BY <1>2, <2>1, NewModalKeeps DEF OpenDialog
<1> QED BY <1>1, <1>2

\* What was asked is confirmed, once: its command is on its way.
LEMMA ConfirmKeeps ==
  ASSUME ActInv, NEW k \in Mutations, NEW t \in Typed, ConfirmAction(k, t)
  PROVE  ActInv'
<1> DEFINE r == dialogs[k].request
           d == [dialogs[k] EXCEPT !.pending = TRUE]
           m == [modals[r] EXCEPT !.phase = "queued", !.arg = ToInt32(t)]
<1>1. /\ dialogs[k].open /\ ~dialogs[k].pending /\ k \in Kinds /\ k # "describe"
      /\ dialogs' = [dialogs EXCEPT ![k] = d]
      /\ UNCHANGED <<shownUids, live, stoppedModals, opened, visit, toast, done>>
  BY DEF ConfirmAction, Mutations
<1>2. /\ modals[r].phase = "asking" /\ modals[r].kind = k /\ r # 0 /\ r \in Modals
      /\ modals[r].visit = visit /\ dialogs[k].name \in Names /\ r \notin stoppedModals
      /\ dialogs[k].text = "clear" => dialogs[k].revealed
  BY <1>1, DialogFacts DEF DialogOf
<1>3. modals[r] \in Modal /\ modals \in [Modals -> Modal] /\ dialogs \in [Kinds -> Dialog]
      /\ dialogs[k] \in Dialog /\ done[r] = <<>> /\ r <= opened
  BY <1>1, <1>2, RequestFacts DEF ActInv, ActTypeOK, RequestOf
<1>4. modals' = [modals EXCEPT ![r] = m]
  BY <1>2, <1>3 DEF ConfirmAction
<1>5. /\ m \in Modal /\ m.phase = "queued" /\ m.kind = k /\ m.name = modals[r].name
      /\ m.visit = visit /\ m.answer = modals[r].answer /\ m.uid = modals[r].uid
  BY <1>2, <1>3 DEF Modal, Args, Awaited
<1>6. /\ d \in Dialog /\ d.request = r /\ d.open /\ d.pending /\ d.name = dialogs[k].name
      /\ d.revealed = dialogs[k].revealed /\ d.text = dialogs[k].text
  BY <1>1, <1>3 DEF Dialog
<1> HIDE DEF d, m
<1>7. /\ dialogs'[k] = d /\ modals'[r] = m
      /\ \A j \in Kinds : j # k => dialogs'[j] = dialogs[j]
      /\ \A q \in Modals : q # r => modals'[q] = modals[q]
      /\ dialogs' \in [Kinds -> Dialog] /\ modals' \in [Modals -> Modal]
  BY <1>1, <1>2, <1>3, <1>4, <1>5, <1>6
<1>8. ActTypeOK' /\ ToastTruthful'
  BY <1>1, <1>7 DEF ActInv, ActTypeOK, ToastTruthful
<1>9. ASSUME NEW j \in Kinds PROVE DialogOf(j)'
  <2>1. CASE j = k
    <3>1. r \in 0..opened
      BY <1>1, DialogFacts
    <3>2. dialogs'[j] = d /\ modals'[d.request] = m /\ j # "describe"
      BY <1>1, <1>6, <1>7, <2>1
    <3> QED BY <1>1, <1>2, <1>5, <1>6, <2>1, <3>1, <3>2 DEF DialogOf, Awaited
  <2>2. CASE j # k
    <3>1. DialogOf(j) /\ (dialogs[j].request # 0 => dialogs[j].request \in Modals)
      BY DialogFacts
    <3>2. dialogs[j].request # 0 => dialogs[j].request # r
      BY <1>2, <2>2, <3>1 DEF DialogOf
    <3> QED BY <1>1, <1>7, <2>2, <3>1, <3>2 DEF DialogOf
  <2> QED BY <2>1, <2>2
<1>10. ASSUME NEW q \in Modals PROVE RequestOf(q)'
  <2>1. CASE q = r
    BY <1>1, <1>2, <1>3, <1>5, <1>7, <2>1, RequestFacts DEF RequestOf
  <2>2. CASE q # r
    BY <1>1, <1>7, <2>2, RequestFacts DEF RequestOf
  <2> QED BY <2>1, <2>2
<1> QED BY <1>8, <1>9, <1>10 DEF ActInv

\* A dialog is escaped from: its request is stopped, whatever has become of it.
LEMMA EscapeKeeps == ASSUME ActInv, NEW k \in Kinds, EscapeDialog(k) PROVE ActInv'
<1> DEFINE d == IF k = "describe" THEN NoDialog
                ELSE [dialogs[k] EXCEPT !.open = FALSE, !.pending = FALSE]
<1>1. /\ stoppedModals' = stoppedModals \cup ({dialogs[k].request} \ {0})
      /\ dialogs' = [dialogs EXCEPT ![k] = d]
      /\ UNCHANGED <<shownUids, live, modals, opened, visit, toast, done>>
  BY DEF EscapeDialog, StopRequest
<1>2. /\ dialogs \in [Kinds -> Dialog] /\ dialogs[k] \in Dialog /\ opened \in Nat
      /\ dialogs[k].request \in 0..opened /\ DialogOf(k)
  BY DialogFacts DEF ActInv, ActTypeOK
<1>3. /\ d \in Dialog /\ ~d.open /\ d.request \in {0, dialogs[k].request}
      /\ d.request # 0 => d.revealed = dialogs[k].revealed /\ d.text = dialogs[k].text
      /\ d.request = 0 => (d.text = "clear" => d.revealed)
  <2>1. CASE k = "describe"
    BY <2>1 DEF NoDialog, Dialog, Replies
  <2>2. CASE k # "describe"
    <3>1. d.text = dialogs[k].text /\ d.revealed = dialogs[k].revealed /\ ~d.open
          /\ d.request = dialogs[k].request /\ d \in Dialog
      BY <1>2, <2>2 DEF Dialog
    <3> QED BY <1>2, <3>1 DEF DialogOf
  <2> QED BY <2>1, <2>2
<1> HIDE DEF d
<1>4. /\ dialogs'[k] = d /\ dialogs' \in [Kinds -> Dialog]
      /\ \A j \in Kinds : j # k => dialogs'[j] = dialogs[j]
  BY <1>1, <1>2, <1>3
<1>5. stoppedModals' \subseteq 1..opened
  <2>1. {dialogs[k].request} \ {0} \subseteq 1..opened
    BY <1>2
  <2> QED BY <1>1, <2>1 DEF ActInv, ActTypeOK
<1>6. ActTypeOK' /\ ToastTruthful'
  BY <1>1, <1>4, <1>5 DEF ActInv, ActTypeOK, ToastTruthful
<1>7. ASSUME NEW j \in Kinds PROVE DialogOf(j)'
  <2>1. CASE j = k
    BY <1>1, <1>2, <1>3, <1>4, <2>1 DEF DialogOf
  <2>2. CASE j # k
    <3>1. DialogOf(j) /\ (dialogs[j].request # 0 => dialogs[j].request # dialogs[k].request)
      BY <1>2, <2>2, DialogFacts DEF DialogOf
    <3> QED BY <1>1, <1>4, <2>2, <3>1 DEF DialogOf
  <2> QED BY <2>1, <2>2
<1>8. ASSUME NEW q \in Modals PROVE RequestOf(q)'
  BY <1>1, RequestFacts DEF RequestOf
<1> QED BY <1>6, <1>7, <1>8 DEF ActInv

\* The cluster is left: no dialog is open, and every request is stopped.
LEMMA LeaveKeeps == ASSUME ActInv, LeaveDialogs PROVE ActInv'
<1>1. /\ visit' = visit + 1 /\ dialogs' = [k \in Kinds |-> NoDialog]
      /\ stoppedModals' = stoppedModals \cup ({dialogs[k].request : k \in Kinds} \ {0})
      /\ toast' = [request |-> 0, ok |-> FALSE]
      /\ UNCHANGED <<shownUids, live, modals, opened, done>>
  BY DEF LeaveDialogs
<1>2. opened \in Nat /\ 0 \in 0..opened /\ \A k \in Kinds : dialogs[k].request \in 0..opened
  BY ActionAssumption, DialogFacts DEF ActInv, ActTypeOK
<1>3. stoppedModals' \subseteq 1..opened
  <2>1. {dialogs[k].request : k \in Kinds} \ {0} \subseteq 1..opened
    BY <1>2
  <2> QED BY <1>1, <2>1 DEF ActInv, ActTypeOK
<1>4. NoDialog \in Dialog /\ NoDialog.request = 0 /\ NoDialog.open = FALSE /\ NoDialog.text = "none"
  BY DEF NoDialog, Dialog, Replies
<1>5. ActTypeOK' /\ ToastTruthful'
  BY <1>1, <1>2, <1>3, <1>4 DEF ActInv, ActTypeOK, ToastTruthful
<1>6. ASSUME NEW j \in Kinds PROVE DialogOf(j)'
  BY <1>1, <1>2, <1>4 DEF DialogOf
<1>7. ASSUME NEW q \in Modals PROVE RequestOf(q)'
  BY <1>1, RequestFacts DEF RequestOf
<1> QED BY <1>5, <1>6, <1>7 DEF ActInv

\* An answer is delivered: the dialog that awaits it takes it, and the request is
\* over either way.
LEMMA DeliverKeeps == ASSUME ActInv, NEW r \in Modals, DeliverResult(r) PROVE ActInv'
<1> DEFINE k == modals[r].kind
           m == [modals[r] EXCEPT !.phase = "over"]
<1>1. /\ modals[r].phase = "answered" /\ modals' = [modals EXCEPT ![r] = m]
      /\ UNCHANGED <<shownUids, live, opened, visit, done>>
  BY DEF DeliverResult
<1>2. /\ modals[r] \in Modal /\ modals \in [Modals -> Modal] /\ r <= opened /\ r # 0 /\ k \in Kinds
      /\ RequestOf(r) /\ dialogs \in [Kinds -> Dialog] /\ opened \in 0..MaxModal /\ opened \in Nat
      /\ r \in 1..opened
  BY SMTT(30), <1>1, ActionAssumption, RequestFacts DEF ActInv, ActTypeOK, RequestOf, Modals
<1>3. /\ m \in Modal /\ m.phase = "over" /\ m.kind = k /\ m.name = modals[r].name
      /\ m.visit = modals[r].visit /\ m.answer = modals[r].answer /\ m.uid = modals[r].uid
      /\ m.arg = modals[r].arg
  BY <1>2 DEF Modal
<1> HIDE DEF m
<1>4. /\ modals'[r] = m /\ modals' \in [Modals -> Modal]
      /\ \A q \in Modals : q # r => modals'[q] = modals[q]
  BY <1>1, <1>2, <1>3
<1>5. ASSUME NEW q \in Modals PROVE RequestOf(q)'
  <2>1. CASE q = r
    BY <1>1, <1>2, <1>3, <1>4, <2>1 DEF RequestOf
  <2>2. CASE q # r
    BY <1>1, <1>4, <2>2, RequestFacts DEF RequestOf
  <2> QED BY <2>1, <2>2
<1>6. ASSUME NEW j \in Kinds, dialogs[j].request # r, dialogs'[j] = dialogs[j],
             stoppedModals' \subseteq stoppedModals \cup {r}
      PROVE  DialogOf(j)'
  <2>1. DialogOf(j) /\ (dialogs[j].request # 0 => dialogs[j].request \in Modals)
    BY DialogFacts
  <2> QED BY <1>1, <1>4, <1>6, <2>1 DEF DialogOf
<1>7. CASE ~TakesResult(r)
  <2>1. UNCHANGED <<dialogs, stoppedModals, toast>>
    BY <1>7 DEF DeliverResult
  <2>2. ActTypeOK' /\ ToastTruthful'
    BY <1>1, <1>4, <2>1 DEF ActInv, ActTypeOK, ToastTruthful
  <2>3. ASSUME NEW j \in Kinds PROVE DialogOf(j)'
    <3>1. CASE dialogs[j].request # r
      BY <1>6, <2>1, <3>1
    <3>2. CASE dialogs[j].request = r
      <4>1. DialogOf(j) /\ dialogs[j].pending \in BOOLEAN
        BY DialogFacts
      <4>2. k = j
        BY <1>2, <3>2, <4>1 DEF DialogOf
      <4>3. ~(dialogs[j].open /\ dialogs[j].pending)
        BY <1>7, <3>2, <4>1, <4>2 DEF TakesResult, DialogOf
      <4>4. ~(dialogs[j].open /\ ~dialogs[j].pending /\ j # "describe")
        BY <1>1, <3>2, <4>1 DEF DialogOf
      <4> QED BY <1>1, <1>2, <1>3, <1>4, <2>1, <3>2, <4>1, <4>3, <4>4 DEF DialogOf
    <3> QED BY <3>1, <3>2
  <2> QED BY <1>5, <2>2, <2>3 DEF ActInv
<1>8. CASE TakesResult(r)
  <2> DEFINE d == IF k = "describe"
                  THEN [dialogs[k] EXCEPT !.pending = FALSE, !.text = modals[r].answer]
                  ELSE [dialogs[k] EXCEPT !.open = FALSE, !.pending = FALSE]
  <2>1. dialogs[k].request = r
    BY <1>8 DEF TakesResult
  <2>2. /\ stoppedModals' = stoppedModals \cup {r}
        /\ dialogs' = [dialogs EXCEPT ![k] = d]
        /\ \/ toast' = toast
           \/ \E b \in BOOLEAN : /\ toast' = [request |-> r, ok |-> b]
                                 /\ b => modals[r].answer = "ok"
    <3>1. StopRequest(k) = stoppedModals \cup {r}
      BY <1>2, <2>1 DEF StopRequest
    <3>2. stoppedModals' = stoppedModals \cup {r} /\ dialogs' = [dialogs EXCEPT ![k] = d]
      BY <1>8, <2>1, <3>1 DEF DeliverResult
    <3>3. toast' = toast \/ toast' = [request |-> r, ok |-> modals[r].answer = "ok"]
      BY <1>8, <2>1 DEF DeliverResult
    <3>4. CASE modals[r].answer = "ok"
      <4>1. (modals[r].answer = "ok") = TRUE
        BY <3>4
      <4>2. toast' = toast \/ toast' = [request |-> r, ok |-> TRUE]
        BY <3>3, <4>1, Zenon
      <4> QED BY <3>2, <3>4, <4>2
    <3>5. CASE modals[r].answer # "ok"
      <4>1. (modals[r].answer = "ok") = FALSE
        BY <3>5
      <4>2. toast' = toast \/ toast' = [request |-> r, ok |-> FALSE]
        BY <3>3, <4>1, Zenon
      <4> QED BY <3>2, <4>2
    <3> QED BY <3>4, <3>5
  <2>3. DialogOf(k) /\ dialogs[k] \in Dialog
    BY <1>2, DialogFacts
  <2>4. modals[r].answer \in Replies
    BY <1>2 DEF Modal
  <2>5. /\ d \in Dialog /\ d.request = r /\ ~d.pending /\ d.revealed = dialogs[k].revealed
        /\ d.name = dialogs[k].name /\ (d.open => k = "describe" /\ dialogs[k].open)
        /\ d.text \in {dialogs[k].text, modals[r].answer}
        /\ d.text = "clear" => dialogs[k].text = "clear" \/ modals[r].answer = "clear"
    BY <2>1, <2>3, <2>4 DEF Dialog
  <2> HIDE DEF d
  <2>6. /\ dialogs'[k] = d /\ dialogs' \in [Kinds -> Dialog]
        /\ \A j \in Kinds : j # k => dialogs'[j] = dialogs[j]
    BY <1>2, <2>2, <2>5
  <2>7. ActTypeOK'
    <3>1. toast' \in [request : 0..opened', ok : BOOLEAN]
      BY <1>1, <1>2, <2>2 DEF ActInv, ActTypeOK
    <3>2. stoppedModals' \subseteq 1..opened'
      BY <1>1, <1>2, <2>2 DEF ActInv, ActTypeOK
    <3> QED BY <1>1, <1>4, <2>6, <3>1, <3>2 DEF ActInv, ActTypeOK
  <2>8. ToastTruthful'
    BY <1>1, <1>2, <2>2 DEF ActInv, ToastTruthful, RequestOf
  <2>9. ASSUME NEW j \in Kinds PROVE DialogOf(j)'
    <3>1. CASE j = k
      <4>1. d.text = "clear" => d.revealed
        <5>1. modals[r].answer = "clear" => k = "describe" /\ modals[r].arg = 1
          BY <1>2 DEF RequestOf
        <5> QED BY <1>2, <2>1, <2>3, <2>5, <5>1 DEF DialogOf
      <4>2. dialogs'[j] = d /\ d.request = r /\ modals'[d.request] = m
        BY <1>4, <2>5, <2>6, <3>1
      <4>3. /\ r \in 0..opened' /\ m.kind = j /\ (j = "describe" => d.revealed = (m.arg = 1))
        BY <1>1, <1>2, <1>3, <2>1, <2>3, <2>5, <3>1 DEF DialogOf
      <4>4. d.open => d.request # 0 /\ m.visit = visit' /\ d.name \in Names
        BY <1>1, <1>2, <1>3, <2>1, <2>3, <2>5 DEF DialogOf
      <4> QED BY <2>5, <3>1, <4>1, <4>2, <4>3, <4>4 DEF DialogOf
    <3>2. CASE j # k
      <4>1. dialogs[j].request # r
        BY <1>2, <3>2, DialogFacts DEF DialogOf
      <4> QED BY <1>6, <2>2, <2>6, <3>2, <4>1
    <3> QED BY <3>1, <3>2
  <2> QED BY <1>5, <2>7, <2>8, <2>9 DEF ActInv
<1> QED BY <1>7, <1>8

LEMMA ActStep == ASSUME ActInv, [ActNext]_actVars PROVE ActInv'
<1>1. CASE UNCHANGED actVars
  BY <1>1, OthersKeep DEF actVars, ActInv, ActTypeOK
<1> QED
  BY <1>1, ClusterSteps, CommandSteps, OpeningSteps, ConfirmKeeps, EscapeKeeps, LeaveKeeps,
     DeliverKeeps DEF ActNext

\* Dialogs and requests belong together, and each request has done what its
\* phase allows.
THEOREM ActInvariance == ActSpec => []ActInv
<1>1. ActInit => ActInv
  BY ActInitially
<1>2. ActInv /\ [ActNext]_actVars => ActInv'
  BY ActStep
<1> QED BY <1>1, <1>2, PTL DEF ActSpec

\* A name deleted is the object the dialog showed, nothing is done twice or
\* unasked, a success is told only of what happened, a Secret's values are shown
\* only under their warning, and no dialog waits for a command that is not there.
THEOREM ActsAsConfirmed == ActSpec => []ActionsAsConfirmed
<1>1. ASSUME ActInv PROVE ActionsAsConfirmed
  <2>1. OnlyNamedObjectDeleted /\ ToastTruthful
    BY <1>1 DEF ActInv, RequestOf, OnlyNamedObjectDeleted
  <2>3. ActsOnce
    BY <1>1 DEF ActInv, RequestOf, ActsOnce
  <2>4. CleartextAnnounced
    BY <1>1 DEF ActInv, DialogOf, CleartextAnnounced, Kinds
  <2>5. PendingHasCommand
    BY <1>1 DEF ActInv, DialogOf, PendingHasCommand, Awaited
  <2> QED BY <2>1, <2>3, <2>4, <2>5 DEF ActionsAsConfirmed
<1> QED BY <1>1, ActInvariance, PTL

-----------------------------------------------------------------------------
(* The action menu.  The cursor is moved to a first or a last entry of     *)
(* some kind: there is one.                                                *)

\* Every kind has an action, and those of a node are five.
LEMMA SomeAction ==
  ASSUME NEW kind
  PROVE  /\ Len(ActionsFor(kind)) \in Nat \ {0}
         /\ DOMAIN ActionsFor(kind) = 1..Len(ActionsFor(kind))
<1>1. Len(ActionsFor(kind)) \in Nat \ {0}
  BY DEF ActionsFor
<1>2. CASE kind = "Pod"
  BY <1>2 DEF ActionsFor
<1>3. CASE kind = "Deployment"
  <2>1. ActionsFor(kind)
          = <<"Dashboard", "Describe", "Scale", "Restart", "Logs", "Events", "Delete">>
    BY <1>3 DEF ActionsFor
  <2> QED BY <2>1
<1>4. CASE kind = "Node"
  BY <1>4 DEF ActionsFor
<1>5. CASE kind \in {"Service", "Ingress"}
  <2>1. ActionsFor(kind) = <<"Describe", "Events", "Delete">>
    BY <1>5 DEF ActionsFor
  <2> QED BY <2>1
<1>6. CASE kind \in {"Namespace", "Project"}
  BY <1>6 DEF ActionsFor
<1>7. CASE kind \notin {"Pod", "Deployment", "Node", "Service", "Ingress", "Namespace", "Project"}
  <2>1. ActionsFor(kind) = <<"Describe">>
    BY <1>7 DEF ActionsFor
  <2> QED BY <2>1
<1> QED BY <1>1, <1>2, <1>3, <1>4, <1>5, <1>6, <1>7

\* A sequence of two or more stays one of its elements when one is removed.
LEMMA OneRemoved ==
  ASSUME NEW S, NEW s \in Seq(S), NEW i \in 1..Len(s), Len(s) >= 2
  PROVE  /\ RemoveAt(s, i) \in Seq(S) /\ Len(RemoveAt(s, i)) = Len(s) - 1
         /\ Range(RemoveAt(s, i)) \subseteq Range(s)
<1> DEFINE b == SubSeq(s, 1, i - 1)
           e == SubSeq(s, i + 1, Len(s))
<1>1. /\ b \in Seq(S) /\ Len(b) = i - 1 /\ \A j \in 1..(i - 1) : b[j] = s[j]
  OBVIOUS
<1>2. /\ e \in Seq(S) /\ Len(e) = Len(s) - i /\ \A j \in 1..(Len(s) - i) : e[j] = s[i + j]
  OBVIOUS
<1> DEFINE c == b \o e
<1>3. RemoveAt(s, i) = c
  BY DEF RemoveAt
<1> HIDE DEF b, e
<1>4. /\ c \in Seq(S) /\ Len(c) = Len(s) - 1
      /\ \A j \in 1..(Len(s) - 1) : c[j] = IF j < i THEN b[j] ELSE e[j - (i - 1)]
  BY <1>1, <1>2, SMTT(30)
<1> HIDE DEF c
<1>5. ASSUME NEW j \in 1..(Len(s) - 1)
      PROVE  \E q \in 1..Len(s) : c[j] = s[q]
  <2>1. CASE j < i
    <3>1. j \in 1..(i - 1) /\ j \in 1..Len(s)
      BY <2>1
    <3>2. c[j] = b[j]
      BY <1>4, <2>1
    <3>3. b[j] = s[j]
      BY <1>1, <3>1
    <3> QED BY <3>1, <3>2, <3>3
  <2>2. CASE j >= i
    <3> DEFINE k == j - (i - 1)
    <3>1. k \in 1..(Len(s) - i) /\ i + k \in 1..Len(s)
      BY <2>2
    <3>2. c[j] = e[k]
      BY <1>4, <2>2
    <3> HIDE DEF k
    <3>3. e[k] = s[i + k]
      BY <1>2, <3>1
    <3> QED BY <3>1, <3>2, <3>3
  <2> QED BY <2>1, <2>2
<1>6. DOMAIN RemoveAt(s, i) = 1..(Len(s) - 1) /\ DOMAIN s = 1..Len(s)
  BY <1>3, <1>4
<1>7. Range(RemoveAt(s, i)) \subseteq Range(s)
  BY <1>3, <1>5, <1>6 DEF Range
<1> QED BY <1>3, <1>4, <1>7

\* The entries of a menu: at least one, each an action of the kind with what is
\* known of it.
LEMMA Entries ==
  ASSUME NEW kind, NEW known, nodeRow \in {"open", "cordoned", "gone"}
  PROVE  LET options == ClassifiedActions(kind, known)
         IN  /\ \E n \in 1..Len(ActionsFor(kind)) : DOMAIN options = 1..n
             /\ \A i \in DOMAIN options :
                  /\ options[i].action \in Range(ActionsFor(kind))
                  /\ options[i].status = Status(options[i].action, kind, known)
<1> DEFINE all == ActionsFor(kind)
           idle == IF nodeRow = "open" THEN "Uncordon" ELSE "Cordon"
           chosen == IF kind # "Node" \/ nodeRow = "gone" THEN all
                     ELSE RemoveAt(all, CHOOSE i \in DOMAIN all : all[i] = idle)
<1>1. /\ Len(chosen) \in 1..Len(all) /\ DOMAIN chosen = 1..Len(chosen)
      /\ Range(chosen) \subseteq Range(all)
  <2>1. CASE kind # "Node" \/ nodeRow = "gone"
    BY <2>1, SomeAction
  <2>2. CASE kind = "Node" /\ nodeRow # "gone"
    <3> DEFINE i == CHOOSE j \in DOMAIN all : all[j] = idle
    <3>1. all = <<"Describe", "Events", "Cordon", "Uncordon", "Drain">>
      BY <2>2 DEF ActionsFor
    <3>2. \E j \in DOMAIN all : all[j] = idle
      <4>1. 3 \in DOMAIN all /\ 4 \in DOMAIN all /\ all[3] = "Cordon" /\ all[4] = "Uncordon"
        BY <3>1
      <4> QED BY <4>1
    <3>3. i \in DOMAIN all
      BY <3>2
    <3> DEFINE S == {"Describe", "Events", "Cordon", "Uncordon", "Drain"}
    <3>4. Len(all) = 5 /\ DOMAIN all = 1..5 /\ all \in Seq(S)
      BY <3>1
    <3>5. chosen = RemoveAt(all, i)
      BY <2>2
    <3>8. i \in 1..Len(all) /\ Len(all) >= 2
      BY <3>3, <3>4
    <3> HIDE DEF i, all, S, chosen
    <3>6. /\ RemoveAt(all, i) \in Seq(S) /\ Len(RemoveAt(all, i)) = Len(all) - 1
          /\ Range(RemoveAt(all, i)) \subseteq Range(all)
      <4>1. all \in Seq(S)
        BY <3>4
      <4> QED BY <3>8, <4>1, OneRemoved
    <3>7. DOMAIN RemoveAt(all, i) = 1..4 /\ Len(RemoveAt(all, i)) = 4
      BY <3>4, <3>6
    <3> QED BY <3>4, <3>5, <3>6, <3>7
  <2> QED BY <2>1, <2>2
<1>2. ClassifiedActions(kind, known)
        = [i \in DOMAIN chosen |-> [action |-> chosen[i], status |-> Status(chosen[i], kind, known)]]
  BY DEF ClassifiedActions
<1> HIDE DEF chosen
<1>3. DOMAIN ClassifiedActions(kind, known) = 1..Len(chosen)
  BY <1>1, <1>2
<1>4. ASSUME NEW i \in DOMAIN ClassifiedActions(kind, known)
      PROVE  /\ ClassifiedActions(kind, known)[i].action = chosen[i]
             /\ ClassifiedActions(kind, known)[i].status = Status(chosen[i], kind, known)
             /\ chosen[i] \in Range(all)
  BY <1>1, <1>2 DEF Range
<1> QED BY <1>1, <1>3, <1>4

LEMMA MenuInitially == MenuInit => MenuInv
<1> SUFFICES ASSUME MenuInit PROVE MenuInv
  OBVIOUS
<1>1. /\ menu = NoMenu /\ ~menu.open /\ ran.answer = "allowed" /\ inFlight = {} /\ checks = {}
      /\ menu = [open |-> menu.open, kind |-> menu.kind, options |-> menu.options,
                 cursor |-> menu.cursor]
  BY DEF MenuInit, NoMenu, NothingRan
<1>2. MenuTruthful
  BY <1>1 DEF MenuTruthful, ChecksAccounted, MenuCurrent, RanAllowed
<1> QED BY <1>1, <1>2 DEF MenuInit, MenuInv

\* What the entries of a kind need to know.
LEMMA KeysOfKind ==
  ASSUME NEW kind \in MenuKinds
  PROVE  /\ KindKeys(kind) \subseteq Keys
         /\ \A a \in Range(ActionsFor(kind)) : a \notin Ungated => Key(a, kind) \in KindKeys(kind)
  BY DEF KindKeys, Keys, Range

\* Opening a menu or the overview asks for what is neither known nor asked.
LEMMA DispatchKeeps ==
  ASSUME MenuInv, NEW keys \in SUBSET Keys, Dispatch(keys), UNCHANGED <<answers, visits>>
  PROVE  /\ inFlight' \subseteq Keys /\ ChecksAccounted'
         /\ checks' \subseteq [visit : 0..visits', key : Keys]
         /\ \A key \in keys : answers[key] = "unknown" => key \in inFlight'
<1> DEFINE asked == {[visit |-> visits, key |-> key] : key \in Missing(keys)}
<1>1. /\ inFlight' = inFlight \cup Missing(keys) /\ checks' = checks \cup asked
      /\ Missing(keys) \subseteq Keys
      /\ \A key \in Missing(keys) : answers[key] = "unknown" /\ key \notin inFlight
  BY DEF Dispatch, Missing
<1>2. /\ inFlight \subseteq Keys /\ visits \in Nat /\ ChecksAccounted
      /\ checks \subseteq [visit : 0..visits, key : Keys]
  BY DEF MenuInv, MenuTruthful
<1>3. asked = {[visit |-> visits, key |-> key] : key \in Missing(keys)}
  OBVIOUS
<1> HIDE DEF asked
<1>4. /\ asked \subseteq [visit : 0..visits, key : Keys]
      /\ \A c \in asked : c.visit = visits /\ c.key \in Missing(keys)
      /\ \A key \in Missing(keys) : \E c \in asked : c.key = key
  <2>1. visits \in 0..visits
    BY <1>2
  <2>2. \A key \in Missing(keys) :
          [visit |-> visits, key |-> key] \in
            [visit : 0..visits, key : Keys]
    BY <1>1, <2>1
  <2>3. asked \subseteq [visit : 0..visits, key : Keys]
    BY <1>3, <2>2
  <2>4. \A c \in asked : c.visit = visits /\ c.key \in Missing(keys)
    BY <1>3
  <2>5. ASSUME NEW key \in Missing(keys) PROVE \E c \in asked : c.key = key
    <3>1. [visit |-> visits, key |-> key] \in asked
      BY <1>3
    <3> QED BY <3>1
  <2> QED BY <2>3, <2>4, <2>5
<1>5. {c.key : c \in {d \in checks' : d.visit = visits}} = inFlight \cup Missing(keys)
  BY <1>1, <1>2, <1>4 DEF ChecksAccounted
<1>6. ChecksAccounted'
  BY <1>1, <1>2, <1>4, <1>5 DEF ChecksAccounted
<1> QED BY <1>1, <1>2, <1>4, <1>6 DEF Missing

\* An answer, or a cluster's end, accounts for the check it settles.
LEMMA AnswerKeeps ==
  ASSUME MenuInv, NEW check \in checks, NEW answer \in {"allowed", "denied"}, Answer(check, answer)
  PROVE  /\ answers' \in [Keys -> {"unknown", "allowed", "denied"}] /\ inFlight' \subseteq Keys
         /\ checks' \subseteq checks /\ ChecksAccounted'
         /\ \A key \in Keys : answers'[key] = answers[key] \/ answers[key] = "unknown"
         /\ \A key \in Keys : answers'[key] = "unknown" =>
                                answers[key] = "unknown" /\ (key \in inFlight => key \in inFlight')
<1>1. /\ checks' = checks \ {check} /\ visits' = visits /\ ChecksAccounted
      /\ answers \in [Keys -> {"unknown", "allowed", "denied"}] /\ inFlight \subseteq Keys
      /\ checks \subseteq [visit : 0..visits, key : Keys]
  BY DEF MenuInv, MenuTruthful, Answer
<1>2. CASE check.visit # visits
  <2>1. UNCHANGED <<answers, inFlight>>
    BY <1>2 DEF Answer
  <2>2. {c \in checks' : c.visit = visits} = {c \in checks : c.visit = visits}
    BY <1>1, <1>2
  <2>3. ChecksAccounted'
    BY <1>1, <2>1, <2>2 DEF ChecksAccounted
  <2> QED BY <1>1, <2>1, <2>3
<1>3. CASE check.visit = visits
  <2>1. inFlight' = inFlight \ {check.key} /\ answers' = [answers EXCEPT ![check.key] = answer]
    BY <1>3 DEF Answer
  <2>2. check.key \in inFlight /\ check.key \in Keys /\ answers[check.key] = "unknown"
    BY <1>1, <1>3 DEF ChecksAccounted
  <2>3. \A key \in Keys : answers'[key] = IF key = check.key THEN answer ELSE answers[key]
    BY <1>1, <2>1
  <2>4. ASSUME NEW c \in checks, c.visit = visits, c.key = check.key PROVE c = check
    <3>1. c \in [visit : 0..visits, key : Keys] /\ check \in [visit : 0..visits, key : Keys]
      BY <1>1
    <3> QED BY <1>3, <2>4, <3>1
  <2>5. {c.key : c \in {d \in checks' : d.visit = visits}} = inFlight \ {check.key}
    <3>1. \A c \in checks' : c \in checks /\ (c.visit = visits => c.key \in inFlight /\ c.key # check.key)
      BY <1>1, <2>4 DEF ChecksAccounted
    <3>2. \A key \in inFlight \ {check.key} : \E c \in checks' : c.visit = visits /\ c.key = key
      BY <1>1 DEF ChecksAccounted
    <3> QED BY <3>1, <3>2
  <2>6. ChecksAccounted'
    BY <1>1, <2>1, <2>3, <2>5 DEF ChecksAccounted
  <2>7. answers' \in [Keys -> {"unknown", "allowed", "denied"}]
    BY <1>1, <2>1, <2>2
  <2> QED BY <1>1, <2>1, <2>2, <2>3, <2>6, <2>7
<1> QED BY <1>2, <1>3

\* A menu whose entries are classified on what is known, while the rest of what
\* its kind needs is asked for, is current.
LEMMA MenuIsCurrent ==
  ASSUME NEW kind \in MenuKinds, nodeRow \in {"open", "cordoned", "gone"},
         NEW known \in [Keys -> {"unknown", "allowed", "denied"}], NEW flight,
         \A key \in KindKeys(kind) : known[key] = "unknown" => key \in flight
  PROVE  LET options == ClassifiedActions(kind, known)
         IN  /\ \E n \in 1..Len(ActionsFor(kind)) : DOMAIN options = 1..n
             /\ {options[i].action : i \in DOMAIN options} \subseteq Range(ActionsFor(kind))
             /\ \A i \in DOMAIN options :
                  /\ options[i].status = Status(options[i].action, kind, known)
                  /\ options[i].status = "pending" => Key(options[i].action, kind) \in flight
<1> DEFINE options == ClassifiedActions(kind, known)
<1>1. /\ \E n \in 1..Len(ActionsFor(kind)) : DOMAIN options = 1..n
      /\ \A i \in DOMAIN options :
           /\ options[i].action \in Range(ActionsFor(kind))
           /\ options[i].status = Status(options[i].action, kind, known)
  BY Entries
<1> HIDE DEF options
<1>2. ASSUME NEW i \in DOMAIN options, options[i].status = "pending"
      PROVE  Key(options[i].action, kind) \in flight
  <2> DEFINE a == options[i].action
  <2>1. a \in Range(ActionsFor(kind)) /\ Status(a, kind, known) = "pending"
    BY <1>1, <1>2
  <2>2. a \notin Ungated
    BY <2>1 DEF Status
  <2>3. Key(a, kind) \in KindKeys(kind) /\ Key(a, kind) \in Keys
    BY <2>1, <2>2, KeysOfKind
  <2>4. known[Key(a, kind)] = "unknown"
    BY <2>1, <2>2, <2>3 DEF Status
  <2> QED BY <2>3, <2>4
<1> QED BY <1>1, <1>2 DEF options

\* The highlight is put on an entry.
LEMMA HighlightOnEntry ==
  ASSUME NEW options, NEW n \in Nat \ {0}, DOMAIN options = 1..n
  PROVE  /\ FirstSelectable(options) \in DOMAIN options
         /\ Reanchored(options) \in DOMAIN options
<1> DEFINE allowed == {i \in DOMAIN options : options[i].status = "allowed"}
<1>1. FirstSelectable(options) \in DOMAIN options
  <2>1. CASE allowed = {}
    BY <2>1 DEF FirstSelectable
  <2>2. CASE allowed # {}
    <3>1. \E i \in allowed : \A j \in allowed : i <= j
      <4>1. allowed \in SUBSET Nat
        OBVIOUS
      <4> QED BY <2>2, <4>1, LeastExists
    <3>2. (CHOOSE i \in allowed : \A j \in allowed : i <= j) \in allowed
      BY <3>1
    <3> QED BY <2>2, <3>2 DEF FirstSelectable
  <2> QED BY <2>1, <2>2
<1>2. Reanchored(options) \in DOMAIN options
  BY <1>1 DEF Reanchored
<1> QED BY <1>1, <1>2

\* The menu is open on a kind, its entries as classified.
LEMMA OpenKeeps == ASSUME MenuInv, NEW kind \in MenuKinds, OpenActionMenu(kind) PROVE MenuInv'
<1> DEFINE options == ClassifiedActions(kind, answers)
<1>1. /\ menu' = [open |-> TRUE, kind |-> kind, options |-> options, cursor |-> FirstSelectable(options)]
      /\ Dispatch(KindKeys(kind)) /\ UNCHANGED <<answers, overview, nodeRow, visits, ran>>
  BY DEF OpenActionMenu
<1>2. /\ nodeRow \in {"open", "cordoned", "gone"} /\ visits \in Nat /\ RanAllowed
      /\ answers \in [Keys -> {"unknown", "allowed", "denied"}]
  BY DEF MenuInv, MenuTruthful
<1>3. /\ inFlight' \subseteq Keys /\ ChecksAccounted'
      /\ checks' \subseteq [visit : 0..visits', key : Keys]
      /\ \A key \in KindKeys(kind) : answers[key] = "unknown" => key \in inFlight'
  BY <1>1, DispatchKeeps, KeysOfKind
<1>4. /\ \E n \in 1..Len(ActionsFor(kind)) : DOMAIN options = 1..n
      /\ {options[i].action : i \in DOMAIN options} \subseteq Range(ActionsFor(kind))
      /\ \A i \in DOMAIN options :
           /\ options[i].status = Status(options[i].action, kind, answers)
           /\ options[i].status = "pending" => Key(options[i].action, kind) \in inFlight'
  BY <1>2, <1>3, MenuIsCurrent
<1> HIDE DEF options
<1>5. FirstSelectable(options) \in DOMAIN options
  <2>1. Len(ActionsFor(kind)) \in Nat
    BY SomeAction
  <2>2. PICK n \in 1..Len(ActionsFor(kind)) : DOMAIN options = 1..n
    BY <1>4
  <2>3. n \in Nat \ {0}
    BY <2>1, <2>2
  <2> QED BY <2>2, <2>3, HighlightOnEntry
<1>6. /\ menu'.open /\ menu'.kind = kind /\ menu'.options = options
      /\ menu'.cursor = FirstSelectable(options)
      /\ menu' = [open |-> menu'.open, kind |-> menu'.kind, options |-> menu'.options,
                  cursor |-> menu'.cursor]
  BY <1>1
<1>7. MenuCurrent'
  BY <1>1, <1>4, <1>6 DEF MenuCurrent, Status
<1> QED
  BY <1>1, <1>2, <1>3, <1>4, <1>5, <1>6, <1>7 DEF MenuInv, MenuTruthful, RanAllowed

\* An answer finds its check, and reclassifies an open menu.
LEMMA AnswerKeepsMenu ==
  ASSUME MenuInv, NEW check \in checks, NEW answer \in {"allowed", "denied"}, Answer(check, answer)
  PROVE  MenuInv'
<1> DEFINE options == ClassifiedActions(menu.kind, answers')
<1>1. /\ UNCHANGED <<overview, nodeRow, visits, ran>>
      /\ \/ UNCHANGED <<answers, inFlight, menu>>
         \/ ~menu.open /\ menu' = menu
         \/ menu.open /\ menu' = [menu EXCEPT !.options = options, !.cursor = Reanchored(options)]
  BY DEF Answer
<1>2. /\ nodeRow \in {"open", "cordoned", "gone"} /\ visits \in Nat /\ RanAllowed /\ MenuCurrent
      /\ answers \in [Keys -> {"unknown", "allowed", "denied"}]
      /\ menu = [open |-> menu.open, kind |-> menu.kind, options |-> menu.options,
                 cursor |-> menu.cursor]
      /\ checks \subseteq [visit : 0..visits, key : Keys]
  BY DEF MenuInv, MenuTruthful
<1>3. /\ answers' \in [Keys -> {"unknown", "allowed", "denied"}] /\ inFlight' \subseteq Keys
      /\ checks' \subseteq checks /\ ChecksAccounted'
      /\ \A key \in Keys : answers'[key] = "unknown" =>
                             answers[key] = "unknown" /\ (key \in inFlight => key \in inFlight')
  BY AnswerKeeps
<1>4. CASE UNCHANGED <<answers, inFlight, menu>> \/ (~menu.open /\ menu' = menu)
  BY <1>1, <1>2, <1>3, <1>4 DEF MenuInv, MenuTruthful, MenuCurrent, RanAllowed, Status
<1>5. CASE menu.open /\ menu' = [menu EXCEPT !.options = options, !.cursor = Reanchored(options)]
  <2>1. /\ menu.kind \in MenuKinds
        /\ \A key \in KindKeys(menu.kind) : answers[key] = "unknown" => key \in inFlight
    BY <1>5 DEF MenuInv
  <2>2. \A key \in KindKeys(menu.kind) : answers'[key] = "unknown" => key \in inFlight'
    BY <1>3, <2>1, KeysOfKind
  <2>3. /\ \E n \in 1..Len(ActionsFor(menu.kind)) : DOMAIN options = 1..n
        /\ {options[i].action : i \in DOMAIN options} \subseteq Range(ActionsFor(menu.kind))
        /\ \A i \in DOMAIN options :
             /\ options[i].status = Status(options[i].action, menu.kind, answers')
             /\ options[i].status = "pending" => Key(options[i].action, menu.kind) \in inFlight'
    BY ZenonT(30), <1>2, <1>3, <2>1, <2>2, MenuIsCurrent
  <2> HIDE DEF options
  <2>4. Reanchored(options) \in DOMAIN options
    <3>1. Len(ActionsFor(menu.kind)) \in Nat
      BY SomeAction
    <3>2. PICK n \in 1..Len(ActionsFor(menu.kind)) : DOMAIN options = 1..n
      BY <2>3
    <3>3. n \in Nat \ {0}
      BY <3>1, <3>2
    <3> QED BY <3>2, <3>3, HighlightOnEntry
  <2>5. menu' = [open |-> menu.open, kind |-> menu.kind, options |-> options,
                 cursor |-> Reanchored(options)]
    BY <1>2, <1>5
  <2>6. /\ menu'.open /\ menu'.kind = menu.kind /\ menu'.options = options
        /\ menu'.cursor = Reanchored(options)
        /\ menu' = [open |-> menu'.open, kind |-> menu'.kind, options |-> menu'.options,
                    cursor |-> menu'.cursor]
    BY <1>5, <2>5
  <2>7. MenuCurrent'
    BY <2>3, <2>6 DEF MenuCurrent, Status
  <2> QED
    BY <1>1, <1>2, <1>3, <2>1, <2>2, <2>3, <2>4, <2>6, <2>7 DEF MenuInv, MenuTruthful, RanAllowed
<1> QED BY <1>1, <1>4, <1>5

\* The other keys leave what is known and asked as it is.
LEMMA MoveKeeps == ASSUME MenuInv, NEW below \in BOOLEAN, MoveMenu(below) PROVE MenuInv'
<1> DEFINE allowed == {i \in DOMAIN menu.options : menu.options[i].status = "allowed"}
           next == IF below THEN {i \in allowed : i > menu.cursor}
                   ELSE {i \in allowed : i < menu.cursor}
           c == CHOOSE i \in next : \A j \in next : IF below THEN i <= j ELSE i >= j
<1>1. /\ menu.open /\ next # {} /\ menu' = [menu EXCEPT !.cursor = c]
      /\ UNCHANGED <<answers, inFlight, checks, overview, nodeRow, visits, ran>>
  BY DEF MoveMenu
<1>2. /\ menu = [open |-> menu.open, kind |-> menu.kind, options |-> menu.options,
                 cursor |-> menu.cursor]
      /\ menu.kind \in MenuKinds
  BY <1>1 DEF MenuInv
<1>3. PICK n \in 1..Len(ActionsFor(menu.kind)) : DOMAIN menu.options = 1..n
  BY <1>1 DEF MenuInv
<1>4. n \in Nat /\ next \in SUBSET (1..n) /\ next \in SUBSET Nat
  BY <1>3, SomeAction
<1> HIDE DEF next
<1>5. \E i \in next : \A j \in next : IF below THEN i <= j ELSE i >= j
  <2>1. CASE below
    <3>1. \E i \in next : \A j \in next : i <= j
      BY <1>1, <1>4, LeastExists
    <3> QED BY <2>1, <3>1
  <2>2. CASE ~below
    <3>1. \E i \in next : \A j \in next : i >= j
      BY <1>1, <1>4, GreatestExists
    <3> QED BY <2>2, <3>1
  <2> QED BY <2>1, <2>2
<1>6. c \in next
  BY <1>5
<1>7. c \in DOMAIN menu.options
  BY <1>3, <1>4, <1>6
<1> HIDE DEF c
<1>8. menu' = [open |-> menu.open, kind |-> menu.kind, options |-> menu.options, cursor |-> c]
  BY <1>1, <1>2
<1>9. /\ menu'.open = menu.open /\ menu'.kind = menu.kind /\ menu'.options = menu.options
      /\ menu'.cursor = c
      /\ menu' = [open |-> menu'.open, kind |-> menu'.kind, options |-> menu'.options,
                  cursor |-> menu'.cursor]
  BY <1>8
<1>10. MenuTruthful'
  BY <1>1, <1>9 DEF MenuInv, MenuTruthful, ChecksAccounted, MenuCurrent, RanAllowed, Status
<1> QED BY <1>1, <1>7, <1>9, <1>10 DEF MenuInv

\* The menu is closed, what is known, asked and checked being what it was.
LEMMA ClosedMenu ==
  ASSUME MenuInv, menu' = NoMenu, RanAllowed', UNCHANGED <<answers, inFlight, checks, nodeRow, visits>>
  PROVE  MenuInv'
<1>1. /\ ~menu'.open
      /\ menu' = [open |-> menu'.open, kind |-> menu'.kind, options |-> menu'.options,
                  cursor |-> menu'.cursor]
  BY DEF NoMenu
<1>2. MenuTruthful'
  BY <1>1 DEF MenuInv, MenuTruthful, ChecksAccounted, MenuCurrent
<1> QED BY <1>1, <1>2 DEF MenuInv

\* Enter runs what is highlighted, which is allowed by the answer known.
LEMMA RunKeeps == ASSUME MenuInv, RunAction PROVE MenuInv'
<1>1. /\ menu.open /\ menu.options[menu.cursor].status = "allowed" /\ menu' = NoMenu
      /\ UNCHANGED <<answers, inFlight, checks, overview, nodeRow, visits>>
      /\ ran' = [action |-> menu.options[menu.cursor].action,
                 answer |-> Status(menu.options[menu.cursor].action, menu.kind, answers)]
  BY DEF RunAction
<1>2. menu.cursor \in DOMAIN menu.options /\ MenuCurrent
  BY <1>1 DEF MenuInv, MenuTruthful
<1>3. Status(menu.options[menu.cursor].action, menu.kind, answers) = "allowed"
  BY <1>1, <1>2 DEF MenuCurrent
<1>4. RanAllowed'
  BY <1>1, <1>3 DEF RanAllowed
<1> QED BY <1>1, <1>4, ClosedMenu

LEMMA OverviewKeeps == ASSUME MenuInv, OpenOverview PROVE MenuInv'
<1>1. /\ ~menu.open /\ Dispatch(OverviewKeys) /\ UNCHANGED <<answers, menu, nodeRow, visits, ran>>
  BY DEF OpenOverview
<1>2. OverviewKeys \in SUBSET Keys
  BY DEF Keys
<1>3. /\ inFlight' \subseteq Keys /\ ChecksAccounted'
      /\ checks' \subseteq [visit : 0..visits', key : Keys]
  BY <1>1, <1>2, DispatchKeeps
<1>4. MenuTruthful'
  BY <1>1, <1>3 DEF MenuInv, MenuTruthful, MenuCurrent, RanAllowed
<1> QED BY <1>1, <1>3, <1>4 DEF MenuInv

\* A new visit knows nothing and has asked for nothing.
LEMMA LeaveMenuKeeps == ASSUME MenuInv, LeaveMenu PROVE MenuInv'
<1>1. /\ visits' = visits + 1 /\ answers' = [key \in Keys |-> "unknown"] /\ inFlight' = {}
      /\ menu' = NoMenu /\ UNCHANGED <<checks, overview, nodeRow, ran>>
  BY DEF LeaveMenu
<1>2. /\ visits \in Nat /\ checks \subseteq [visit : 0..visits, key : Keys]
      /\ ChecksAccounted /\ RanAllowed /\ nodeRow \in {"open", "cordoned", "gone"}
  BY DEF MenuInv, MenuTruthful
<1>3. \A c \in checks : c.visit \in 0..visits /\ c.key \in Keys
                        /\ c = [visit |-> c.visit, key |-> c.key]
  BY <1>2
<1>4. 0..visits \subseteq 0..(visits + 1) /\ visits + 1 \in Nat /\ visits + 1 \notin 0..visits
  BY <1>2
<1>5. checks' \subseteq [visit : 0..visits', key : Keys]
  BY <1>1, <1>3, <1>4
<1>6. {c \in checks' : c.visit = visits'} = {}
  BY <1>1, <1>3, <1>4
<1>7. ChecksAccounted'
  BY <1>1, <1>2, <1>6 DEF ChecksAccounted
<1>8. /\ ~menu'.open
      /\ menu' = [open |-> menu'.open, kind |-> menu'.kind, options |-> menu'.options,
                  cursor |-> menu'.cursor]
  BY <1>1 DEF NoMenu
<1>9. MenuTruthful'
  BY <1>1, <1>2, <1>7, <1>8 DEF MenuTruthful, MenuCurrent, RanAllowed
<1>10. answers' \in [Keys -> {"unknown", "allowed", "denied"}]
  BY <1>1
<1>11. visits' \in Nat /\ nodeRow' \in {"open", "cordoned", "gone"} /\ inFlight' \subseteq Keys
  BY <1>1, <1>2, <1>4
<1> QED BY <1>5, <1>8, <1>9, <1>10, <1>11 DEF MenuInv

LEMMA MenuStep == MenuInv /\ [MenuNext]_menuVars => MenuInv'
<1> SUFFICES ASSUME MenuInv, [MenuNext]_menuVars PROVE MenuInv'
  OBVIOUS
<1>1. CASE \E kind \in MenuKinds : OpenActionMenu(kind)
  BY <1>1, OpenKeeps
<1>2. CASE \E below \in BOOLEAN : MoveMenu(below)
  BY <1>2, MoveKeeps
<1>3. CASE CloseMenu
  <2>1. RanAllowed'
    BY <1>3 DEF CloseMenu, MenuInv, MenuTruthful, RanAllowed
  <2> QED BY <1>3, <2>1, ClosedMenu DEF CloseMenu
<1>4. CASE RunAction
  BY <1>4, RunKeeps
<1>5. CASE OpenOverview
  BY <1>5, OverviewKeeps
<1>6. CASE CloseOverview
  <2>1. UNCHANGED <<answers, inFlight, checks, menu, nodeRow, visits, ran>>
    BY <1>6 DEF CloseOverview
  <2>2. MenuTruthful'
    BY <2>1 DEF MenuInv, MenuTruthful, ChecksAccounted, MenuCurrent, RanAllowed, Status
  <2> QED BY <2>1, <2>2 DEF MenuInv
<1>7. CASE LeaveMenu
  BY <1>7, LeaveMenuKeeps
<1>8. CASE \E row \in {"open", "cordoned", "gone"} : NodeChanges(row)
  <2>1. /\ UNCHANGED <<answers, inFlight, checks, menu, visits, ran>>
        /\ nodeRow' \in {"open", "cordoned", "gone"}
    BY <1>8 DEF NodeChanges
  <2>2. MenuTruthful'
    BY <2>1 DEF MenuInv, MenuTruthful, ChecksAccounted, MenuCurrent, RanAllowed, Status
  <2> QED BY <2>1, <2>2 DEF MenuInv
<1>9. CASE \E check \in checks, answer \in {"allowed", "denied"} : Answer(check, answer)
  BY <1>9, AnswerKeepsMenu
<1>10. CASE UNCHANGED menuVars
  BY <1>10 DEF menuVars, MenuInv, MenuTruthful, ChecksAccounted, MenuCurrent, RanAllowed, Status
<1> QED BY <1>1, <1>2, <1>3, <1>4, <1>5, <1>6, <1>7, <1>8, <1>9, <1>10 DEF MenuNext

\* In every state the menu's bookkeeping is sound: each check asked for is on its
\* way once, an open menu shows what is known and waits only for what is asked.
THEOREM MenuInvariance == MenuSpec => []MenuInv
<1> QED BY MenuInitially, MenuStep, PTL DEF MenuSpec

\* An answer reclassifies the menu of its visit: the highlight is put where its
\* action is, unless that action is no longer offered.
LEMMA HighlightStays ==
  ASSUME MenuInv, [MenuNext]_menuVars, menu.open, menu'.open, answers' # answers,
         menu.options[menu.cursor].status = "allowed"
  PROVE  \/ menu'.options[menu'.cursor].action = menu.options[menu.cursor].action
         \/ menu.options[menu.cursor].action
              \notin {menu'.options[i].action : i \in DOMAIN menu'.options}
<1> DEFINE a == menu.options[menu.cursor].action
           options == ClassifiedActions(menu.kind, answers')
<1>1. PICK check \in checks, answer \in {"allowed", "denied"} : Answer(check, answer)
  <2>1. ~LeaveMenu
    BY DEF LeaveMenu
  <2> QED
    BY <2>1 DEF MenuNext, menuVars, OpenActionMenu, MoveMenu, CloseMenu, RunAction, OpenOverview,
                CloseOverview, NodeChanges
<1>2. menu' = [menu EXCEPT !.options = options, !.cursor = Reanchored(options)]
  BY <1>1 DEF Answer
<1>3. /\ menu = [open |-> menu.open, kind |-> menu.kind, options |-> menu.options,
                 cursor |-> menu.cursor]
      /\ menu.kind \in MenuKinds /\ menu.cursor \in DOMAIN menu.options /\ MenuCurrent
      /\ a \in Range(ActionsFor(menu.kind))
      /\ nodeRow \in {"open", "cordoned", "gone"}
  BY DEF MenuInv, MenuTruthful
<1>4. Status(a, menu.kind, answers) = "allowed"
  BY <1>3 DEF MenuCurrent
<1>5. Status(a, menu.kind, answers') = "allowed"
  <2>1. CASE a \in Ungated
    BY <2>1 DEF Status
  <2>2. CASE a \notin Ungated
    <3>1. Key(a, menu.kind) \in Keys
      BY <1>3, <2>2, KeysOfKind
    <3>2. answers[Key(a, menu.kind)] = "allowed"
      BY <1>4, <2>2 DEF Status
    <3>3. answers'[Key(a, menu.kind)] = "allowed"
      BY <1>1, <3>1, <3>2, AnswerKeeps
    <3> QED BY <2>2, <3>3 DEF Status
  <2> QED BY <2>1, <2>2
<1>6. \A i \in DOMAIN options : options[i].status = Status(options[i].action, menu.kind, answers')
  BY <1>3, Entries
<1> DEFINE same == {i \in DOMAIN options : options[i].action = a /\ options[i].status = "allowed"}
<1>7. Reanchored(options) = IF same = {} THEN FirstSelectable(options) ELSE CHOOSE i \in same : TRUE
  BY DEF Reanchored
<1> HIDE DEF options
<1>8. menu'.options = options /\ menu'.cursor = Reanchored(options)
  <2>1. menu' = [open |-> menu.open, kind |-> menu.kind, options |-> options,
                 cursor |-> Reanchored(options)]
    BY <1>2, <1>3
  <2> QED BY <2>1
<1>9. CASE same = {}
  <2>1. \A i \in DOMAIN options : options[i].action # a
    BY <1>5, <1>6, <1>9
  <2> QED BY <1>8, <2>1
<1>10. CASE same # {}
  <2>1. Reanchored(options) \in same
    BY <1>7, <1>10
  <2> QED BY <1>8, <2>1
<1> QED BY <1>9, <1>10

\* The menu's bookkeeping is sound in every state, nothing runs that the cluster
\* was known to refuse, and no answer slides the highlight to another action.
THEOREM MenuIsHonest == MenuSpec => MenuHonest
<1>1. MenuInv => MenuTruthful
  BY DEF MenuInv
<1>2. MenuInv /\ [MenuNext]_menuVars =>
        [menu.open /\ menu'.open /\ answers' # answers
           => LET before == menu.options[menu.cursor]
                  after == menu'.options[menu'.cursor]
              IN  before.status = "allowed"
                    => \/ after.action = before.action
                       \/ before.action \notin {menu'.options[i].action :
                                                  i \in DOMAIN menu'.options}]_menuVars
  BY HighlightStays
<1> QED BY <1>1, <1>2, MenuInvariance, PTL DEF MenuSpec, MenuHonest, HighlightKept

-----------------------------------------------------------------------------
(* The fleet dashboard and the ways in and out of it.                      *)

\* The parts of the type, named for the proofs.
Screens(c) == [view : ResourceViews \cup {"fleet", "cluster"}, filter : {"", "x"}, typing : BOOLEAN, cursor : {c}]
Fleets(c, e) == [cursor : {c}, expanded : {e}, back : ResourceViews, saved : {"", "x"}]
Dashes == [back : ResourceViews, saved : {"", "x"}]
Details(c) == [seq : Nat, loading : BOOLEAN, of : {c}, got : Nat]
FetchesOK == \A f \in fetches : f.seq \in Nat

\* The type is its parts.
LEMMA FleetTypes ==
  FleetTypeOK <=> /\ screen \in Screens(screen.cursor) /\ fleet \in Fleets(fleet.cursor, fleet.expanded)
                  /\ clusterDash \in Dashes /\ detail \in Details(detail.of) /\ FetchesOK
BY DEF FleetTypeOK, Screens, Fleets, Dashes, Details, FetchesOK

\* The resource views are neither of the dashboards.
LEMMA ViewsDiffer ==
  /\ \A v \in ResourceViews : v # "fleet" /\ v # "cluster"
  /\ screen \in Screens(screen.cursor) => screen.view \in ResourceViews \cup {"fleet", "cluster"}
BY DEF ResourceViews, Screens

\* Finding a row for the cursor leaves the rest of the screen.
LEMMA AnchoredKeeps ==
  ASSUME NEW s, s \in Screens(s.cursor)
  PROVE  /\ Anchored(s) \in Screens(Anchored(s).cursor)
         /\ Anchored(s).view = s.view /\ Anchored(s).filter = s.filter
<1>1. PICK c : Anchored(s) = s \/ Anchored(s) = [s EXCEPT !.cursor = c]
  BY DEF Anchored
<1>2. [s EXCEPT !.cursor = c] \in Screens([s EXCEPT !.cursor = c].cursor)
      /\ [s EXCEPT !.cursor = c].view = s.view /\ [s EXCEPT !.cursor = c].filter = s.filter
  BY DEF Screens
<1> QED BY <1>1, <1>2

\* What leaving the fleet view comes to.
LEMMA LeavingFleet ==
  ASSUME FleetTypeOK
  PROVE  /\ \A to \in ResourceViews : /\ Left(to) \in Screens(Left(to).cursor)
                                      /\ Left(to).view = to /\ Left(to).filter = fleet.saved
         /\ LeftFleet \in Fleets(LeftFleet.cursor, LeftFleet.expanded) /\ LeftFleet.expanded = None
         /\ NoDetailNow \in Details(NoDetailNow.of)
         /\ fleet.back \in ResourceViews
<1>1. \A to \in ResourceViews : /\ Left(to) \in Screens(Left(to).cursor)
                                /\ Left(to).view = to /\ Left(to).filter = fleet.saved
  BY DEF FleetTypeOK, Left, Screens
<1>2. LeftFleet \in Fleets(LeftFleet.cursor, LeftFleet.expanded) /\ LeftFleet.expanded = None
  BY DEF FleetTypeOK, LeftFleet, Fleets
<1>3. NoDetailNow \in Details(NoDetailNow.of)
  BY DEF FleetTypeOK, NoDetailNow, Details
<1> QED BY <1>1, <1>2, <1>3 DEF FleetTypeOK

\* A step that leaves the fleet view.
LEMMA LeavingKeeps ==
  ASSUME FleetInv, screen.view = "fleet", fleet' = LeftFleet, detail' = NoDetailNow, UNCHANGED <<fetches, tableFilter>>,
         screen' \in Screens(screen'.cursor), clusterDash' \in Dashes, screen'.view # "fleet",
         screen'.view \in ResourceViews => screen'.filter = fleet.saved,
         screen'.view = "cluster" => clusterDash'.saved = fleet.saved
  PROVE  FleetInv'
<1>1. FleetTypeOK /\ FetchesOK
  BY FleetTypes DEF FleetInv
<1>2. FetchesOK'
  BY <1>1 DEF FetchesOK
<1>3. /\ LeftFleet \in Fleets(LeftFleet.cursor, LeftFleet.expanded) /\ LeftFleet.expanded = None
      /\ NoDetailNow \in Details(NoDetailNow.of)
  BY <1>1, LeavingFleet
<1>4. FleetTypeOK'
  BY <1>2, <1>3, FleetTypes DEF FleetTypeOK, Screens, Fleets, Dashes, Details, FetchesOK
<1>5. fleet.saved = tableFilter
  BY DEF FleetInv, BorrowedInv
<1>6. BorrowedInv' /\ FilterReturns' /\ DetailOfCard'
  BY <1>3, <1>5 DEF BorrowedInv, FilterReturns, DetailOfCard
<1> QED BY <1>4, <1>6 DEF FleetInv

\* A step that leaves the detail, and no card expanded.
LEMMA ScreenKeeps ==
  ASSUME FleetInv, UNCHANGED <<detail, fetches>>,
         screen' \in Screens(screen'.cursor), clusterDash' \in Dashes,
         fleet' \in Fleets(fleet'.cursor, fleet'.expanded),
         \/ fleet'.expanded = None
         \/ screen.view = "fleet" /\ screen'.view = "fleet" /\ fleet'.expanded = fleet.expanded,
         screen'.view \in ResourceViews => screen'.filter = tableFilter',
         screen'.view = "fleet" => fleet'.saved = tableFilter',
         screen'.view = "cluster" => clusterDash'.saved = tableFilter'
  PROVE  FleetInv'
<1>1. FleetTypeOK /\ FetchesOK
  BY FleetTypes DEF FleetInv
<1>2. FleetTypeOK'
  BY <1>1 DEF FleetTypeOK, Screens, Fleets, Dashes, Details, FetchesOK
<1>3. BorrowedInv' /\ FilterReturns'
  BY DEF BorrowedInv, FilterReturns
<1>4. DetailOfCard'
  BY DEF DetailOfCard, FleetInv
<1> QED BY <1>2, <1>3, <1>4 DEF FleetInv

\* A fetch of the card that is expanded.
LEMMA FetchKeeps ==
  ASSUME FleetInv, NEW c, Fetch(c), screen.view = "fleet", UNCHANGED <<screen, clusterDash, tableFilter>>,
         fleet' \in Fleets(fleet'.cursor, fleet'.expanded), fleet'.expanded = c, fleet'.saved = fleet.saved
  PROVE  FleetInv'
<1>1. FleetTypeOK /\ FetchesOK /\ detail.seq \in Nat /\ detail.got \in Nat
  BY FleetTypes DEF FleetInv, FleetTypeOK
<1>a. PICK seq \in Nat, got \in Nat : seq = detail.seq + 1 /\ got = (IF detail.of = c THEN detail.got ELSE 0)
  BY <1>1
<1>b. PICK of : of = (IF detail.of = c THEN c ELSE None)
  OBVIOUS
<1>2. of \in {None, c}
  BY <1>b
<1>3. detail' = [seq |-> seq, loading |-> TRUE, of |-> of, got |-> got] /\ fetches' = fetches \cup {[seq |-> seq, of |-> c]}
  BY <1>a, <1>b DEF Fetch
<1>4. detail' \in Details(detail'.of) /\ detail'.seq = seq /\ detail'.loading /\ detail'.of = of
  BY <1>3 DEF Details
<1>5. FetchesOK'
  BY <1>1, <1>3 DEF FetchesOK
<1>6. FleetTypeOK'
  BY <1>1, <1>4, <1>5 DEF FleetTypeOK, Screens, Fleets, Dashes, Details, FetchesOK
<1>7. screen.view # "cluster" /\ screen.view \notin ResourceViews
  BY DEF ResourceViews
<1>8. BorrowedInv' /\ FilterReturns'
  BY <1>7 DEF BorrowedInv, FilterReturns, FleetInv
<1>9. DetailOfCard'
  BY <1>2, <1>3, <1>4 DEF DetailOfCard
<1> QED BY <1>6, <1>8, <1>9 DEF FleetInv

\* The invariant holds where the program starts, in a table.
LEMMA FleetInitially == FleetInit => FleetInv
<1> SUFFICES ASSUME FleetInit PROVE FleetInv
  OBVIOUS
<1>1. screen \in Screens(screen.cursor) /\ screen.view = "pods" /\ screen.filter = "" /\ tableFilter = ""
  BY DEF FleetInit, Screens, ResourceViews
<1>2. fleet \in Fleets(fleet.cursor, fleet.expanded) /\ fleet.expanded = None /\ clusterDash \in Dashes
  BY DEF FleetInit, Fleets, Dashes, ResourceViews
<1>3. detail \in Details(detail.of) /\ FetchesOK
  BY DEF FleetInit, Details, FetchesOK
<1> QED BY <1>1, <1>2, <1>3, FleetTypes DEF FleetInv, DetailOfCard, FilterReturns, BorrowedInv

\* Every step keeps the invariant.
LEMMA FleetStep == ASSUME FleetInv, [FleetNext]_fleetVars PROVE FleetInv'
<1>1. /\ FleetTypeOK /\ screen \in Screens(screen.cursor) /\ fleet \in Fleets(fleet.cursor, fleet.expanded)
      /\ clusterDash \in Dashes /\ detail \in Details(detail.of) /\ FetchesOK
  BY FleetTypes DEF FleetInv
<1>2. /\ screen.view \in ResourceViews => screen.filter = tableFilter
      /\ screen.view = "fleet" => fleet.saved = tableFilter
      /\ screen.view = "cluster" => clusterDash.saved = tableFilter
      /\ screen.view # "fleet" => fleet.expanded = None
  BY DEF FleetInv, FilterReturns, BorrowedInv
<1>3. \A v \in ResourceViews : v # "fleet" /\ v # "cluster"
  BY ViewsDiffer
<1>4. screen.view \in ResourceViews \cup {"fleet", "cluster"}
  BY <1>1, ViewsDiffer
<1>5. /\ screen.filter \in {"", "x"} /\ fleet.back \in ResourceViews /\ fleet.saved \in {"", "x"}
      /\ clusterDash.back \in ResourceViews /\ clusterDash.saved \in {"", "x"}
  BY <1>1 DEF Screens, Fleets, Dashes
<1>6. ASSUME screen' \in Screens(screen'.cursor), screen'.view = screen.view, screen'.filter = screen.filter,
             UNCHANGED <<fleet, clusterDash, detail, fetches, tableFilter>>
      PROVE  FleetInv'
  BY <1>1, <1>2, <1>3, <1>4, <1>6, ScreenKeeps
<1>10. ASSUME EnterFleet PROVE FleetInv'
  <2>1. UNCHANGED <<detail, fetches, tableFilter>> /\ screen.view # "fleet" /\ fleet.expanded = None
    BY <1>2, <1>10 DEF EnterFleet
  <2>2. screen' \in Screens(screen'.cursor) /\ screen'.view = "fleet"
    <3>1. screen' = [screen EXCEPT !.view = "fleet", !.filter = "", !.typing = FALSE]
      BY <1>10 DEF EnterFleet
    <3> QED BY <1>1, <3>1 DEF Screens
  <2>3. CASE screen.view = "cluster"
    <3>1. /\ fleet' = [fleet EXCEPT !.back = clusterDash.back, !.saved = clusterDash.saved]
          /\ clusterDash' = [clusterDash EXCEPT !.saved = ""]
      BY <1>10, <2>3 DEF EnterFleet
    <3>2. /\ fleet' \in Fleets(fleet'.cursor, fleet'.expanded) /\ fleet'.expanded = None
          /\ fleet'.saved = clusterDash.saved
      BY <1>1, <1>5, <2>1, <3>1 DEF Fleets
    <3>3. clusterDash' \in Dashes
      BY <1>1, <3>1 DEF Dashes
    <3> QED BY <1>2, <1>3, <2>1, <2>2, <2>3, <3>2, <3>3, ScreenKeeps
  <2>4. CASE screen.view # "cluster"
    <3>1. fleet' = [fleet EXCEPT !.back = screen.view, !.saved = screen.filter] /\ clusterDash' = clusterDash
      BY <1>10, <2>4 DEF EnterFleet
    <3>2. screen.view \in ResourceViews
      BY <1>4, <2>1, <2>4
    <3>3. /\ fleet' \in Fleets(fleet'.cursor, fleet'.expanded) /\ fleet'.expanded = None
          /\ fleet'.saved = screen.filter
      BY <1>1, <1>5, <2>1, <3>1, <3>2 DEF Fleets
    <3> QED BY <1>1, <1>2, <1>3, <2>1, <2>2, <3>1, <3>2, <3>3, ScreenKeeps
  <2> QED BY <2>3, <2>4
<1>11. ASSUME BackFromFleet PROVE FleetInv'
  <2>1. /\ screen.view = "fleet" /\ screen' = Left(fleet.back) /\ fleet' = LeftFleet /\ detail' = NoDetailNow
        /\ UNCHANGED <<clusterDash, fetches, tableFilter>>
    BY <1>11 DEF BackFromFleet
  <2>2. screen' \in Screens(screen'.cursor) /\ screen'.view = fleet.back /\ screen'.filter = fleet.saved
    BY <1>1, <1>5, <2>1, LeavingFleet
  <2> QED BY <1>1, <1>3, <1>5, <2>1, <2>2, LeavingKeeps
<1>12. ASSUME EnterClusterDash PROVE FleetInv'
  <2>1. screen.view # "cluster" /\ UNCHANGED <<fetches, tableFilter>>
    BY <1>12 DEF EnterClusterDash
  <2>2. PICK s : /\ s \in Screens(s.cursor) /\ s.view \in ResourceViews /\ s.filter = tableFilter
                 /\ clusterDash' = [back |-> s.view, saved |-> s.filter]
                 /\ screen' = [s EXCEPT !.view = "cluster", !.filter = "", !.typing = FALSE]
    <3>1. CASE screen.view = "fleet"
      <4>1. PICK s : s = Left(fleet.back)
        OBVIOUS
      <4>2. s \in Screens(s.cursor) /\ s.view \in ResourceViews /\ s.filter = tableFilter
        BY <1>1, <1>2, <1>5, <3>1, <4>1, LeavingFleet
      <4> QED BY <1>12, <3>1, <4>1, <4>2 DEF EnterClusterDash
    <3>2. CASE screen.view # "fleet"
      <4>1. screen.view \in ResourceViews
        BY <1>4, <2>1, <3>2
      <4> QED BY <1>1, <1>2, <1>12, <3>2, <4>1 DEF EnterClusterDash
    <3> QED BY <3>1, <3>2
  <2>3. screen' \in Screens(screen'.cursor) /\ screen'.view = "cluster"
    BY <2>2 DEF Screens
  <2>4. s.filter \in {"", "x"}
    BY <2>2 DEF Screens
  <2>5. clusterDash' \in Dashes /\ clusterDash'.saved = tableFilter
    BY <2>2, <2>4 DEF Dashes
  <2>6. CASE screen.view = "fleet"
    <3>1. fleet' = LeftFleet /\ detail' = NoDetailNow
      BY <1>12, <2>6 DEF EnterClusterDash
    <3> QED BY <1>2, <1>3, <2>1, <2>3, <2>5, <2>6, <3>1, LeavingKeeps
  <2>7. CASE screen.view # "fleet"
    <3>1. UNCHANGED <<fleet, detail>>
      BY <1>12, <2>7 DEF EnterClusterDash
    <3> QED BY <1>1, <1>2, <1>3, <2>1, <2>3, <2>5, <2>7, <3>1, ScreenKeeps
  <2> QED BY <2>6, <2>7
<1>13. ASSUME BackFromClusterDash PROVE FleetInv'
  <2>1. /\ screen.view = "cluster"
        /\ screen' = [screen EXCEPT !.view = clusterDash.back, !.filter = clusterDash.saved]
        /\ clusterDash' = [clusterDash EXCEPT !.saved = ""] /\ UNCHANGED <<fleet, detail, fetches, tableFilter>>
    BY <1>13 DEF BackFromClusterDash
  <2>2. /\ screen' \in Screens(screen'.cursor) /\ screen'.view = clusterDash.back
        /\ screen'.filter = clusterDash.saved
    BY <1>1, <1>5, <2>1 DEF Screens
  <2>3. clusterDash' \in Dashes
    BY <1>1, <2>1 DEF Dashes
  <2> QED BY <1>1, <1>2, <1>3, <1>5, <2>1, <2>2, <2>3, ScreenKeeps
<1>14. ASSUME NEW v \in ResourceViews, SwitchView(v) PROVE FleetInv'
  <2>1. UNCHANGED <<fetches, tableFilter>> /\ v # "fleet" /\ v # "cluster"
    BY <1>3, <1>14 DEF SwitchView
  <2>2. PICK s : /\ s \in Screens(s.cursor) /\ s.filter = tableFilter
                 /\ screen' = IF s.view = v THEN s ELSE Anchored([s EXCEPT !.view = v, !.cursor = None])
    <3>1. CASE screen.view = "fleet"
      <4>1. PICK s : s = [screen EXCEPT !.filter = fleet.saved]
        OBVIOUS
      <4>2. s \in Screens(s.cursor) /\ s.filter = tableFilter
        BY <1>1, <1>2, <1>5, <3>1, <4>1 DEF Screens
      <4> QED BY <1>14, <3>1, <4>1, <4>2 DEF SwitchView
    <3>2. CASE screen.view = "cluster"
      <4>1. PICK s : s = [screen EXCEPT !.view = clusterDash.back, !.filter = clusterDash.saved]
        OBVIOUS
      <4>2. s \in Screens(s.cursor) /\ s.filter = tableFilter
        BY <1>1, <1>2, <1>5, <3>2, <4>1 DEF Screens
      <4> QED BY <1>14, <3>2, <4>1, <4>2 DEF SwitchView
    <3>3. CASE screen.view # "fleet" /\ screen.view # "cluster"
      BY <1>1, <1>2, <1>4, <1>14, <3>3 DEF SwitchView
    <3> QED BY <3>1, <3>2, <3>3
  <2>3. screen' \in Screens(screen'.cursor) /\ screen'.view = v /\ screen'.filter = tableFilter
    <3>1. CASE s.view = v
      BY <2>2, <3>1
    <3>2. CASE s.view # v
      <4>1. PICK q : q = [s EXCEPT !.view = v, !.cursor = None]
        OBVIOUS
      <4>2. q \in Screens(q.cursor) /\ q.view = v /\ q.filter = tableFilter
        BY <2>2, <4>1 DEF Screens
      <4> QED BY <2>2, <3>2, <4>1, <4>2, AnchoredKeeps
    <3> QED BY <3>1, <3>2
  <2>4. clusterDash' \in Dashes
    <3>1. clusterDash' = clusterDash \/ clusterDash' = [clusterDash EXCEPT !.saved = ""]
      BY <1>14 DEF SwitchView
    <3> QED BY <1>1, <3>1 DEF Dashes
  <2>5. CASE screen.view = "fleet"
    <3>1. fleet' = LeftFleet /\ detail' = NoDetailNow
      BY <1>14, <2>5 DEF SwitchView
    <3> QED BY <1>2, <2>1, <2>3, <2>4, <2>5, <3>1, LeavingKeeps
  <2>6. CASE screen.view # "fleet"
    <3>1. UNCHANGED <<fleet, detail>>
      BY <1>14, <2>6 DEF SwitchView
    <3> QED BY <1>1, <1>2, <2>1, <2>3, <2>4, <2>6, <3>1, ScreenKeeps
  <2> QED BY <2>5, <2>6
<1>15. ASSUME NEW r \in TableRows, MoveRow(r) PROVE FleetInv'
  <2>1. screen' = [screen EXCEPT !.cursor = r] /\ UNCHANGED <<fleet, clusterDash, detail, fetches, tableFilter>>
    BY <1>15 DEF MoveRow
  <2>2. screen' \in Screens(screen'.cursor) /\ screen'.view = screen.view /\ screen'.filter = screen.filter
    BY <1>1, <2>1 DEF Screens
  <2> QED BY <1>6, <2>1, <2>2
<1>16. ASSUME FocusFilter PROVE FleetInv'
  <2>1. screen' = [screen EXCEPT !.typing = TRUE] /\ UNCHANGED <<fleet, clusterDash, detail, fetches, tableFilter>>
    BY <1>16 DEF FocusFilter
  <2>2. screen' \in Screens(screen'.cursor) /\ screen'.view = screen.view /\ screen'.filter = screen.filter
    BY <1>1, <2>1 DEF Screens
  <2> QED BY <1>6, <2>1, <2>2
<1>17. ASSUME NEW text \in {"", "x"}, NEW t \in BOOLEAN, FilterKey(text, t) PROVE FleetInv'
  <2>1. PICK q : q = [screen EXCEPT !.filter = text, !.typing = t]
    OBVIOUS
  <2>2. /\ screen' = Anchored(q) /\ tableFilter' = IF screen.view \in ResourceViews THEN text ELSE tableFilter
        /\ UNCHANGED <<fleet, clusterDash, detail, fetches>>
    BY <1>17, <2>1 DEF FilterKey, AfterFilterKey
  <2>3. q \in Screens(q.cursor) /\ q.view = screen.view /\ q.filter = text
    BY <1>1, <2>1 DEF Screens
  <2>4. screen' \in Screens(screen'.cursor) /\ screen'.view = screen.view /\ screen'.filter = text
    BY <2>2, <2>3, AnchoredKeeps
  <2> QED BY <1>1, <1>2, <1>3, <2>2, <2>4, ScreenKeeps
<1>18. ASSUME ClearFilter PROVE FleetInv'
  <2>1. PICK q : q = [screen EXCEPT !.filter = ""]
    OBVIOUS
  <2>2. /\ screen' = Anchored(q) /\ tableFilter' = "" /\ screen.view \in ResourceViews
        /\ UNCHANGED <<fleet, clusterDash, detail, fetches>>
    BY <1>18, <2>1 DEF ClearFilter
  <2>3. q \in Screens(q.cursor) /\ q.view = screen.view /\ q.filter = ""
    BY <1>1, <2>1 DEF Screens
  <2>4. screen' \in Screens(screen'.cursor) /\ screen'.view = screen.view /\ screen'.filter = ""
    BY <2>2, <2>3, AnchoredKeeps
  <2> QED BY <1>1, <1>2, <1>3, <2>2, <2>4, ScreenKeeps
<1>19. ASSUME NEW delta, Tab(delta) PROVE FleetInv'
  <2>1. screen' = [screen EXCEPT !.cursor = None, !.typing = FALSE]
        /\ UNCHANGED <<fleet, clusterDash, detail, fetches, tableFilter>>
    BY <1>19 DEF Tab
  <2>2. screen' \in Screens(screen'.cursor) /\ screen'.view = screen.view /\ screen'.filter = screen.filter
    BY <1>1, <2>1 DEF Screens
  <2> QED BY <1>6, <2>1, <2>2
<1>20. ASSUME OpenCluster PROVE FleetInv'
  <2>1. /\ screen.view = "fleet" /\ fleet' = LeftFleet /\ detail' = NoDetailNow
        /\ UNCHANGED <<clusterDash, fetches, tableFilter>>
    BY <1>20 DEF OpenCluster
  <2>2. PICK s : s = Left("pods")
    OBVIOUS
  <2>3. s \in Screens(s.cursor) /\ s.view = "pods" /\ s.filter = fleet.saved
    BY <1>1, <2>2, LeavingFleet DEF ResourceViews
  <2>4. screen' = s \/ screen' = [s EXCEPT !.cursor = None]
    BY <1>20, <2>2 DEF OpenCluster
  <2>5. screen' \in Screens(screen'.cursor) /\ screen'.view = "pods" /\ screen'.filter = fleet.saved
    BY <2>3, <2>4 DEF Screens
  <2> QED BY <1>1, <2>1, <2>5, LeavingKeeps
<1>21. ASSUME UNCHANGED <<screen, fleet, clusterDash, detail, fetches, tableFilter>> PROVE FleetInv'
  BY <1>1, <1>6, <1>21
<1>22. ASSUME NEW delta, MoveFleetCursor(delta) PROVE FleetInv'
  <2>1. UNCHANGED <<screen, clusterDash, detail, fetches, tableFilter>> /\ screen.view = "fleet"
    BY <1>22 DEF MoveFleetCursor, FleetKey
  <2>2. PICK c : fleet' = [fleet EXCEPT !.cursor = c]
    BY <1>22 DEF MoveFleetCursor
  <2>3. /\ fleet' \in Fleets(fleet'.cursor, fleet'.expanded) /\ fleet'.expanded = fleet.expanded
        /\ fleet'.saved = fleet.saved
    BY <1>1, <2>2 DEF Fleets
  <2> QED BY <1>1, <1>2, <1>3, <2>1, <2>3, ScreenKeeps
<1>24. ASSUME Expand PROVE FleetInv'
  <2>1. PICK c : c = FleetCursor
    OBVIOUS
  <2>2. /\ screen.view = "fleet" /\ UNCHANGED <<screen, clusterDash, tableFilter>>
        /\ fleet' = [fleet EXCEPT !.expanded = c]
    BY <1>24, <2>1 DEF Expand, FleetKey
  <2>3. fleet' \in Fleets(fleet'.cursor, fleet'.expanded) /\ fleet'.expanded = c /\ fleet'.saved = fleet.saved
    BY <1>1, <2>2 DEF Fleets
  <2>4. CASE Offline(c)
    <3>1. detail' = [NoDetailNow EXCEPT !.seq = detail.seq + 1] /\ fetches' = fetches
      BY <1>24, <2>1, <2>4 DEF Expand, ExpandedOffline
    <3>2. detail.seq \in Nat
      BY <1>1 DEF Details
    <3>3. /\ detail' \in Details(detail'.of) /\ detail'.of = None /\ detail'.got = 0 /\ ~detail'.loading
      <4>1. PICK d : d = NoDetailNow
        OBVIOUS
      <4>2. d \in Details(d.of) /\ d.of = None /\ d.got = 0 /\ ~d.loading
        BY <1>1, <4>1 DEF Details, NoDetailNow
      <4>3. detail' = [d EXCEPT !.seq = detail.seq + 1] /\ detail.seq + 1 \in Nat
        BY <3>1, <3>2, <4>1
      <4> QED BY <4>2, <4>3 DEF Details
    <3>4. FetchesOK'
      BY <1>1, <3>1 DEF FetchesOK
    <3>5. FleetTypeOK'
      BY <1>1, <2>2, <2>3, <3>3, <3>4 DEF FleetTypeOK, Screens, Fleets, Dashes, Details, FetchesOK
    <3>6. BorrowedInv' /\ FilterReturns' /\ DetailOfCard'
      BY <1>2, <1>3, <2>2, <2>3, <3>3 DEF BorrowedInv, FilterReturns, DetailOfCard
    <3> QED BY <3>5, <3>6 DEF FleetInv
  <2>5. CASE ~Offline(c)
    <3>1. Fetch(c)
      BY <1>24, <2>1, <2>5 DEF Expand
    <3> QED BY <2>2, <2>3, <3>1, FetchKeeps
  <2> QED BY <2>4, <2>5
<1>25. ASSUME Collapse PROVE FleetInv'
  <2>1. fleet' = [fleet EXCEPT !.expanded = None] /\ UNCHANGED <<screen, clusterDash, detail, fetches, tableFilter>>
    BY <1>25 DEF Collapse
  <2>2. fleet' \in Fleets(fleet'.cursor, fleet'.expanded) /\ fleet'.expanded = None /\ fleet'.saved = fleet.saved
    BY <1>1, <2>1 DEF Fleets
  <2> QED BY <1>1, <1>2, <2>1, <2>2, ScreenKeeps
<1>26. ASSUME ClearFleetFilter PROVE FleetInv'
  <2>1. /\ screen.view = "fleet" /\ screen' = [screen EXCEPT !.filter = ""]
        /\ UNCHANGED <<fleet, clusterDash, detail, fetches, tableFilter>>
    BY <1>26 DEF ClearFleetFilter, FleetKey
  <2>2. screen' \in Screens(screen'.cursor) /\ screen'.view = "fleet"
    BY <1>1, <2>1 DEF Screens
  <2> QED BY <1>1, <1>2, <1>3, <2>1, <2>2, ScreenKeeps
<1>27. ASSUME Refresh PROVE FleetInv'
  <2>1. screen.view = "fleet" /\ Fetch(fleet.expanded) /\ UNCHANGED <<screen, fleet, clusterDash, tableFilter>>
    BY <1>27 DEF Refresh
  <2> QED BY <1>1, <2>1, FetchKeeps
<1>28. ASSUME NEW f \in fetches, DeliverDetail(f) PROVE FleetInv'
  <2>1. /\ fetches' = fetches \ {f} /\ UNCHANGED <<screen, fleet, clusterDash, tableFilter>>
        /\ detail' = IF Lands(f) THEN [detail EXCEPT !.loading = FALSE, !.of = f.of, !.got = f.seq] ELSE detail
    BY <1>28 DEF DeliverDetail
  <2>2. f.seq \in Nat /\ FetchesOK'
    BY <1>1, <2>1 DEF FetchesOK
  <2>3. CASE Lands(f)
    <3>1. detail' = [detail EXCEPT !.loading = FALSE, !.of = f.of, !.got = f.seq]
      BY <2>1, <2>3
    <3>2. /\ detail' \in Details(detail'.of) /\ ~detail'.loading /\ detail'.of = f.of /\ detail'.got = f.seq
          /\ detail'.seq = detail.seq
      BY <1>1, <2>2, <3>1 DEF Details
    <3>3. FleetTypeOK'
      BY <1>1, <2>1, <2>2, <3>2 DEF FleetTypeOK, Screens, Fleets, Dashes, Details, FetchesOK
    <3>4. DetailOfCard'
      BY <2>1, <2>3, <3>2 DEF DetailOfCard, Lands
    <3>5. BorrowedInv' /\ FilterReturns'
      BY <2>1 DEF BorrowedInv, FilterReturns, FleetInv
    <3> QED BY <3>3, <3>4, <3>5 DEF FleetInv
  <2>4. CASE ~Lands(f)
    <3>1. detail' = detail
      BY <2>1, <2>4
    <3>2. FleetTypeOK'
      BY <1>1, <2>1, <2>2, <3>1 DEF FleetTypeOK, Screens, Fleets, Dashes, Details, FetchesOK
    <3>3. ASSUME screen.view = "fleet" PROVE f # [seq |-> detail.seq, of |-> fleet.expanded]
      BY <2>4, <3>3 DEF Lands
    <3>4. DetailOfCard'
      BY <2>1, <3>1, <3>3 DEF DetailOfCard, FleetInv
    <3>5. BorrowedInv' /\ FilterReturns'
      BY <2>1 DEF BorrowedInv, FilterReturns, FleetInv
    <3> QED BY <3>2, <3>4, <3>5 DEF FleetInv
  <2> QED BY <2>3, <2>4
<1>29. CASE RowsArrive
  BY <1>21, <1>29 DEF RowsArrive
<1>30. ASSUME NEW c \in Clusters, NEW reach \in Reaches, ProbeReports(c, reach) PROVE FleetInv'
  BY <1>21, <1>30 DEF ProbeReports
<1>31. CASE UNCHANGED fleetVars
  BY <1>21, <1>31 DEF fleetVars
<1> QED
  BY <1>10, <1>11, <1>12, <1>13, <1>14, <1>15, <1>16, <1>17, <1>18, <1>19, <1>20, <1>22, <1>24, <1>25,
     <1>26, <1>27, <1>28, <1>29, <1>30, <1>31 DEF FleetNext

\* Whichever way the user goes, the invariant of the screens holds.
THEOREM FleetInvariance == FleetSpec => []FleetInv
BY FleetInitially, FleetStep, PTL DEF FleetSpec

\* For any clusters, probes and fetches, the expanded card shows its own
\* cluster's newest detail, says it is fetching only while it is, and the
\* resource tables have the filter given to them after any way through the
\* dashboards.
THEOREM FleetIsTruthful == FleetSpec => []FleetTruthful
BY FleetInvariance, PTL DEF FleetInv, FleetTruthful

-----------------------------------------------------------------------------
(* Tab comes to every cluster that is up.                                  *)
(* DrainSession: no drain runs without its dialog, and a dialog tells of   *)
(* its own drain.                                                          *)

Progress == [session : 0..MaxSessions, acknowledged : BOOLEAN, finished : BOOLEAN,
             open : BOOLEAN, cancel : BOOLEAN]

SafetyInv == TypeOK /\ OwnerInv /\ ShowsOwnDrain

\* A step that a finished dialog survives unchanged.
FinalStep ==
  progress.finished /\ progress'.session = progress.session
    => progress'.finished /\ (progress'.open => progress.open)

LEMMA NoProgressType == NoProgress \in Progress
BY SessionAssumption DEF NoProgress, Progress

LEMMA SessionInit == Init => SafetyInv
<1> SUFFICES ASSUME Init PROVE SafetyInv
  OBVIOUS
<1> USE SessionAssumption DEF Init, NoProgress
<1>1. TypeOK
  <2>1. progress \in Progress
    BY NoProgressType DEF Progress
  <2>2. /\ generation \in 0..MaxFocus /\ last \in 0..MaxSessions
        /\ focusOf \in [Sessions -> 0..MaxFocus]
    OBVIOUS
  <2>3. /\ stopped \subseteq Sessions /\ released \subseteq Sessions /\ shownOf \subseteq Sessions
        /\ parentDone \in BOOLEAN /\ confirm \in {"closed", "open", "pending"}
    OBVIOUS
  <2>4. /\ job \in [Sessions -> {"none", "queued", "running", "ended"}]
        /\ ack \in [Sessions -> {"none", "ok", "err"}]
        /\ news \in [Sessions -> {"none", "progress", "done", "gone"}]
    OBVIOUS
  <2> QED BY <2>1, <2>2, <2>3, <2>4 DEF TypeOK, Progress
<1>2. OwnerInv
  BY DEF OwnerInv, Sessions
<1>3. ShowsOwnDrain
  BY DEF ShowsOwnDrain
<1> QED BY <1>1, <1>2, <1>3 DEF SafetyInv

\* cancelDrain: the dialog's session, if there is one, is told to stop.
LEMMA CancelDrainFacts ==
  ASSUME SafetyInv, CancelDrain
  PROVE  /\ stopped' \subseteq Sessions /\ released' \subseteq Sessions
         /\ stopped \subseteq stopped'
         /\ progress.session # 0 => progress.session \in stopped'
<1>1. progress.session \in 0..MaxSessions /\ (progress.cancel => progress.session # 0)
  BY DEF SafetyInv, TypeOK, OwnerInv
<1>2. stopped \subseteq Sessions /\ released \subseteq Sessions
  BY DEF SafetyInv, TypeOK
<1>3. progress.session # 0 => progress.session \in Sessions
  BY <1>1, SessionAssumption DEF Sessions
<1> QED BY <1>1, <1>2, <1>3 DEF CancelDrain

\* stopDrain: the dialog is left and its drain told to stop.
LEMMA StopDrainKeeps ==
  ASSUME SafetyInv, StopDrain, UNCHANGED <<last, job, ack, news>>,
         confirm' \in {"closed", "open"},
         \/ UNCHANGED <<generation, focusOf>>
         \/ generation' = generation + 1 /\ generation < MaxFocus /\ UNCHANGED focusOf,
         parentDone' \in BOOLEAN
  PROVE  SafetyInv' /\ FinalStep
<1> USE SessionAssumption DEF SafetyInv, StopDrain, NoProgress, Sessions
<1>0. /\ stopped' \subseteq Sessions /\ released' \subseteq Sessions /\ stopped \subseteq stopped'
      /\ progress.session # 0 => progress.session \in stopped'
  BY CancelDrainFacts
<1>1. TypeOK'
  <2>1. generation' \in 0..MaxFocus
    BY DEF TypeOK
  <2>2. progress' \in Progress
    BY NoProgressType
  <2> QED BY <1>0, <2>1, <2>2 DEF TypeOK, Progress
<1>2. OwnerInv'
  BY <1>0 DEF TypeOK, OwnerInv
<1>3. ShowsOwnDrain'
  BY DEF ShowsOwnDrain
<1>4. FinalStep
  BY DEF FinalStep, OwnerInv, TypeOK
<1> QED BY <1>1, <1>2, <1>3, <1>4

LEMMA UserKeeps == ASSUME SafetyInv, User PROVE SafetyInv' /\ FinalStep
<1> USE DEF jobs
<1>0. parentDone \in BOOLEAN /\ generation \in 0..MaxFocus
  BY DEF SafetyInv, TypeOK
<1>1. CASE OpenDrainConfirm
  BY <1>0, <1>1, StopDrainKeeps DEF OpenDrainConfirm
<1>2. ASSUME NEW quit \in BOOLEAN, DismissConfirm(quit) PROVE SafetyInv' /\ FinalStep
  BY <1>0, <1>2, StopDrainKeeps DEF DismissConfirm
<1>3. CASE Confirm
  <2> USE SessionAssumption DEF SafetyInv, Confirm, NoProgress, Sessions
  <2>1. progress = NoProgress /\ last \in 0..MaxSessions /\ last + 1 \in Sessions
    BY <1>3 DEF TypeOK, OwnerInv
  <2>2. TypeOK'
    <3>1. progress' \in Progress
      <4>1. progress' = [NoProgress EXCEPT !.session = last + 1] /\ last + 1 \in 0..MaxSessions
        BY <1>3, <2>1
      <4> HIDE DEF NoProgress, SafetyInv, Confirm
      <4> QED BY <4>1, NoProgressType DEF Progress
    <3>2. focusOf' \in [Sessions -> 0..MaxFocus]
      BY <1>3, <2>1 DEF TypeOK
    <3>3. job' \in [Sessions -> {"none", "queued", "running", "ended"}]
      BY <1>3, <2>1 DEF TypeOK
    <3> QED BY <1>3, <2>1, <3>1, <3>2, <3>3 DEF TypeOK, Progress
  <2>3. OwnerInv'
    BY <1>3, <2>1 DEF TypeOK, OwnerInv
  <2>4. ShowsOwnDrain' /\ FinalStep
    BY <1>3, <2>1 DEF ShowsOwnDrain, FinalStep
  <2> QED BY <2>2, <2>3, <2>4
<1>4. CASE Escape
  <2>1. CASE progress.finished
    <3>1. confirm' = "closed" /\ StopDrain
      BY <1>4, <2>1 DEF Escape
    <3> QED BY <1>0, <1>4, <3>1, StopDrainKeeps DEF Escape
  <2>2. CASE ~progress.finished
    <3> USE SessionAssumption DEF SafetyInv, Sessions
    <3>1. /\ CancelDrain /\ progress' = [progress EXCEPT !.cancel = FALSE]
          /\ UNCHANGED <<generation, confirm, last, focusOf, parentDone, job, ack, news, shownOf>>
      BY <1>4, <2>2 DEF Escape
    <3>0. /\ stopped' \subseteq Sessions /\ released' \subseteq Sessions /\ stopped \subseteq stopped'
          /\ progress' \in Progress
      BY <3>1, CancelDrainFacts DEF TypeOK, Progress
    <3>2. TypeOK'
      BY <3>0, <3>1 DEF TypeOK, Progress
    <3>3. OwnerInv'
      BY <1>4, <2>2, <3>0, <3>1 DEF TypeOK, OwnerInv, Escape, NoProgress
    <3>4. ShowsOwnDrain' /\ FinalStep
      BY <2>2, <3>1 DEF ShowsOwnDrain, FinalStep, TypeOK
    <3> QED BY <3>2, <3>3, <3>4
  <2> QED BY <2>1, <2>2
<1>5. CASE QuitFromProgress
  BY <1>0, <1>5, StopDrainKeeps DEF QuitFromProgress
<1>6. CASE FocusContext
  BY <1>0, <1>6, StopDrainKeeps DEF FocusContext, KeysFree
<1> QED BY <1>1, <1>2, <1>3, <1>4, <1>5, <1>6 DEF User

\* Commands, drains and forwarders leave the dialogs alone.
LEMMA BackgroundKeeps ==
  ASSUME SafetyInv,
         Shutdown \/ UNCHANGED vars \/ \E s \in Sessions : Command(s) \/ Report(s) \/ End(s)
  PROVE  SafetyInv' /\ FinalStep
<1>1. UNCHANGED <<model, released>>
  BY DEF Shutdown, vars, Command, Skip, RefuseStart, Launch, Report, End
<1>2. /\ parentDone' \in BOOLEAN
      /\ job' \in [Sessions -> {"none", "queued", "running", "ended"}]
      /\ ack' \in [Sessions -> {"none", "ok", "err"}]
      /\ news' \in [Sessions -> {"none", "progress", "done", "gone"}]
      /\ \A s \in Sessions : job'[s] # "none" <=> job[s] # "none"
  <2> USE DEF SafetyInv, TypeOK
  <2>1. CASE Shutdown \/ UNCHANGED vars
    BY <2>1 DEF Shutdown, vars, jobs
  <2>2. ASSUME NEW s \in Sessions, Command(s)
        PROVE  <1>2!1 /\ <1>2!2 /\ <1>2!3 /\ <1>2!4 /\ <1>2!5
    BY <2>2 DEF Command, Skip, RefuseStart, Launch
  <2>3. ASSUME NEW s \in Sessions, Report(s) \/ End(s)
        PROVE  <1>2!1 /\ <1>2!2 /\ <1>2!3 /\ <1>2!4 /\ <1>2!5
    BY <2>3 DEF Report, End, Summary
  <2> QED BY <2>1, <2>2, <2>3
<1>3. TypeOK'
  BY <1>1, <1>2 DEF SafetyInv, TypeOK, model
<1>4. OwnerInv'
  BY <1>1, <1>2 DEF SafetyInv, OwnerInv, model
<1>5. ShowsOwnDrain' /\ FinalStep
  BY <1>1 DEF SafetyInv, ShowsOwnDrain, FinalStep, model
<1> QED BY <1>3, <1>4, <1>5 DEF SafetyInv

\* A message that the gate does not let through.
LEMMA DiscardKeeps ==
  ASSUME SafetyInv, UNCHANGED <<generation, confirm, progress, last, focusOf, stopped, shownOf,
                                parentDone, job>>,
         released' \subseteq Sessions,
         ack' \in [Sessions -> {"none", "ok", "err"}],
         news' \in [Sessions -> {"none", "progress", "done", "gone"}]
  PROVE  SafetyInv' /\ FinalStep
BY DEF SafetyInv, TypeOK, OwnerInv, ShowsOwnDrain, FinalStep

\* A message that is let through is of the dialog's session, which it leaves
\* open, or ended and cancelled.
LEMMA ApplyKeeps ==
  ASSUME SafetyInv, NEW s \in Sessions, Current(s),
         UNCHANGED <<generation, last, focusOf, parentDone, job>>,
         confirm' = "closed",
         progress' \in Progress, progress'.session = s,
         stopped' \subseteq Sessions, stopped \subseteq stopped',
         released' \subseteq Sessions,
         shownOf' \in {shownOf, shownOf \cup {s}},
         ack' \in [Sessions -> {"none", "ok", "err"}],
         news' \in [Sessions -> {"none", "progress", "done", "gone"}],
         IF progress'.finished THEN s \in stopped' ELSE progress'.open
  PROVE  SafetyInv' /\ FinalStep
<1> USE DEF SafetyInv, Current, Sessions
<1>1. TypeOK'
  BY DEF TypeOK, Progress
<1>2. OwnerInv'
  BY SessionAssumption DEF TypeOK, OwnerInv, NoProgress
<1>3. ShowsOwnDrain' /\ FinalStep
  BY DEF ShowsOwnDrain, FinalStep
<1> QED BY <1>1, <1>2, <1>3

LEMMA NewsKeeps ==
  ASSUME SafetyInv, NEW s \in Sessions, Deliver(s)
  PROVE  SafetyInv' /\ FinalStep
<1>0. /\ progress \in Progress /\ s # 0 /\ s \in 0..MaxSessions
      /\ stopped \subseteq Sessions /\ released \subseteq Sessions
      /\ ack \in [Sessions -> {"none", "ok", "err"}]
      /\ news \in [Sessions -> {"none", "progress", "done", "gone"}]
  BY SessionAssumption DEF SafetyInv, TypeOK, Sessions, Progress
<1>1. CASE DeliverStart(s)
  <2>1. /\ UNCHANGED <<generation, last, focusOf, parentDone, job, news>>
        /\ ack' \in [Sessions -> {"none", "ok", "err"}]
    BY <1>0, <1>1 DEF DeliverStart
  <2>2. CASE ~Current(s)
    <3>1. UNCHANGED <<confirm, progress, stopped, shownOf>> /\ released' \subseteq Sessions
      BY <1>0, <1>1, <2>2 DEF DeliverStart, Discard
    <3> QED BY <1>0, <2>1, <3>1, DiscardKeeps
  <2>3. CASE Current(s)
    <3>1. ApplyDrainStart(s) /\ s = progress.session
      BY <1>1, <2>3 DEF DeliverStart, Current
    <3>2. /\ confirm' = "closed" /\ UNCHANGED shownOf
          /\ stopped' \subseteq Sessions /\ stopped \subseteq stopped' /\ released' \subseteq Sessions
      BY <1>0, <3>1 DEF ApplyDrainStart, CancelDrain
    <3>3. /\ progress' \in Progress /\ progress'.session = s
          /\ IF progress'.finished THEN s \in stopped' ELSE progress'.open
      <4>1. CASE ack[s] = "err"
        <5>1. /\ CancelDrain
              /\ progress' = [progress EXCEPT !.acknowledged = TRUE, !.finished = TRUE,
                                              !.open = FALSE, !.cancel = FALSE]
          BY <3>1, <4>1 DEF ApplyDrainStart
        <5>2. progress' \in Progress /\ progress'.session = s /\ progress'.finished
          BY <1>0, <3>1, <5>1 DEF Progress
        <5>3. s \in stopped'
          BY <1>0, <3>1, <5>1, CancelDrainFacts
        <5> QED BY <5>2, <5>3
      <4>2. CASE ack[s] # "err"
        <5>1. progress' = [progress EXCEPT !.acknowledged = TRUE, !.open = TRUE,
                                           !.cancel = progress.session \notin stopped]
          BY <3>1, <4>2 DEF ApplyDrainStart
        <5>2. progress'.open /\ ~progress'.finished /\ progress'.session = s
          BY <1>0, <2>3, <3>1, <5>1 DEF Progress, Current
        <5>3. progress' \in Progress
          BY <1>0, <5>1 DEF Progress
        <5> QED BY <5>2, <5>3
      <4> QED BY <4>1, <4>2
    <3> QED BY <1>0, <2>1, <2>3, <3>2, <3>3, ApplyKeeps
  <2> QED BY <2>2, <2>3
<1>2. CASE DeliverProgress(s)
  <2>1. /\ UNCHANGED <<generation, last, focusOf, stopped, released, parentDone, job, ack>>
        /\ news' \in [Sessions -> {"none", "progress", "done", "gone"}]
    BY <1>0, <1>2 DEF DeliverProgress
  <2>2. CASE ~Current(s)
    BY <1>0, <1>2, <2>1, <2>2, DiscardKeeps DEF DeliverProgress
  <2>3. CASE Current(s)
    <3>1. /\ progress' = [progress EXCEPT !.open = TRUE] /\ confirm' = "closed"
          /\ shownOf' = shownOf \cup {s} /\ s = progress.session /\ ~progress.finished
      BY <1>2, <2>3 DEF DeliverProgress, Current
    <3>2. progress' \in Progress /\ progress'.session = s /\ ~progress'.finished /\ progress'.open
      BY <1>0, <3>1 DEF Progress
    <3> QED BY <1>0, <2>1, <2>3, <3>1, <3>2, ApplyKeeps
  <2> QED BY <2>2, <2>3
<1>3. ASSUME NEW incomplete \in BOOLEAN, DeliverDone(s, incomplete)
      PROVE  SafetyInv' /\ FinalStep
  <2>1. /\ UNCHANGED <<generation, last, focusOf, parentDone, job, ack>>
        /\ news' \in [Sessions -> {"none", "progress", "done", "gone"}]
    BY <1>0, <1>3 DEF DeliverDone
  <2>2. CASE ~Current(s)
    BY <1>0, <1>3, <2>1, <2>2, DiscardKeeps DEF DeliverDone
  <2>3. CASE Current(s)
    <3>1. /\ progress' = [progress EXCEPT !.finished = TRUE, !.open = incomplete,
                                          !.cancel = FALSE]
          /\ confirm' = "closed" /\ CancelDrain
          /\ shownOf' = shownOf \cup {s} /\ s = progress.session
      BY <1>3, <2>3 DEF DeliverDone, Current
    <3>2. progress' \in Progress /\ progress'.session = s /\ progress'.finished
      BY <1>0, <3>1 DEF Progress
    <3>3. /\ stopped' \subseteq Sessions /\ stopped \subseteq stopped' /\ s \in stopped'
          /\ released' \subseteq Sessions
      BY <1>0, <3>1 DEF CancelDrain
    <3> QED BY <1>0, <2>1, <2>3, <3>1, <3>2, <3>3, ApplyKeeps
  <2> QED BY <2>2, <2>3
<1> QED BY <1>1, <1>2, <1>3 DEF Deliver

LEMMA SessionStep == ASSUME SafetyInv, [Next]_vars PROVE SafetyInv' /\ FinalStep
BY UserKeeps, BackgroundKeeps, NewsKeeps DEF Next

\* The dialog's session is the last one, all others were told to stop, and a
\* session without a summary has its dialog on the screen.
THEOREM Invariance == Spec => []SafetyInv
<1>1. Init => SafetyInv
  BY SessionInit
<1>2. SafetyInv /\ [Next]_vars => SafetyInv'
  BY SessionStep
<1> QED BY <1>1, <1>2, PTL DEF Spec

\* No drain runs on without a dialog in which the user can cancel it.
THEOREM DrainsOwned == Spec => []LiveDrainOwned
<1>1. SafetyInv => LiveDrainOwned
  <2> SUFFICES ASSUME SafetyInv, NEW s \in Sessions, Live(s)
               PROVE  /\ s = progress.session /\ ~progress.finished
                      /\ confirm = "pending" \/ progress.open
    BY DEF LiveDrainOwned
  <2>1. s \notin stopped /\ s <= last /\ s # 0
    BY SessionAssumption DEF SafetyInv, OwnerInv, Live, Cancelled, Gone, Sessions
  <2> QED BY <2>1 DEF SafetyInv, OwnerInv
<1> QED BY <1>1, Invariance, PTL

\* What the progress dialog tells is of the drain it names.
THEOREM OwnProgress == Spec => []ShowsOwnDrain
<1>1. SafetyInv => ShowsOwnDrain
  BY DEF SafetyInv
<1> QED BY <1>1, Invariance, PTL

\* Nothing that arrives after the summary changes or reopens the dialog.
THEOREM SummaryIsFinal == Spec => FinishedIsFinal
<1>1. SafetyInv /\ [Next]_vars => [FinalStep]_vars
  BY SessionStep
<1> QED BY <1>1, Invariance, PTL DEF Spec, FinishedIsFinal, FinalStep

-----------------------------------------------------------------------------
(* PodTable.                                                               *)

\* Rows that are what rows are.
RowsOK(rs) == rs \in [Uids -> Row] /\ \A u \in Present(rs) : rs[u].uid = u

\* What is compared is a number.
LEMMA FieldFacts == ASSUME NEW r \in Row, NEW key PROVE Field(r, key) \in Int
<1>1. /\ r.phase \in Int /\ r.restarts \in Int
      /\ r.sample.cpu \in Int /\ r.sample.mem \in Int /\ r.rate.net \in Int
  BY DEF Row, Sample, Rate
<1> QED BY <1>1 DEF Field

\* The rows of two pods compare by the column, then by place and uid.
LEMMA LessFacts ==
  ASSUME NEW rs, RowsOK(rs), NEW key, NEW a \in Present(rs), NEW b \in Present(rs)
  PROVE  /\ a \in Uids /\ b \in Uids /\ a \in Nat /\ b \in Nat /\ Place[a] \in Nat /\ Place[b] \in Nat
         /\ Field(rs[a], key) \in Int /\ Field(rs[b], key) \in Int
         /\ LessBy(rs[a], rs[b], key) <=>
              \/ Field(rs[a], key) < Field(rs[b], key)
              \/ /\ Field(rs[a], key) = Field(rs[b], key)
                 /\ Place[a] < Place[b] \/ (Place[a] = Place[b] /\ a < b)
<1>1. a \in Uids /\ b \in Uids /\ a # 0 /\ b # 0
  BY PodTableAssumption DEF Present
<1>2. a \in Nat /\ b \in Nat /\ Place[a] \in Nat /\ Place[b] \in Nat
  BY <1>1, PodTableAssumption
<1>3. rs[a] \in Row /\ rs[b] \in Row /\ rs[a].uid = a /\ rs[b].uid = b
  BY <1>1 DEF RowsOK
<1>4. Field(rs[a], key) \in Int /\ Field(rs[b], key) \in Int
  BY <1>3, FieldFacts
<1> QED BY <1>1, <1>2, <1>3, <1>4 DEF LessBy

\* Whichever way, the order of the rows is one.
LEMMA LessOrders ==
  ASSUME NEW rs, RowsOK(rs), NEW sh
  PROVE  /\ \A a \in Present(rs) : ~LessUid(rs, a, a, sh)
         /\ \A a, b, c \in Present(rs) :
              LessUid(rs, a, b, sh) /\ LessUid(rs, b, c, sh) => LessUid(rs, a, c, sh)
         /\ \A a, b \in Present(rs) : a # b => LessUid(rs, a, b, sh) \/ LessUid(rs, b, a, sh)
<1> DEFINE L(a, b) == LessBy(rs[a], rs[b], sh.by)
           F(a) == Field(rs[a], sh.by)
<1>1. \A a \in Present(rs) : a \in Nat /\ Place[a] \in Nat /\ F(a) \in Int
  BY LessFacts
<1>2. \A a, b \in Present(rs) : L(a, b) <=>
              \/ F(a) < F(b)
              \/ F(a) = F(b) /\ (Place[a] < Place[b] \/ (Place[a] = Place[b] /\ a < b))
  BY LessFacts
<1>3. \A a, b \in Present(rs) : LessUid(rs, a, b, sh) <=> IF sh.desc THEN L(b, a) ELSE L(a, b)
  BY DEF LessUid
<1> HIDE DEF L, F
<1>4. \A a \in Present(rs) : ~L(a, a)
  BY <1>1, <1>2
<1>5. \A a, b, c \in Present(rs) : L(a, b) /\ L(b, c) => L(a, c)
  BY <1>1, <1>2
<1>6. \A a, b \in Present(rs) : a # b => L(a, b) \/ L(b, a)
  BY <1>1, <1>2
<1> QED BY <1>3, <1>4, <1>5, <1>6

\* The rows to be sorted are finitely many and can be.
LEMMA RowsOrdered ==
  ASSUME NEW rs, RowsOK(rs), NEW S \in SUBSET Uids, NEW sh, NEW T \in SUBSET (S \cap Present(rs))
  PROVE  IsFiniteSet(T) /\ Orders(RowOrder(rs, S, sh), T)
<1>1. IsFiniteSet(T)
  BY FS_Subset, PodTableAssumption
<1>2. \A a, b \in T : <<a, b>> \in RowOrder(rs, S, sh) <=> LessUid(rs, a, b, sh)
  BY DEF RowOrder
<1>3. Orders(RowOrder(rs, S, sh), T)
  <2> DEFINE R == RowOrder(rs, S, sh)
  <2> HIDE DEF R
  <2>0. \A a, b \in T : <<a, b>> \in R <=> LessUid(rs, a, b, sh)
    BY <1>2 DEF R
  <2>1. /\ \A a \in T : <<a, a>> \notin R
        /\ \A a, b \in T : a # b => <<a, b>> \in R \/ <<b, a>> \in R
    BY <2>0, LessOrders
  <2>2. \A a, b, c \in T : <<a, b>> \in R /\ <<b, c>> \in R => <<a, c>> \in R
    BY <2>0, LessOrders
  <2> QED BY <2>1, <2>2 DEF Orders, R
<1> QED BY <1>1, <1>3

\* sortedPodUIDs lists the rows asked for.
LEMMA SortedLists ==
  ASSUME NEW rs, RowsOK(rs), NEW S \in SUBSET Uids, NEW sh
  PROVE  /\ Lists(SortedUids(rs, S, sh), RowsIn(rs, S, sh.ns), RowOrder(rs, S, sh))
         /\ Len(SortedUids(rs, S, sh)) = Cardinality(RowsIn(rs, S, sh.ns))
<1>1. RowsIn(rs, S, sh.ns) \in SUBSET (S \cap Present(rs))
  BY DEF RowsIn
<1> QED BY <1>1, RowsOrdered, SequenceLists DEF SortedUids

-----------------------------------------------------------------------------
(* mergePodOrder as a recursion, which has a solution.                     *)

Places2(uids, changed) == (1..(Len(uids) + 1)) \X (1..(Len(changed) + 1))

MergeStep(uids, changed, sh, merge, p) ==
  IF p[1] > Len(uids) THEN SubSeq(changed, p[2], Len(changed))
  ELSE IF uids[p[1]] \in order.dirty THEN merge[<<p[1] + 1, p[2]>>]
  ELSE IF p[2] <= Len(changed) /\ LessUid(podRows, changed[p[2]], uids[p[1]], sh)
  THEN <<changed[p[2]]>> \o merge[<<p[1], p[2] + 1>>]
  ELSE <<uids[p[1]]>> \o merge[<<p[1] + 1, p[2]>>]

MergeIter(uids, changed, sh) ==
  CHOOSE merge : merge = [p \in Places2(uids, changed) |-> MergeStep(uids, changed, sh, merge, p)]

LEMMA MergeUnfolds == ASSUME NEW uids, NEW changed, NEW sh
                      PROVE Merge(uids, changed, sh) = MergeIter(uids, changed, sh)[<<1, 1>>]
BY DEF Merge, MergeIter, MergeStep, Places2

LEMMA MergeIsDefined ==
  ASSUME NEW uids, Len(uids) \in Nat, NEW changed, Len(changed) \in Nat, NEW sh
  PROVE  \A p \in Places2(uids, changed) :
           MergeIter(uids, changed, sh)[p] = MergeStep(uids, changed, sh, MergeIter(uids, changed, sh), p)
<1> DEFINE D == Places2(uids, changed)
           Step(g, p) == MergeStep(uids, changed, sh, g, p)
           togo(p) == (Len(uids) + 1 - p[1]) + (Len(changed) + 1 - p[2])
           Upto(d) == {p \in D : togo(p) <= d}
           G == {d \in Nat : \E g : g = [p \in Upto(d) |-> Step(g, p)]}
<1>1. \A p \in D : /\ p[1] \in 1..(Len(uids) + 1) /\ p[2] \in 1..(Len(changed) + 1)
                   /\ p = <<p[1], p[2]>>
  BY DEF Places2
<1>2. \A p \in D : togo(p) \in Nat
  BY <1>1
<1>3. ASSUME NEW d \in Nat, NEW g, NEW h, NEW p \in Upto(d + 1), \A q \in Upto(d) : g[q] = h[q]
      PROVE  Step(g, p) = Step(h, p)
  <2>1. p \in D
    OBVIOUS
  <2>2. p[1] <= Len(uids) => <<p[1] + 1, p[2]>> \in Upto(d)
    <3>1. p[1] <= Len(uids) => p[1] + 1 \in 1..(Len(uids) + 1)
      BY <1>1, <2>1, SMTT(30)
    <3>2. p[1] <= Len(uids) => <<p[1] + 1, p[2]>> \in D
      BY <1>1, <2>1, <3>1 DEF Places2
    <3>3. togo(<<p[1] + 1, p[2]>>) <= d
      <4>1. PICK a \in Nat, b \in Nat : a = p[1] /\ b = p[2]
        BY <1>1, <2>1
      <4>2. (Len(uids) + 1 - a) + (Len(changed) + 1 - b) <= d + 1
        BY <4>1
      <4>3. (Len(uids) + 1 - (a + 1)) + (Len(changed) + 1 - b) <= d
        BY <4>2
      <4> QED BY <4>1, <4>3
    <3> QED BY <3>2, <3>3
  <2>3. p[2] <= Len(changed) => <<p[1], p[2] + 1>> \in Upto(d)
    <3>1. p[2] <= Len(changed) => p[2] + 1 \in 1..(Len(changed) + 1)
      BY <1>1, <2>1, SMTT(30)
    <3>2. p[2] <= Len(changed) => <<p[1], p[2] + 1>> \in D
      BY <1>1, <2>1, <3>1 DEF Places2
    <3>3. togo(<<p[1], p[2] + 1>>) <= d
      <4>1. PICK a \in Nat, b \in Nat : a = p[1] /\ b = p[2]
        BY <1>1, <2>1
      <4>2. (Len(uids) + 1 - a) + (Len(changed) + 1 - b) <= d + 1
        BY <4>1
      <4>3. (Len(uids) + 1 - a) + (Len(changed) + 1 - (b + 1)) <= d
        BY <4>2
      <4> QED BY <4>1, <4>3
    <3> QED BY <3>2, <3>3
  <2>4. p[1] > Len(uids) \/ p[1] <= Len(uids)
    BY <1>1, <2>1
  <2> HIDE DEF Upto
  <2> QED BY <1>3, <2>2, <2>3, <2>4 DEF MergeStep
<1>4. ASSUME NEW d \in Nat PROVE Upto(d) \subseteq Upto(d + 1)
  <2> SUFFICES ASSUME NEW p \in Upto(d) PROVE togo(p) <= d + 1
    OBVIOUS
  <2>1. togo(p) \in Nat /\ togo(p) <= d
    BY <1>2
  <2> HIDE DEF togo
  <2> QED BY <2>1
<1>5. 0 \in G
  <2> DEFINE g == [p \in Upto(0) |-> SubSeq(changed, p[2], Len(changed))]
  <2>1. \A p \in Upto(0) : p[1] > Len(uids)
    BY <1>1
  <2>2. \A p \in Upto(0) : Step(g, p) = SubSeq(changed, p[2], Len(changed))
    BY <2>1 DEF MergeStep
  <2>3. g = [p \in Upto(0) |-> Step(g, p)]
    BY <2>2
  <2> HIDE DEF g, Upto, Step
  <2> QED BY <2>3
<1>6. ASSUME NEW d \in Nat, d \in G PROVE d + 1 \in G
  <2>1. PICK g : g = [p \in Upto(d) |-> Step(g, p)]
    BY <1>6
  <2> DEFINE h == [p \in Upto(d + 1) |-> Step(g, p)]
  <2>2. \A p \in Upto(d) : g[p] = h[p]
    <3> HIDE DEF Upto, Step
    <3> QED BY <1>4, <2>1
  <2>3. \A p \in Upto(d + 1) : Step(g, p) = Step(h, p)
    <3> HIDE DEF h, Upto, Step
    <3> QED BY <1>3, <2>2
  <2>4. h = [p \in Upto(d + 1) |-> Step(h, p)]
    <3> HIDE DEF Upto, Step
    <3> QED BY <2>3
  <2> HIDE DEF h, Upto, Step
  <2> QED BY <2>4
<1>7. Len(uids) + Len(changed) \in G
  <2> HIDE DEF G
  <2> QED BY <1>5, <1>6, CountUp
<1>8. Upto(Len(uids) + Len(changed)) = D
  BY <1>1
<1>9. \E g : g = [p \in D |-> Step(g, p)]
  <2> HIDE DEF Upto, Step, D
  <2> QED BY <1>7, <1>8
<1>10. MergeIter(uids, changed, sh) = [p \in D |-> Step(MergeIter(uids, changed, sh), p)]
  BY <1>9 DEF MergeIter
<1> HIDE DEF D, Step
<1> QED BY <1>10 DEF D, Step

\* The merge of rows that stayed, in their order among the marked ones, and of
\* the marked ones, sorted, is sorted.
LEMMA MergeLists ==
  ASSUME RowsOK(podRows), NEW sh, NEW T \in SUBSET Present(podRows), order.dirty \in SUBSET Uids,
         NEW uids \in Seq(Uids),
         \A u \in Uids \ order.dirty : (\E i \in DOMAIN uids : uids[i] = u) <=> u \in T,
         \A i, j \in DOMAIN uids : i < j /\ uids[i] \notin order.dirty /\ uids[j] \notin order.dirty
                                     => LessUid(podRows, uids[i], uids[j], sh),
         NEW changed, Lists(changed, T \cap order.dirty, RowOrder(podRows, order.dirty, sh))
  PROVE  Lists(Merge(uids, changed, sh), T, RowOrder(podRows, Uids, sh))
<1> DEFINE R == RowOrder(podRows, Uids, sh)
           n == Len(uids)
           m == Len(changed)
           D == Places2(uids, changed)
           M == MergeIter(uids, changed, sh)
           Kept(i) == {uids[k] : k \in {l \in i..n : uids[l] \notin order.dirty}}
           New(j) == {changed[k] : k \in j..m}
           Good(p) == Lists(M[p], Kept(p[1]) \cup New(p[2]), R)
           togo(p) == (n + 1 - p[1]) + (m + 1 - p[2])
           G == {d \in Nat : \A p \in D : togo(p) <= d => Good(p)}
<1>1. /\ changed \in Seq(T \cap order.dirty)
      /\ \A x \in T \cap order.dirty : \E i \in 1..m : changed[i] = x
      /\ \A i, j \in 1..m : i < j => <<changed[i], changed[j]>> \in RowOrder(podRows, order.dirty, sh)
  BY DEF Lists
<1>2. n \in Nat /\ m \in Nat /\ DOMAIN uids = 1..n
  BY <1>1
<1>3. /\ \A k \in 1..m : changed[k] \in T /\ changed[k] \in order.dirty
      /\ \A k \in 1..n : uids[k] \in Uids /\ (uids[k] \notin order.dirty => uids[k] \in T)
  BY <1>1, <1>2
<1>4. \A u \in T : u \in Present(podRows) /\ u \in Uids
  BY DEF Present
<1>5. \A a, b \in T : <<a, b>> \in R <=> LessUid(podRows, a, b, sh)
  BY <1>4 DEF RowOrder
<1>6. Lists(changed, T \cap order.dirty, R)
  <2>1. RowOrder(podRows, order.dirty, sh) \subseteq R
    BY DEF RowOrder
  <2> HIDE DEF R
  <2> QED BY <1>1, <2>1 DEF Lists
<1>7. \A p \in D : MergeIter(uids, changed, sh)[p] = MergeStep(uids, changed, sh, M, p)
  BY <1>2, MergeIsDefined
<1>8. \A p \in D : p[1] \in 1..(n + 1) /\ p[2] \in 1..(m + 1) /\ p = <<p[1], p[2]>>
  BY DEF Places2
<1>9. \A i \in 1..(n + 1), j \in 1..(m + 1) : <<i, j>> \in D
  BY DEF Places2
<1>10. \A i \in 1..(n + 1), j \in 1..(m + 1) : Kept(i) \subseteq T /\ New(j) \subseteq T /\ New(j) \subseteq order.dirty
  BY <1>2, <1>3
<1>11. \A i \in 1..n : Kept(i) = Kept(i + 1) \cup (IF uids[i] \in order.dirty THEN {} ELSE {uids[i]})
  <2> SUFFICES ASSUME NEW i \in 1..n
               PROVE  Kept(i) = Kept(i + 1) \cup (IF uids[i] \in order.dirty THEN {} ELSE {uids[i]})
    OBVIOUS
  <2>1. i..n = {i} \cup ((i + 1)..n)
    BY <1>2
  <2> QED BY <2>1
<1>12. \A j \in 1..m : New(j) = New(j + 1) \cup {changed[j]}
  <2> SUFFICES ASSUME NEW j \in 1..m PROVE New(j) = New(j + 1) \cup {changed[j]}
    OBVIOUS
  <2>1. j..m = {j} \cup ((j + 1)..m)
    BY <1>2
  <2> QED BY <2>1
<1>13. \A i \in 1..n : uids[i] \notin order.dirty => \A a \in Kept(i + 1) : <<uids[i], a>> \in R
  <2> SUFFICES ASSUME NEW i \in 1..n, uids[i] \notin order.dirty,
                      NEW k \in (i + 1)..n, uids[k] \notin order.dirty
               PROVE  <<uids[i], uids[k]>> \in R
    OBVIOUS
  <2>1. k \in 1..n /\ i < k
    BY <1>2
  <2>2. LessUid(podRows, uids[i], uids[k], sh)
    BY <1>2, <2>1
  <2> QED BY <1>3, <1>5, <2>1, <2>2
<1>14. \A j \in 1..m : \A a \in New(j + 1) : <<changed[j], a>> \in R
  <2> SUFFICES ASSUME NEW j \in 1..m, NEW k \in (j + 1)..m PROVE <<changed[j], changed[k]>> \in R
    OBVIOUS
  <2>1. k \in 1..m /\ j < k
    BY <1>2
  <2> QED BY <1>6, <2>1 DEF Lists
<1>15. \A a, b, c \in T : <<a, b>> \in R /\ <<b, c>> \in R => <<a, c>> \in R
  <2> HIDE DEF R
  <2> QED BY <1>4, <1>5, LessOrders
<1>16. \A a, b \in T : a # b => <<a, b>> \in R \/ <<b, a>> \in R
  <2> HIDE DEF R
  <2> QED BY <1>4, <1>5, LessOrders
<1>17. \A j \in 1..(m + 1) : Lists(SubSeq(changed, j, m), New(j), R)
  BY <1>6, ListedRest
<1>18. Kept(n + 1) = {}
  BY <1>2
<1> HIDE DEF Kept, New, M, R, D
<1>19. ASSUME NEW p \in D, NEW d \in Nat, d \in G, togo(p) <= d + 1 PROVE Good(p)
  <2>1. PICK i \in 1..(n + 1), j \in 1..(m + 1) : p = <<i, j>> /\ p[1] = i /\ p[2] = j
    BY <1>8
  <2>2. \A q \in D : togo(q) <= d => Good(q)
    BY <1>19
  <2>3. M[p] = MergeStep(uids, changed, sh, M, p)
    BY <1>7 DEF M
  <2>4. i <= n => <<i + 1, j>> \in D /\ Lists(M[<<i + 1, j>>], Kept(i + 1) \cup New(j), R)
    <3> SUFFICES ASSUME i <= n PROVE <<i + 1, j>> \in D /\ Lists(M[<<i + 1, j>>], Kept(i + 1) \cup New(j), R)
      OBVIOUS
    <3>1. i + 1 \in 1..(n + 1)
      BY <1>2
    <3>2. <<i + 1, j>> \in D
      BY <1>9, <3>1
    <3>3. togo(<<i + 1, j>>) <= d
      BY <1>2, <1>19, <2>1
    <3> QED BY <2>2, <3>2, <3>3
  <2>5. j <= m => <<i, j + 1>> \in D /\ Lists(M[<<i, j + 1>>], Kept(i) \cup New(j + 1), R)
    <3> SUFFICES ASSUME j <= m PROVE <<i, j + 1>> \in D /\ Lists(M[<<i, j + 1>>], Kept(i) \cup New(j + 1), R)
      OBVIOUS
    <3>1. j + 1 \in 1..(m + 1)
      BY <1>2
    <3>2. <<i, j + 1>> \in D
      BY <1>9, <3>1
    <3>3. togo(<<i, j + 1>>) <= d
      BY <1>2, <1>19, <2>1
    <3> QED BY <2>2, <3>2, <3>3
  <2> SUFFICES Lists(M[p], Kept(i) \cup New(j), R)
    BY <2>1
  <2>6. CASE i > n
    <3>1. i = n + 1
      BY <1>2, <2>6
    <3>2. M[p] = SubSeq(changed, j, m)
      BY <2>1, <2>3, <2>6 DEF MergeStep
    <3> QED BY <1>17, <1>18, <3>1, <3>2
  <2>7. CASE i <= n
    <3>0. i \in 1..n /\ ~(i > n)
      BY <1>2, <2>7
    <3>1. CASE uids[i] \in order.dirty
      <4>1. M[p] = M[<<i + 1, j>>]
        BY <2>1, <2>3, <3>0, <3>1 DEF MergeStep
      <4>2. Kept(i) = Kept(i + 1)
        BY <1>11, <3>0, <3>1
      <4> QED BY <2>4, <2>7, <4>1, <4>2
    <3>2. CASE uids[i] \notin order.dirty /\ j <= m /\ LessUid(podRows, changed[j], uids[i], sh)
      <4>0. j \in 1..m
        BY <1>2, <3>2
      <4>1. M[p] = <<changed[j]>> \o M[<<i, j + 1>>]
        BY <2>1, <2>3, <3>0, <3>2 DEF MergeStep
      <4>2. uids[i] \in T /\ changed[j] \in T /\ <<changed[j], uids[i]>> \in R
        BY <1>3, <1>5, <3>0, <3>2, <4>0
      <4>3. \A a \in Kept(i) : a \in T /\ (a = uids[i] \/ <<uids[i], a>> \in R)
        BY <1>10, <1>11, <1>13, <2>1, <3>0, <3>2
      <4>4. \A a \in Kept(i) : <<changed[j], a>> \in R
        BY <1>15, <4>2, <4>3
      <4>5. \A a \in Kept(i) \cup New(j + 1) : <<changed[j], a>> \in R
        BY <1>14, <4>0, <4>4
      <4>6. (Kept(i) \cup New(j + 1)) \cup {changed[j]} = Kept(i) \cup New(j)
        BY <1>12, <4>0
      <4>7. Lists(M[<<i, j + 1>>], Kept(i) \cup New(j + 1), R)
        BY <2>5, <3>2
      <4>8. Lists(<<changed[j]>> \o M[<<i, j + 1>>], (Kept(i) \cup New(j + 1)) \cup {changed[j]}, R)
        BY <4>5, <4>7, PutFirst
      <4> QED BY <4>1, <4>6, <4>8
    <3>3. CASE uids[i] \notin order.dirty /\ ~(j <= m /\ LessUid(podRows, changed[j], uids[i], sh))
      <4>1. M[p] = <<uids[i]>> \o M[<<i + 1, j>>]
        BY <2>1, <2>3, <3>0, <3>3 DEF MergeStep
      <4>2. uids[i] \in T
        BY <1>3, <3>0, <3>3
      <4>3. \A a \in New(j) : <<uids[i], a>> \in R
        <5>1. CASE j <= m
          <6>0. j \in 1..m
            BY <1>2, <5>1
          <6>1. changed[j] \in T /\ changed[j] # uids[i] /\ ~(<<changed[j], uids[i]>> \in R)
            BY <1>3, <1>5, <3>3, <4>2, <5>1, <6>0
          <6>2. <<uids[i], changed[j]>> \in R
            BY <1>16, <4>2, <6>1
          <6>3. \A a \in New(j) : a \in T /\ (a = changed[j] \/ <<changed[j], a>> \in R)
            BY <1>10, <1>12, <1>14, <2>1, <6>0
          <6> QED BY <1>15, <4>2, <6>1, <6>2, <6>3
        <5>2. CASE ~(j <= m)
          <6>1. j..m = {}
            BY <1>2, <5>2
          <6> QED BY <6>1 DEF New
        <5> QED BY <5>1, <5>2
      <4>4. \A a \in Kept(i + 1) \cup New(j) : <<uids[i], a>> \in R
        BY <1>13, <3>0, <3>3, <4>3
      <4>5. (Kept(i + 1) \cup New(j)) \cup {uids[i]} = Kept(i) \cup New(j)
        BY <1>11, <3>0, <3>3
      <4>6. Lists(<<uids[i]>> \o M[<<i + 1, j>>], (Kept(i + 1) \cup New(j)) \cup {uids[i]}, R)
        BY <2>4, <2>7, <4>4, PutFirst
      <4> QED BY <4>1, <4>5, <4>6
    <3> QED BY <3>1, <3>2, <3>3
  <2> QED BY <1>2, <2>6, <2>7
<1>20. 0 \in G
  <2> SUFFICES ASSUME NEW p \in D, togo(p) <= 0 PROVE Good(p)
    OBVIOUS
  <2>1. p[1] = n + 1 /\ p[2] = m + 1
    BY <1>2, <1>8
  <2>2. M[p] = SubSeq(changed, m + 1, m)
    <3>1. M[p] = MergeStep(uids, changed, sh, M, p)
      BY <1>7 DEF M
    <3>2. p[1] > Len(uids)
      BY <1>2, <2>1
    <3> QED BY <2>1, <3>1, <3>2 DEF MergeStep
  <2>3. m + 1 \in 1..(m + 1)
    BY <1>2
  <2> QED BY <1>17, <1>18, <2>1, <2>2, <2>3
<1>21. ASSUME NEW d \in Nat, d \in G PROVE d + 1 \in G
  <2> HIDE DEF Good, togo
  <2> QED BY <1>19, <1>21
<1>22. n + m \in G
  <2> HIDE DEF G
  <2> QED BY <1>2, <1>20, <1>21, CountUp
<1>23. Good(<<1, 1>>)
  <2>1. 1 \in 1..(n + 1) /\ 1 \in 1..(m + 1)
    BY <1>2
  <2>2. <<1, 1>> \in D
    BY <1>9, <2>1
  <2>3. togo(<<1, 1>>) <= n + m
    BY <1>2
  <2> HIDE DEF Good, togo
  <2> QED BY <1>22, <2>2, <2>3
<1>24. Kept(1) \cup New(1) = T
  <2>1. Kept(1) \cup New(1) \subseteq T
    <3>1. 1 \in 1..(n + 1) /\ 1 \in 1..(m + 1)
      BY <1>2
    <3> QED BY <1>10, <3>1
  <2>2. ASSUME NEW u \in T PROVE u \in Kept(1) \cup New(1)
    <3>1. CASE u \in order.dirty
      <4>1. PICK k \in 1..m : changed[k] = u
        BY <1>1, <3>1
      <4> QED BY <4>1 DEF New
    <3>2. CASE u \notin order.dirty
      <4>1. PICK k \in 1..n : uids[k] = u
        BY <1>2, <1>4, <3>2
      <4> QED BY <3>2, <4>1 DEF Kept
    <3> QED BY <3>1, <3>2
  <2> QED BY <2>1, <2>2
<1>25. Merge(uids, changed, sh) = M[<<1, 1>>]
  BY MergeUnfolds DEF M
<1>26. Lists(M[<<1, 1>>], Kept(1) \cup New(1), R)
  BY <1>23
<1> QED BY <1>24, <1>25, <1>26 DEF R

-----------------------------------------------------------------------------
(* What is cached is what there is.                                        *)

LEMMA TypeFacts ==
  ASSUME TableInv
  PROVE  /\ RowsOK(podRows) /\ order.valid \in BOOLEAN /\ order.dirty \in SUBSET Uids
         /\ shown \in Shows /\ shown.ns \in Namespaces \cup {All} /\ cursor \in Uids \cup {0}
BY DEF TableInv, TableTypeOK, RowsOK, Shows

\* The table drawn, from the cache, repaired or built again, is the sorted one.
LEMMA TablesRight ==
  ASSUME TableInv, NEW sh
  PROVE  TableUids(sh) = SortedUids(podRows, Uids, sh)
<1> DEFINE T == RowsIn(podRows, Uids, sh.ns)
           R == RowOrder(podRows, Uids, sh)
<1>0. RowsOK(podRows) /\ order.dirty \in SUBSET Uids
  BY TypeFacts
<1>1. T \in SUBSET (Uids \cap Present(podRows)) /\ T \in SUBSET Present(podRows)
  BY DEF RowsIn
<1>2. IsFiniteSet(T) /\ Orders(R, T)
  BY <1>0, <1>1, RowsOrdered
<1>3. ASSUME order.valid, order.key[1] = sh
      PROVE  /\ order.uids \in Seq(Uids)
             /\ \A u \in Uids \ order.dirty : (\E i \in DOMAIN order.uids : order.uids[i] = u) <=> u \in T
             /\ \A i, j \in DOMAIN order.uids :
                  i < j /\ order.uids[i] \notin order.dirty /\ order.uids[j] \notin order.dirty
                    => LessUid(podRows, order.uids[i], order.uids[j], sh)
  BY <1>3 DEF TableInv, OrderFits
<1>4. CASE order.valid /\ order.key = TableKey(sh) /\ order.dirty = {}
  <2>1. order.key[1] = sh
    BY <1>4 DEF TableKey
  <2>2. Lists(order.uids, T, R)
    <3>1. order.uids \in Seq(Uids) /\ DOMAIN order.uids = 1..Len(order.uids) /\ Len(order.uids) \in Nat
      BY <1>3, <1>4, <2>1
    <3>2. \A u \in Uids : (\E i \in 1..Len(order.uids) : order.uids[i] = u) <=> u \in T
      BY <1>3, <1>4, <2>1, <3>1
    <3>3. \A i \in 1..Len(order.uids) : order.uids[i] \in Uids /\ order.uids[i] \in T
      BY <3>1, <3>2
    <3>4. order.uids \in Seq(T)
      <4>1. order.uids = [i \in 1..Len(order.uids) |-> order.uids[i]]
        BY <3>1
      <4> HIDE DEF T
      <4> QED BY <3>1, <3>3, <4>1
    <3>5. \A i, j \in 1..Len(order.uids) : i < j => <<order.uids[i], order.uids[j]>> \in R
      BY <1>3, <1>4, <2>1, <3>1, <3>3 DEF RowOrder
    <3>6. \A u \in T : \E i \in 1..Len(order.uids) : order.uids[i] = u
      BY <1>1, <3>2
    <3> HIDE DEF T, R
    <3> QED BY <3>4, <3>5, <3>6 DEF Lists
  <2>3. order.uids = InSequence(T, R)
    <3> HIDE DEF T, R
    <3> QED BY <1>2, <2>2, OneSequence
  <2> QED BY <1>4, <2>3 DEF TableUids, SortedUids
<1>5. CASE ~(order.valid /\ order.key = TableKey(sh) /\ order.dirty = {})
           /\ order.valid /\ order.key[1] = sh /\ order.dirty # {}
  <2> DEFINE changed == SortedUids(podRows, order.dirty, sh)
  <2>1. Lists(changed, RowsIn(podRows, order.dirty, sh.ns), RowOrder(podRows, order.dirty, sh))
    BY <1>0, SortedLists
  <2>2. RowsIn(podRows, order.dirty, sh.ns) = T \cap order.dirty
    BY <1>0 DEF RowsIn
  <2> HIDE DEF changed
  <2>3. Lists(changed, T \cap order.dirty, RowOrder(podRows, order.dirty, sh))
    BY <2>1, <2>2
  <2>4. Lists(Merge(order.uids, changed, sh), T, R)
    <3> HIDE DEF T
    <3> QED BY <1>0, <1>1, <1>3, <1>5, <2>3, MergeLists
  <2>5. Merge(order.uids, changed, sh) = InSequence(T, R)
    <3> HIDE DEF T, R
    <3> QED BY <1>2, <2>4, OneSequence
  <2> QED BY <1>5, <2>5 DEF TableUids, Merged, SortedUids, changed
<1>6. CASE ~(order.valid /\ order.key = TableKey(sh) /\ order.dirty = {})
           /\ ~(order.valid /\ order.key[1] = sh /\ order.dirty # {})
  BY <1>6 DEF TableUids
<1> QED BY <1>4, <1>5, <1>6

\* It has every row there is in the namespace, and no other.
LEMMA TableHas ==
  ASSUME TableInv, NEW sh
  PROVE  /\ TableUids(sh) \in Seq(RowsIn(podRows, Uids, sh.ns))
         /\ Len(TableUids(sh)) = Cardinality(RowsIn(podRows, Uids, sh.ns))
         /\ Lists(TableUids(sh), RowsIn(podRows, Uids, sh.ns), RowOrder(podRows, Uids, sh))
<1>1. RowsOK(podRows) /\ Uids \in SUBSET Uids
  BY TypeFacts
<1>2. /\ Lists(SortedUids(podRows, Uids, sh), RowsIn(podRows, Uids, sh.ns), RowOrder(podRows, Uids, sh))
      /\ Len(SortedUids(podRows, Uids, sh)) = Cardinality(RowsIn(podRows, Uids, sh.ns))
  BY <1>1, SortedLists
<1> QED BY <1>2, TablesRight DEF Lists

\* The count in the header is of the rows of the namespace.
LEMMA CountRight ==
  ASSUME TableInv PROVE TableCount = Cardinality(RowsIn(podRows, Uids, shown.ns))
<1>1. CASE shown.ns = All
  <2>1. RowsIn(podRows, Uids, shown.ns) = Present(podRows)
    BY <1>1 DEF RowsIn, Visible, Present
  <2> QED BY <1>1, <2>1 DEF TableCount, Size
<1>2. CASE shown.ns # All /\ order.counted = TableKey(shown)
  <2>1. order.counted = <<shown, Size>>
    BY <1>2 DEF TableKey
  <2>2. order.counted # <<>> /\ order.counted[1] = shown
    BY <2>1
  <2>3. order.count = Cardinality(RowsIn(podRows, Uids, shown.ns))
    BY <2>2 DEF TableInv, CountFits
  <2> QED BY <1>2, <2>3 DEF TableCount
<1>3. CASE shown.ns # All /\ order.counted # TableKey(shown)
  BY <1>3 DEF TableCount
<1> QED BY <1>1, <1>2, <1>3

\* A table that was drawn is as it should be.
LEMMA DrawnFits ==
  ASSUME TableInv, NEW sh \in Shows
  PROVE  /\ OrderFits(Drawn(sh), podRows) /\ CountFits(Drawn(sh), podRows)
         /\ Drawn(sh) \in [valid : BOOLEAN, key : {Drawn(sh).key}, uids : {Drawn(sh).uids}, dirty : SUBSET Uids,
                           counted : {Drawn(sh).counted}, count : {Drawn(sh).count}]
         /\ Drawn(sh).uids = TableUids(sh)
<1> DEFINE o == Drawn(sh)
           s == TableUids(sh)
           T == RowsIn(podRows, Uids, sh.ns)
<1>1. /\ o.key = <<sh, Size>> /\ o.uids = s /\ o.dirty = {} /\ o.counted = <<sh, Size>> /\ o.count = Len(s)
      /\ o = [valid |-> TRUE, key |-> o.key, uids |-> s, dirty |-> {}, counted |-> o.counted, count |-> o.count]
  BY DEF Drawn, TableKey
<1>2. /\ s \in Seq(T) /\ Len(s) = Cardinality(T) /\ Lists(s, T, RowOrder(podRows, Uids, sh))
  BY TableHas
<1>3. T \subseteq Uids
  BY DEF RowsIn
<1> HIDE DEF o, s, T
<1>4. DOMAIN s = 1..Len(s) /\ s \in Seq(Uids)
  BY <1>2, <1>3
<1>5. \A u \in Uids : (\E i \in DOMAIN s : s[i] = u) <=> u \in T
  <2>1. \A i \in DOMAIN s : s[i] \in T
    BY <1>2
  <2> QED BY <1>2, <1>4, <2>1 DEF Lists
<1>6. \A i, j \in DOMAIN s : i < j => LessUid(podRows, s[i], s[j], sh)
  BY <1>2, <1>4 DEF Lists, RowOrder
<1>7. OrderFits(o, podRows)
  BY <1>1, <1>4, <1>5, <1>6 DEF OrderFits, T
<1>8. CountFits(o, podRows)
  <2>1. o.counted[1] = sh
    BY <1>1
  <2> QED BY <1>1, <1>2, <2>1 DEF CountFits, T
<1>9. o \in [valid : BOOLEAN, key : {o.key}, uids : {o.uids}, dirty : SUBSET Uids,
             counted : {o.counted}, count : {o.count}]
  <2>1. ASSUME NEW k, NEW us, NEW c, NEW n
        PROVE  [valid |-> TRUE, key |-> k, uids |-> us, dirty |-> {}, counted |-> c, count |-> n]
                 \in [valid : BOOLEAN, key : {k}, uids : {us}, dirty : SUBSET Uids, counted : {c}, count : {n}]
    OBVIOUS
  <2>2. /\ o = [valid |-> TRUE, key |-> o.key, uids |-> o.uids, dirty |-> {}, counted |-> o.counted, count |-> o.count]
    BY <1>1
  <2>3. [valid |-> TRUE, key |-> o.key, uids |-> o.uids, dirty |-> {}, counted |-> o.counted, count |-> o.count]
          \in [valid : BOOLEAN, key : {o.key}, uids : {o.uids}, dirty : SUBSET Uids,
               counted : {o.counted}, count : {o.count}]
    BY <2>1
  <2> QED BY <2>2, <2>3, Zenon
<1> QED BY <1>1, <1>7, <1>8, <1>9 DEF o, s

-----------------------------------------------------------------------------
(* Changed rows.                                                           *)

\* A row that did not move compares as it did.
LEMMA Unmoved ==
  ASSUME TableInv, NEW rs, RowsOK(rs), NEW u \in Uids, rs[u] = podRows[u] \/ ~Moved(podRows[u], rs[u])
  PROVE  /\ u \in Present(rs) <=> u \in Present(podRows)
         /\ Field(rs[u], order.key[1].by) = Field(podRows[u], order.key[1].by)
<1>0. RowsOK(podRows) /\ u # 0
  BY TypeFacts, PodTableAssumption
<1>1. NoRow.uid = 0
  BY DEF NoRow
<1>2. \A r \in {rs[u], podRows[u]} : r \in Row /\ Field(r, order.key[1].by) \in Int /\ (r = NoRow \/ r.uid = u)
  <2>1. rs[u] \in Row /\ podRows[u] \in Row
    BY <1>0 DEF RowsOK
  <2> QED BY <1>0, <2>1, FieldFacts DEF RowsOK, Present
<1>3. CASE rs[u] = podRows[u]
  BY <1>3 DEF Present
<1>4. CASE ~Moved(podRows[u], rs[u])
  <2>1. /\ podRows[u].uid = rs[u].uid
        /\ ~LessBy(podRows[u], rs[u], order.key[1].by) /\ ~LessBy(rs[u], podRows[u], order.key[1].by)
    BY <1>4 DEF Moved
  <2>2. u \in Present(rs) <=> u \in Present(podRows)
    BY <1>0, <1>1, <1>2, <2>1 DEF Present
  <2>3. /\ ~(Field(podRows[u], order.key[1].by) < Field(rs[u], order.key[1].by))
        /\ ~(Field(rs[u], order.key[1].by) < Field(podRows[u], order.key[1].by))
    BY <2>1 DEF LessBy
  <2> QED BY <1>2, <2>2, <2>3
<1> QED BY <1>3, <1>4

\* invalidatePodOrder leaves nothing in a cache that the new rows deny.
LEMMA InvalidateKeeps ==
  ASSUME TableInv, NEW rs, RowsOK(rs), Invalidate(rs)
  PROVE  /\ podRows' = rs
         /\ order' \in [valid : BOOLEAN, key : {order'.key}, uids : {order'.uids}, dirty : SUBSET Uids,
                        counted : {order'.counted}, count : {order'.count}]
         /\ OrderFits(order', rs) /\ CountFits(order', rs)
         /\ dashOrder' \in [valid : BOOLEAN, ns : {dashOrder'.ns}, size : {dashOrder'.size}, got : {dashOrder'.got}]
         /\ dashOrder'.valid => dashOrder'.got = DashOf(rs, dashOrder'.ns)
<1> DEFINE changed == {u \in Uids : rs[u] # podRows[u]}
           appeared == {u \in changed : rs[u].uid # podRows[u].uid}
           moved == {u \in changed : Moved(podRows[u], rs[u])}
<1>0. /\ RowsOK(podRows) /\ order.valid \in BOOLEAN /\ order.dirty \in SUBSET Uids
      /\ order \in [valid : BOOLEAN, key : {order.key}, uids : {order.uids}, dirty : SUBSET Uids,
                    counted : {order.counted}, count : {order.count}]
      /\ dashOrder \in [valid : BOOLEAN, ns : {dashOrder.ns}, size : {dashOrder.size}, got : {dashOrder.got}]
  BY TypeFacts DEF TableInv, TableTypeOK
<1>1. /\ podRows' = rs
      /\ order' = [order EXCEPT !.counted = IF appeared # {} THEN <<>> ELSE @,
                                !.dirty = IF order.valid THEN @ \cup moved ELSE @]
      /\ dashOrder' = IF \E u \in changed : u \in appeared \/ Load(rs[u]) # Load(podRows[u]) THEN NoCache ELSE dashOrder
  BY DEF Invalidate
<1>2. /\ order'.valid = order.valid /\ order'.key = order.key /\ order'.uids = order.uids
      /\ order'.counted = (IF appeared # {} THEN <<>> ELSE order.counted) /\ order'.count = order.count
      /\ order'.dirty = (IF order.valid THEN order.dirty \cup moved ELSE order.dirty)
      /\ order' = [valid |-> order'.valid, key |-> order'.key, uids |-> order'.uids, dirty |-> order'.dirty,
                   counted |-> order'.counted, count |-> order'.count]
  <2> HIDE DEF appeared, moved
  <2> QED BY <1>0, <1>1
<1>3. order'.dirty \in SUBSET Uids /\ order'.valid \in BOOLEAN
  BY <1>0, <1>2
<1>4. order' \in [valid : BOOLEAN, key : {order'.key}, uids : {order'.uids}, dirty : SUBSET Uids,
                  counted : {order'.counted}, count : {order'.count}]
  <2> HIDE DEF appeared, moved
  <2> QED BY <1>2, <1>3
<1>5. ASSUME order.valid PROVE OrderFits(order', rs)
  <2> DEFINE sh == order.key[1]
  <2>1. order'.dirty = order.dirty \cup moved
    BY <1>2, <1>5
  <2>2. \A u \in Uids \ order'.dirty : /\ u \in Present(rs) <=> u \in Present(podRows)
                                       /\ Field(rs[u], sh.by) = Field(podRows[u], sh.by)
    <3> SUFFICES ASSUME NEW u \in Uids \ order'.dirty
                 PROVE  /\ u \in Present(rs) <=> u \in Present(podRows)
                        /\ Field(rs[u], sh.by) = Field(podRows[u], sh.by)
      OBVIOUS
    <3>1. u \in Uids /\ (rs[u] = podRows[u] \/ ~Moved(podRows[u], rs[u]))
      BY <2>1
    <3> QED BY <3>1, Unmoved
  <2>3. /\ sh \in Shows /\ order.uids \in Seq(Uids)
        /\ \A u \in Uids \ order.dirty : (\E i \in DOMAIN order.uids : order.uids[i] = u) <=> u \in RowsIn(podRows, Uids, sh.ns)
        /\ \A i, j \in DOMAIN order.uids :
             i < j /\ order.uids[i] \notin order.dirty /\ order.uids[j] \notin order.dirty
               => LessUid(podRows, order.uids[i], order.uids[j], sh)
    BY <1>5 DEF TableInv, OrderFits
  <2>4. \A u \in Uids \ order'.dirty : u \in RowsIn(rs, Uids, sh.ns) <=> u \in RowsIn(podRows, Uids, sh.ns)
    BY <2>2 DEF RowsIn
  <2> HIDE DEF moved, sh
  <2>5. \A a, b \in Uids \ order'.dirty :
          a \in Present(podRows) /\ b \in Present(podRows)
            => (LessUid(rs, a, b, sh) <=> LessUid(podRows, a, b, sh))
    <3> SUFFICES ASSUME NEW a \in Uids \ order'.dirty, NEW b \in Uids \ order'.dirty,
                        a \in Present(podRows), b \in Present(podRows)
                 PROVE  LessUid(rs, a, b, sh) <=> LessUid(podRows, a, b, sh)
      OBVIOUS
    <3>1. a \in Present(rs) /\ b \in Present(rs)
      BY <2>2
    <3>2. /\ LessBy(rs[a], rs[b], sh.by) <=> LessBy(podRows[a], podRows[b], sh.by)
          /\ LessBy(rs[b], rs[a], sh.by) <=> LessBy(podRows[b], podRows[a], sh.by)
      <4> DEFINE key == sh.by
      <4> HIDE DEF key
      <4>1. /\ Field(rs[a], key) = Field(podRows[a], key) /\ Field(rs[b], key) = Field(podRows[b], key)
        BY <2>2 DEF key
      <4>2. LessBy(rs[a], rs[b], key) <=> LessBy(podRows[a], podRows[b], key)
        <5>1. LessBy(rs[a], rs[b], key) <=>
                \/ Field(rs[a], key) < Field(rs[b], key)
                \/ Field(rs[a], key) = Field(rs[b], key) /\ (Place[a] < Place[b] \/ (Place[a] = Place[b] /\ a < b))
          BY <3>1, LessFacts
        <5>2. LessBy(podRows[a], podRows[b], key) <=>
                \/ Field(podRows[a], key) < Field(podRows[b], key)
                \/ Field(podRows[a], key) = Field(podRows[b], key) /\ (Place[a] < Place[b] \/ (Place[a] = Place[b] /\ a < b))
          BY <1>0, LessFacts
        <5> QED BY <4>1, <5>1, <5>2
      <4>3. LessBy(rs[b], rs[a], key) <=> LessBy(podRows[b], podRows[a], key)
        <5>1. LessBy(rs[b], rs[a], key) <=>
                \/ Field(rs[b], key) < Field(rs[a], key)
                \/ Field(rs[b], key) = Field(rs[a], key) /\ (Place[b] < Place[a] \/ (Place[b] = Place[a] /\ b < a))
          BY <3>1, LessFacts
        <5>2. LessBy(podRows[b], podRows[a], key) <=>
                \/ Field(podRows[b], key) < Field(podRows[a], key)
                \/ Field(podRows[b], key) = Field(podRows[a], key) /\ (Place[b] < Place[a] \/ (Place[b] = Place[a] /\ b < a))
          BY <1>0, LessFacts
        <5> QED BY <4>1, <5>1, <5>2
      <4> QED BY <4>2, <4>3 DEF key
    <3> QED BY <3>2 DEF LessUid
  <2>6. \A i \in DOMAIN order.uids : order.uids[i] \in Uids
    BY <2>3
  <2>7. \A i \in DOMAIN order.uids : order.uids[i] \notin order.dirty => order.uids[i] \in Present(podRows)
    BY <2>3, <2>6 DEF RowsIn
  <2>8. \A i, j \in DOMAIN order.uids :
          i < j /\ order.uids[i] \notin order'.dirty /\ order.uids[j] \notin order'.dirty
            => LessUid(rs, order.uids[i], order.uids[j], sh)
    BY <2>1, <2>3, <2>5, <2>6, <2>7
  <2>9. \A u \in Uids \ order'.dirty : (\E i \in DOMAIN order.uids : order.uids[i] = u) <=> u \in RowsIn(rs, Uids, sh.ns)
    BY <2>1, <2>3, <2>4
  <2> QED BY <1>2, <2>3, <2>8, <2>9 DEF OrderFits, sh
<1>6. ASSUME ~order.valid PROVE OrderFits(order', rs)
  BY <1>2, <1>6 DEF OrderFits
<1>7. ASSUME appeared = {} PROVE Present(rs) = Present(podRows)
  <2> SUFFICES ASSUME NEW u \in Uids PROVE u \in Present(rs) <=> u \in Present(podRows)
    BY DEF Present
  <2>1. rs[u].uid = podRows[u].uid
    BY <1>7
  <2>2. u # 0 /\ NoRow.uid = 0
    BY PodTableAssumption DEF NoRow
  <2> HIDE DEF appeared
  <2> QED BY <1>0, <2>1, <2>2 DEF RowsOK, Present
<1>8. CountFits(order', rs)
  <2>1. CASE appeared # {}
    BY <1>2, <2>1 DEF CountFits
  <2>2. CASE appeared = {}
    <3>1. \A ns : RowsIn(rs, Uids, ns) = RowsIn(podRows, Uids, ns)
      BY <1>7, <2>2 DEF RowsIn
    <3>2. order'.counted = order.counted /\ order'.count = order.count
      BY <1>2, <2>2
    <3>3. CountFits(order, podRows)
      BY DEF TableInv
    <3> QED BY <3>1, <3>2, <3>3 DEF CountFits
  <2> QED BY <2>1, <2>2
<1>9. CASE \E u \in changed : u \in appeared \/ Load(rs[u]) # Load(podRows[u])
  <2>1. dashOrder' = NoCache
    BY <1>1, <1>9
  <2>2. dashOrder' \in [valid : BOOLEAN, ns : {dashOrder'.ns}, size : {dashOrder'.size}, got : {dashOrder'.got}] /\ ~dashOrder'.valid
    BY <2>1 DEF NoCache
  <2> QED BY <1>1, <1>4, <1>5, <1>6, <1>8, <2>2
<1>10. CASE ~ \E u \in changed : u \in appeared \/ Load(rs[u]) # Load(podRows[u])
  <2>1. dashOrder' = dashOrder
    BY <1>1, <1>10
  <2>2. appeared = {} /\ \A u \in Uids : Load(rs[u]) = Load(podRows[u])
    BY <1>10
  <2>3. /\ \A u \in Uids : rs[u].sample.cpu = podRows[u].sample.cpu
        /\ \A u \in Uids, key \in {"cpu", "mem"} : Field(rs[u], key) = Field(podRows[u], key)
    BY <2>2 DEF Load, Field
  <2>4. \A ns : WithReading(rs, ns) = WithReading(podRows, ns)
    BY <1>7, <2>2, <2>3 DEF WithReading, RowsIn
  <2>5. \A S \in SUBSET Uids, key \in {"cpu", "mem"} : DashLess(rs, S, key) = DashLess(podRows, S, key)
    BY <2>3 DEF DashLess
  <2>6. \A ns : DashOf(rs, ns) = DashOf(podRows, ns)
    <3>1. \A ns : WithReading(rs, ns) \in SUBSET Uids
      BY DEF WithReading, RowsIn
    <3> QED BY <2>4, <2>5, <3>1 DEF DashOf
  <2>7. dashOrder.valid => dashOrder.got = DashOf(podRows, dashOrder.ns)
    BY DEF TableInv
  <2>8. DashOf(rs, dashOrder.ns) = DashOf(podRows, dashOrder.ns)
    BY <2>6
  <2> HIDE DEF changed, appeared, moved
  <2> QED BY <1>0, <1>1, <1>4, <1>5, <1>6, <1>8, <2>1, <2>7, <2>8
<1> QED BY <1>9, <1>10

\* Rows that change by way of invalidatePodOrder leave the caches right.
LEMMA RowsChange ==
  ASSUME TableInv, NEW rs, RowsOK(rs), Invalidate(rs), shown' = shown, tableClock' = tableClock, networkAt' \in Nat,
         waitingSamples' \in [at : Int, samples : [Places -> Sample]],
         phaseCache' \in [valid : BOOLEAN, ns : {phaseCache'.ns}, size : {phaseCache'.size}, got : {phaseCache'.got}],
         phaseCache'.valid => phaseCache'.got = PhasesOf(rs),
         cursor' \in Uids \cup {0}, cursor' # 0 => cursor' \in RowsIn(rs, Uids, shown.ns)
  PROVE  TableInv'
<1>1. /\ podRows' = rs
      /\ order' \in [valid : BOOLEAN, key : {order'.key}, uids : {order'.uids}, dirty : SUBSET Uids,
                     counted : {order'.counted}, count : {order'.count}]
      /\ OrderFits(order', rs) /\ CountFits(order', rs)
      /\ dashOrder' \in [valid : BOOLEAN, ns : {dashOrder'.ns}, size : {dashOrder'.size}, got : {dashOrder'.got}]
      /\ dashOrder'.valid => dashOrder'.got = DashOf(rs, dashOrder'.ns)
  BY InvalidateKeeps
<1>2. shown \in Shows /\ tableClock \in Nat
  BY DEF TableInv, TableTypeOK
<1>3. podRows' \in [Uids -> Row] /\ \A u \in Present(podRows)' : podRows'[u].uid = u
  BY <1>1 DEF RowsOK, Present
<1>4. TableTypeOK'
  BY <1>1, <1>2, <1>3 DEF TableTypeOK
<1>5. OrderFits(order, podRows)' /\ CountFits(order, podRows)'
  BY <1>1 DEF OrderFits, CountFits, LessUid, RowsIn, Present
<1>6. (phaseCache.valid => phaseCache.got = PhasesOf(podRows))'
  BY <1>1 DEF PhasesOf
<1>7. (dashOrder.valid => dashOrder.got = DashOf(podRows, dashOrder.ns))'
  BY <1>1 DEF DashOf, WithReading, RowsIn, DashLess, Present
<1>8. (cursor # 0 => cursor \in RowsIn(podRows, Uids, shown.ns))'
  BY <1>1 DEF RowsIn, Present
<1> QED BY <1>4, <1>5, <1>6, <1>7, <1>8 DEF TableInv

\* A table that is drawn, or counted, or shown in another way.
LEMMA RowsStay ==
  ASSUME TableInv, podRows' = podRows, waitingSamples' = waitingSamples, networkAt' = networkAt,
         tableClock' \in Nat, shown' \in Shows,
         order' \in [valid : BOOLEAN, key : {order'.key}, uids : {order'.uids}, dirty : SUBSET Uids,
                     counted : {order'.counted}, count : {order'.count}],
         OrderFits(order', podRows), CountFits(order', podRows),
         phaseCache' \in [valid : BOOLEAN, ns : {phaseCache'.ns}, size : {phaseCache'.size}, got : {phaseCache'.got}],
         phaseCache'.valid => phaseCache'.got = PhasesOf(podRows),
         dashOrder' \in [valid : BOOLEAN, ns : {dashOrder'.ns}, size : {dashOrder'.size}, got : {dashOrder'.got}],
         dashOrder'.valid => dashOrder'.got = DashOf(podRows, dashOrder'.ns),
         cursor' \in Uids \cup {0}, cursor' # 0 => cursor' \in RowsIn(podRows, Uids, shown'.ns)
  PROVE  TableInv'
<1>1. podRows \in [Uids -> Row] /\ \A u \in Present(podRows) : podRows[u].uid = u
  BY DEF TableInv, TableTypeOK
<1>2. waitingSamples \in [at : Int, samples : [Places -> Sample]] /\ networkAt \in Nat
  BY DEF TableInv, TableTypeOK
<1>3. podRows' \in [Uids -> Row] /\ \A u \in Present(podRows)' : podRows'[u].uid = u
  BY <1>1 DEF Present
<1>4. TableTypeOK'
  BY <1>2, <1>3 DEF TableTypeOK
<1>5. OrderFits(order, podRows)' /\ CountFits(order, podRows)'
  BY DEF OrderFits, CountFits, LessUid, RowsIn, Present
<1>6. (phaseCache.valid => phaseCache.got = PhasesOf(podRows))'
  BY DEF PhasesOf
<1>7. (dashOrder.valid => dashOrder.got = DashOf(podRows, dashOrder.ns))'
  BY DEF DashOf, WithReading, RowsIn, DashLess, Present
<1>8. (cursor # 0 => cursor \in RowsIn(podRows, Uids, shown.ns))'
  BY DEF RowsIn, Present
<1> QED BY <1>4, <1>5, <1>6, <1>7, <1>8 DEF TableInv

\* What TableInv says of the parts that a step leaves as they are.
LEMMA CachesFit ==
  ASSUME TableInv
  PROVE  /\ order \in [valid : BOOLEAN, key : {order.key}, uids : {order.uids}, dirty : SUBSET Uids,
                       counted : {order.counted}, count : {order.count}]
         /\ OrderFits(order, podRows) /\ CountFits(order, podRows)
         /\ phaseCache \in [valid : BOOLEAN, ns : {phaseCache.ns}, size : {phaseCache.size}, got : {phaseCache.got}]
         /\ phaseCache.valid => phaseCache.got = PhasesOf(podRows)
         /\ dashOrder \in [valid : BOOLEAN, ns : {dashOrder.ns}, size : {dashOrder.size}, got : {dashOrder.got}]
         /\ dashOrder.valid => dashOrder.got = DashOf(podRows, dashOrder.ns)
         /\ waitingSamples \in [at : Int, samples : [Places -> Sample]]
         /\ cursor # 0 => cursor \in RowsIn(podRows, Uids, shown.ns)
         /\ tableClock \in Nat /\ networkAt \in Nat
BY DEF TableInv, TableTypeOK

LEMMA UpsertKeeps ==
  ASSUME TableInv, NEW u \in Uids, NEW ph \in 1..2, NEW n \in Restarts, PodUpsert(u, ph, n)
  PROVE  TableInv'
<1> DEFINE new == podRows[u] = NoRow
           s == IF new THEN Pending(u) ELSE podRows[u].sample
           row == [uid |-> u, phase |-> ph, restarts |-> n, rate |-> podRows[u].rate, sample |-> s]
           rs == [podRows EXCEPT ![u] = row]
<1>1. /\ RowsOK(podRows) /\ podRows \in [Uids -> Row] /\ shown \in Shows /\ cursor \in Uids \cup {0}
      /\ u # 0 /\ Place[u] \in Places /\ n \in Nat
  BY TypeFacts, PodTableAssumption DEF RowsOK, Places
<1>2. NoSample \in Sample
  BY DEF NoSample, Unread, Sample
<1>3. waitingSamples.samples \in [Places -> Sample]
  BY CachesFit
<1>4. s \in Sample
  <2>1. Pending(u) \in Sample
    BY <1>1, <1>2, <1>3 DEF Pending
  <2> QED BY <1>1, <2>1 DEF Row
<1>5. podRows[u].rate \in Rate
  BY <1>1 DEF Row
<1>6. /\ Invalidate(rs) /\ shown' = shown /\ tableClock' = tableClock /\ cursor' = cursor
      /\ waitingSamples' = IF new THEN [waitingSamples EXCEPT !.samples[Place[u]] = NoSample] ELSE waitingSamples
      /\ phaseCache' = IF podRows[u].phase # ph THEN NoCache ELSE phaseCache
      /\ networkAt' = networkAt
  BY DEF PodUpsert
<1> HIDE DEF s
<1>7. row \in Row /\ row.uid = u
  BY <1>1, <1>4, <1>5 DEF Row
<1>8. row # NoRow
  BY <1>1 DEF NoRow
<1> HIDE DEF row
<1>9. rs \in [Uids -> Row] /\ rs[u] = row /\ \A v \in Uids : v # u => rs[v] = podRows[v]
  BY <1>1, <1>7
<1> HIDE DEF rs
<1>10. Present(rs) = Present(podRows) \cup {u}
  BY <1>8, <1>9 DEF Present
<1>11. RowsOK(rs)
  <2>1. \A v \in Present(podRows) : v \in Uids /\ podRows[v].uid = v
    BY <1>1 DEF RowsOK, Present
  <2>2. \A v \in Present(rs) : rs[v].uid = v
    BY <1>7, <1>9, <1>10, <2>1
  <2> QED BY <1>9, <2>2 DEF RowsOK
<1>12. waitingSamples' \in [at : Int, samples : [Places -> Sample]]
  <2>1. waitingSamples \in [at : Int, samples : [Places -> Sample]]
    BY CachesFit
  <2> HIDE DEF new
  <2> QED BY <1>2, <1>6, <2>1
<1>13. /\ phaseCache' \in [valid : BOOLEAN, ns : {phaseCache'.ns}, size : {phaseCache'.size}, got : {phaseCache'.got}]
       /\ phaseCache'.valid => phaseCache'.got = PhasesOf(rs)
  <2>1. CASE podRows[u].phase # ph
    BY <1>6, <2>1 DEF NoCache
  <2>2. CASE podRows[u].phase = ph
    <3>1. \A v \in Uids : rs[v].phase = podRows[v].phase
      BY <1>9, <2>2 DEF row
    <3>2. PhasesOf(rs) = PhasesOf(podRows)
      BY <3>1 DEF PhasesOf
    <3>3. phaseCache' = phaseCache
      BY <1>6, <2>2
    <3> QED BY <3>2, <3>3, CachesFit
  <2> QED BY <2>1, <2>2
<1>14. cursor' # 0 => cursor' \in RowsIn(rs, Uids, shown.ns)
  BY <1>6, <1>10, CachesFit DEF RowsIn
<1>15. cursor' \in Uids \cup {0}
  BY <1>1, <1>6
<1> QED BY <1>6, <1>11, <1>12, <1>13, <1>14, <1>15, CachesFit, RowsChange

LEMMA DeleteKeeps ==
  ASSUME TableInv, NEW u \in Uids, PodDelete(u) PROVE TableInv'
<1> DEFINE rs == [podRows EXCEPT ![u] = NoRow]
<1>1. /\ RowsOK(podRows) /\ podRows \in [Uids -> Row] /\ cursor \in Uids \cup {0} /\ Place[u] \in Places
  BY TypeFacts, PodTableAssumption DEF RowsOK, Places
<1>2. NoSample \in Sample /\ NoRow \in Row
  BY DEF NoSample, NoRow, NoRate, Unread, Row, Sample, Rate
<1>3. /\ Invalidate(rs) /\ shown' = shown /\ tableClock' = tableClock
      /\ cursor' = IF cursor = u THEN 0 ELSE cursor
      /\ waitingSamples' = [waitingSamples EXCEPT !.samples[Place[u]] = NoSample]
      /\ phaseCache' = NoCache /\ networkAt' = networkAt
  BY DEF PodDelete
<1>4. rs \in [Uids -> Row] /\ rs[u] = NoRow /\ \A v \in Uids : v # u => rs[v] = podRows[v]
  BY <1>1, <1>2
<1> HIDE DEF rs
<1>5. Present(rs) = Present(podRows) \ {u}
  BY <1>4 DEF Present
<1>6. RowsOK(rs)
  <2>1. \A v \in Present(podRows) : v \in Uids /\ podRows[v].uid = v
    BY <1>1 DEF RowsOK, Present
  <2>2. \A v \in Present(rs) : rs[v].uid = v
    BY <1>4, <1>5, <2>1
  <2> QED BY <1>4, <2>2 DEF RowsOK
<1>7. waitingSamples' \in [at : Int, samples : [Places -> Sample]]
  BY <1>2, <1>3, CachesFit
<1>8. /\ phaseCache' \in [valid : BOOLEAN, ns : {phaseCache'.ns}, size : {phaseCache'.size}, got : {phaseCache'.got}]
      /\ phaseCache'.valid => phaseCache'.got = PhasesOf(rs)
  BY <1>3 DEF NoCache
<1>9. cursor' # 0 => cursor' \in RowsIn(rs, Uids, shown.ns)
  BY <1>3, <1>5, CachesFit DEF RowsIn
<1>10. cursor' \in Uids \cup {0}
  BY <1>1, <1>3
<1> QED BY <1>3, <1>6, <1>7, <1>8, <1>9, <1>10, CachesFit, RowsChange

\* A poller's snapshot changes what a row reads, and nothing else of it.
LEMMA ReadingsKeep ==
  ASSUME TableInv, NEW rs \in [Uids -> Row], Invalidate(rs),
         \A u \in Uids : /\ rs[u].uid = podRows[u].uid /\ rs[u].phase = podRows[u].phase
                         /\ podRows[u] = NoRow => rs[u] = NoRow,
         UNCHANGED <<shown, tableClock, cursor, phaseCache>>, networkAt' \in Nat,
         waitingSamples' \in [at : Int, samples : [Places -> Sample]]
  PROVE  TableInv'
<1>1. /\ RowsOK(podRows) /\ cursor \in Uids \cup {0} /\ NoRow.uid = 0 /\ \A u \in Uids : u # 0
  BY TypeFacts, PodTableAssumption DEF NoRow
<1>2. Present(rs) = Present(podRows)
  BY <1>1 DEF Present, RowsOK
<1>3. RowsOK(rs)
  BY <1>1, <1>2 DEF RowsOK, Present
<1>4. PhasesOf(rs) = PhasesOf(podRows)
  BY DEF PhasesOf
<1>5. /\ phaseCache' \in [valid : BOOLEAN, ns : {phaseCache'.ns}, size : {phaseCache'.size}, got : {phaseCache'.got}]
      /\ phaseCache'.valid => phaseCache'.got = PhasesOf(rs)
  BY <1>4, CachesFit
<1>6. cursor' # 0 => cursor' \in RowsIn(rs, Uids, shown.ns)
  BY <1>2, CachesFit DEF RowsIn
<1>7. cursor' \in Uids \cup {0}
  BY <1>1
<1> QED BY <1>3, <1>5, <1>6, <1>7, RowsChange

LEMMA SnapshotKeeps ==
  ASSUME TableInv, NEW samples \in Samples, MetricsSnapshot(samples) PROVE TableInv'
<1> DEFINE rs == [u \in Uids |-> IF podRows[u] = NoRow THEN NoRow
                               ELSE [podRows[u] EXCEPT !.sample = samples[Place[u]]]]
<1>1. /\ podRows \in [Uids -> Row] /\ tableClock \in Nat /\ networkAt \in Nat
      /\ \A u \in Uids : Place[u] \in Places
  BY TypeFacts, CachesFit, PodTableAssumption DEF RowsOK, Places
<1>2. NoSample \in Sample
  BY DEF NoSample, Unread, Sample
<1>3. samples \in [Places -> Sample]
  <2>1. samples \in [Places -> {NoSample} \cup {[cpu |-> r[1], mem |-> r[2], at |-> t] :
                                               r \in Readings, t \in 0..tableClock}]
    BY DEF Samples
  <2>2. ASSUME NEW r \in Readings, NEW t \in 0..tableClock
        PROVE  [cpu |-> r[1], mem |-> r[2], at |-> t] \in Sample
    <3>1. r[1] \in Int /\ r[2] \in Int /\ t \in Int
      BY <1>1, PodTableAssumption
    <3> QED BY <3>1 DEF Sample
  <2> QED BY <1>2, <2>1, <2>2
<1>4. /\ Invalidate(rs) /\ UNCHANGED <<shown, tableClock, cursor, phaseCache, networkAt>>
      /\ waitingSamples' = [at |-> tableClock, samples |-> samples]
  BY DEF MetricsSnapshot
<1>5. \A u \in Uids : /\ rs[u] \in Row /\ rs[u].uid = podRows[u].uid /\ rs[u].phase = podRows[u].phase
                      /\ podRows[u] = NoRow => rs[u] = NoRow
  BY <1>1, <1>3 DEF Row
<1>6. rs \in [Uids -> Row]
  BY <1>5
<1> HIDE DEF rs
<1>7. waitingSamples' \in [at : Int, samples : [Places -> Sample]]
  BY <1>1, <1>3, <1>4
<1> QED BY <1>1, <1>4, <1>5, <1>6, <1>7, ReadingsKeep

LEMMA RatesKeep ==
  ASSUME TableInv, NEW rates \in [Uids -> Rate], SetRates(rates), networkAt' \in Nat
  PROVE  TableInv'
<1> DEFINE rs == [u \in Uids |-> IF podRows[u] = NoRow THEN NoRow
                               ELSE [podRows[u] EXCEPT !.rate = rates[u]]]
<1>1. podRows \in [Uids -> Row]
  BY TypeFacts DEF RowsOK
<1>2. /\ Invalidate(rs) /\ UNCHANGED <<waitingSamples, shown, tableClock, cursor, phaseCache>>
  BY DEF SetRates
<1>3. \A u \in Uids : /\ rs[u] \in Row /\ rs[u].uid = podRows[u].uid /\ rs[u].phase = podRows[u].phase
                      /\ podRows[u] = NoRow => rs[u] = NoRow
  BY <1>1 DEF Row
<1>4. rs \in [Uids -> Row]
  BY <1>3
<1> HIDE DEF rs
<1> QED BY <1>2, <1>3, <1>4, CachesFit, ReadingsKeep

\* What the network poller says, and what expires of it.
LEMMA NetworkKeeps ==
  ASSUME TableInv,
         \/ \E at \in 0..tableClock : \E rates \in RatesBy(at) : NetworkSnapshot(at, rates)
         \/ ExpireNetwork
  PROVE  TableInv'
<1>1. /\ podRows \in [Uids -> Row] /\ tableClock \in Nat /\ networkAt \in Nat
      /\ \A u \in Uids : Place[u] \in Places
  BY TypeFacts, CachesFit, PodTableAssumption DEF RowsOK, Places
<1>2. \A rate \in Rate : FreshRate(rate) \in Rate
  BY DEF FreshRate, NoRate, Unread, Rate
<1>3. ASSUME NEW at \in 0..tableClock, NEW rates \in RatesBy(at), NetworkSnapshot(at, rates)
      PROVE  TableInv'
  <2>1. rates \in [Places -> Rate]
    <3>1. rates \in [Places -> {NoRate} \cup [net : Rates, at : 0..at]]
      BY DEF RatesBy
    <3>2. Rates \subseteq Int /\ 0..at \subseteq Int /\ NoRate \in Rate
      BY <1>1, PodTableAssumption DEF NoRate, Unread, Rate
    <3>3. [net : Rates, at : 0..at] \subseteq Rate
      BY <3>2 DEF Rate
    <3> QED BY <3>1, <3>2, <3>3
  <2>2. [u \in Uids |-> FreshRate(rates[Place[u]])] \in [Uids -> Rate]
    BY <1>1, <1>2, <2>1
  <2>3. networkAt' \in Nat /\ SetRates([u \in Uids |-> FreshRate(rates[Place[u]])])
    BY <1>1, <1>3 DEF NetworkSnapshot
  <2> QED BY <2>2, <2>3, RatesKeep
<1>4. CASE ExpireNetwork
  <2>1. [u \in Uids |-> FreshRate(podRows[u].rate)] \in [Uids -> Rate]
    BY <1>1, <1>2 DEF Row
  <2>2. networkAt' \in Nat /\ SetRates([u \in Uids |-> FreshRate(podRows[u].rate)])
    BY <1>1, <1>4 DEF ExpireNetwork
  <2> QED BY <2>1, <2>2, RatesKeep
<1> QED BY <1>3, <1>4

\* A draw keeps the order; a key that moves the cursor puts it on a row of it.
LEMMA DrawKeeps ==
  ASSUME TableInv, shown' \in Shows, order' = Drawn(shown'),
         podRows' = podRows, waitingSamples' = waitingSamples, networkAt' = networkAt, phaseCache' = phaseCache,
         dashOrder' = dashOrder, tableClock' = tableClock,
         cursor' \in Uids \cup {0}, cursor' # 0 => cursor' \in RowsIn(podRows, Uids, shown'.ns)
  PROVE  TableInv'
<1>1. /\ OrderFits(order', podRows) /\ CountFits(order', podRows)
      /\ order' \in [valid : BOOLEAN, key : {order'.key}, uids : {order'.uids}, dirty : SUBSET Uids,
                     counted : {order'.counted}, count : {order'.count}]
  BY DrawnFits
<1>2. /\ phaseCache' \in [valid : BOOLEAN, ns : {phaseCache'.ns}, size : {phaseCache'.size}, got : {phaseCache'.got}]
      /\ phaseCache'.valid => phaseCache'.got = PhasesOf(podRows)
      /\ dashOrder' \in [valid : BOOLEAN, ns : {dashOrder'.ns}, size : {dashOrder'.size}, got : {dashOrder'.got}]
      /\ dashOrder'.valid => dashOrder'.got = DashOf(podRows, dashOrder'.ns)
      /\ tableClock' \in Nat
  BY CachesFit
<1> QED BY <1>1, <1>2, RowsStay

\* What DrawCounts keeps is what it has just counted.
LEMMA CountsKeep == ASSUME TableInv, DrawCounts PROVE TableInv'
<1>1. /\ podRows' = podRows /\ waitingSamples' = waitingSamples /\ shown' = shown /\ cursor' = cursor
      /\ tableClock' = tableClock /\ networkAt' = networkAt
      /\ order' = IF shown.ns = All THEN order
                  ELSE [order EXCEPT !.counted = TableKey(shown), !.count = TableCount]
      /\ phaseCache' = [valid |-> TRUE, ns |-> All, size |-> Size, got |-> PhaseCounts]
      /\ dashOrder' = [valid |-> TRUE, ns |-> shown.ns, size |-> Size, got |-> DashOrders]
  BY DEF DrawCounts
<1>2. PhaseCounts = PhasesOf(podRows) /\ DashOrders = DashOf(podRows, shown.ns)
  BY CachesFit DEF PhaseCounts, DashOrders
<1>3. /\ order' \in [valid : BOOLEAN, key : {order'.key}, uids : {order'.uids}, dirty : SUBSET Uids,
                     counted : {order'.counted}, count : {order'.count}]
      /\ OrderFits(order', podRows) /\ CountFits(order', podRows)
  <2>1. CASE shown.ns = All
    BY <1>1, <2>1, CachesFit
  <2>2. CASE shown.ns # All
    <3>1. order' = [order EXCEPT !.counted = TableKey(shown), !.count = TableCount]
      BY <1>1, <2>2
    <3>2. order \in [valid : BOOLEAN, key : {order.key}, uids : {order.uids}, dirty : SUBSET Uids,
                     counted : {order.counted}, count : {order.count}]
      BY CachesFit
    <3>3. /\ order'.valid = order.valid /\ order'.key = order.key /\ order'.uids = order.uids
          /\ order'.dirty = order.dirty /\ order'.counted = TableKey(shown) /\ order'.count = TableCount
          /\ order' \in [valid : BOOLEAN, key : {order'.key}, uids : {order'.uids}, dirty : SUBSET Uids,
                         counted : {order'.counted}, count : {order'.count}]
      BY <3>1, <3>2
    <3>4. OrderFits(order', podRows)
      BY <3>3, CachesFit DEF OrderFits
    <3>5. order'.counted[1] = shown
      BY <3>3 DEF TableKey
    <3>6. CountFits(order', podRows)
      BY <3>3, <3>5, CountRight DEF CountFits
    <3> QED BY <3>3, <3>4, <3>6
  <2> QED BY <2>1, <2>2
<1>4. /\ phaseCache' \in [valid : BOOLEAN, ns : {phaseCache'.ns}, size : {phaseCache'.size}, got : {phaseCache'.got}]
      /\ phaseCache'.got = PhasesOf(podRows)
      /\ dashOrder' \in [valid : BOOLEAN, ns : {dashOrder'.ns}, size : {dashOrder'.size}, got : {dashOrder'.got}]
      /\ dashOrder'.got = DashOf(podRows, dashOrder'.ns)
  BY <1>1, <1>2
<1>5. shown' \in Shows /\ cursor' \in Uids \cup {0} /\ tableClock' \in Nat
  BY <1>1, TypeFacts, CachesFit
<1>6. cursor' # 0 => cursor' \in RowsIn(podRows, Uids, shown'.ns)
  BY <1>1, CachesFit
<1> QED BY <1>1, <1>3, <1>4, <1>5, <1>6, RowsStay

\* Every key, draw, event and snapshot keeps the caches what they should be.
LEMMA TableStep == ASSUME TableInv, [TableNext]_tableVars PROVE TableInv'
<1>1. ASSUME NEW u \in Uids, PodDelete(u) PROVE TableInv'
  BY <1>1, DeleteKeeps
<1>2. ASSUME NEW u \in Uids, NEW ph \in 1..2, NEW n \in Restarts, PodUpsert(u, ph, n) PROVE TableInv'
  BY <1>2, UpsertKeeps
<1>3. ASSUME NEW s \in Samples, MetricsSnapshot(s) PROVE TableInv'
  BY <1>3, SnapshotKeeps
<1>4. ASSUME DrawTable PROVE TableInv'
  <2>1. /\ shown' = shown /\ order' = Drawn(shown) /\ podRows' = podRows /\ waitingSamples' = waitingSamples /\ networkAt' = networkAt
        /\ phaseCache' = phaseCache /\ dashOrder' = dashOrder /\ tableClock' = tableClock /\ cursor' = cursor
    BY <1>4 DEF DrawTable
  <2>2. shown \in Shows /\ cursor \in Uids \cup {0}
    BY TypeFacts
  <2>3. cursor # 0 => cursor \in RowsIn(podRows, Uids, shown.ns)
    BY CachesFit
  <2> QED BY <2>1, <2>2, <2>3, DrawKeeps
<1>5. ASSUME DrawCounts PROVE TableInv'
  BY <1>5, CountsKeep
<1>6. ASSUME NEW by \in SortKeys, NEW desc \in BOOLEAN, SetSort(by, desc) PROVE TableInv'
  <2>1. /\ shown' = [shown EXCEPT !.by = by, !.desc = desc] /\ podRows' = podRows
        /\ waitingSamples' = waitingSamples /\ networkAt' = networkAt /\ order' = order /\ phaseCache' = phaseCache
        /\ dashOrder' = dashOrder /\ tableClock' = tableClock /\ cursor' = cursor
    BY <1>6 DEF SetSort, caches
  <2>2. shown \in Shows
    BY TypeFacts
  <2>3. shown' \in Shows /\ shown'.ns = shown.ns
    BY <2>1, <2>2 DEF Shows
  <2> QED BY <2>1, <2>3, TypeFacts, CachesFit, RowsStay
<1>7. ASSUME NEW ns \in Namespaces \cup {All}, SetNamespace(ns) PROVE TableInv'
  <2>1. /\ shown' = [shown EXCEPT !.ns = ns] /\ order' = Drawn(shown') /\ podRows' = podRows
        /\ waitingSamples' = waitingSamples /\ networkAt' = networkAt /\ phaseCache' = phaseCache /\ dashOrder' = dashOrder
        /\ tableClock' = tableClock
        /\ cursor' = IF \E i \in DOMAIN order'.uids : order'.uids[i] = cursor THEN cursor
                     ELSE IF order'.uids = <<>> THEN 0 ELSE order'.uids[1]
    BY <1>7 DEF SetNamespace
  <2>2. shown \in Shows
    BY TypeFacts
  <2>3. shown' \in Shows
    BY <2>1, <2>2 DEF Shows
  <2>4. /\ order'.uids = TableUids(shown') /\ order'.uids \in Seq(RowsIn(podRows, Uids, shown'.ns))
        /\ RowsIn(podRows, Uids, shown'.ns) \subseteq Uids
    <3>1. order'.uids = TableUids(shown')
      BY <2>1, <2>3, DrawnFits
    <3>2. TableUids(shown') \in Seq(RowsIn(podRows, Uids, shown'.ns))
      BY TableHas
    <3>3. RowsIn(podRows, Uids, shown'.ns) \subseteq Uids
      BY DEF RowsIn
    <3> QED BY <3>1, <3>2, <3>3
  <2>5. cursor' = 0 \/ cursor' \in RowsIn(podRows, Uids, shown'.ns)
    <3> DEFINE T == RowsIn(podRows, Uids, shown'.ns)
               q == order'.uids
    <3>1. q \in Seq(T) /\ cursor' = IF \E i \in DOMAIN q : q[i] = cursor THEN cursor
                                    ELSE IF q = <<>> THEN 0 ELSE q[1]
      BY <2>1, <2>4
    <3> HIDE DEF T, q
    <3>2. q = <<>> \/ 1 \in DOMAIN q
      BY <3>1
    <3>3. \A i \in DOMAIN q : q[i] \in T
      BY <3>1
    <3>4. cursor' = 0 \/ cursor' \in T
      BY <3>1, <3>2, <3>3
    <3> QED BY <3>4 DEF T
  <2>6. cursor' \in Uids \cup {0}
    BY <2>4, <2>5
  <2> QED BY <2>1, <2>3, <2>5, <2>6, DrawKeeps
<1>8. ASSUME NEW delta \in {-1, 1}, MoveCursor(delta) PROVE TableInv'
  <2> DEFINE q == TableUids(shown)
             at == {i \in DOMAIN q : q[i] = cursor}
             want == IF at = {} THEN 1 ELSE (CHOOSE i \in at : TRUE) + delta
             T == RowsIn(podRows, Uids, shown.ns)
  <2>1. /\ shown' = shown /\ order' = Drawn(shown) /\ podRows' = podRows
        /\ waitingSamples' = waitingSamples /\ networkAt' = networkAt /\ phaseCache' = phaseCache /\ dashOrder' = dashOrder
        /\ tableClock' = tableClock
        /\ cursor' = IF q = <<>> THEN 0
                     ELSE q[IF want < 1 THEN 1 ELSE IF want > Len(q) THEN Len(q) ELSE want]
    BY <1>8 DEF MoveCursor
  <2>2. shown \in Shows
    BY TypeFacts
  <2>3. q \in Seq(T) /\ T \subseteq Uids
    BY TableHas DEF RowsIn
  <2>4. want \in Int
    <3> HIDE DEF T, q
    <3>1. at # {} => (CHOOSE i \in at : TRUE) \in at
      OBVIOUS
    <3>2. at \subseteq Int
      BY <2>3
    <3> QED BY <3>1, <3>2
  <2>5. cursor' = 0 \/ cursor' \in T
    <3> HIDE DEF T, q, want
    <3>1. CASE q = <<>>
      BY <2>1, <3>1
    <3>2. CASE q # <<>>
      <4>1. Len(q) \in Nat /\ Len(q) >= 1 /\ \A i \in 1..Len(q) : q[i] \in T
        BY <2>3, <3>2
      <4>2. (IF want < 1 THEN 1 ELSE IF want > Len(q) THEN Len(q) ELSE want) \in 1..Len(q)
        BY <2>4, <4>1
      <4> QED BY <2>1, <3>2, <4>1, <4>2
    <3> QED BY <3>1, <3>2
  <2>6. cursor' \in Uids \cup {0}
    BY <2>3, <2>5
  <2> HIDE DEF q, at, want
  <2> QED BY <2>1, <2>2, <2>5, <2>6, DrawKeeps
<1>9. ASSUME Tick PROVE TableInv'
  <2>1. /\ podRows' = podRows /\ waitingSamples' = waitingSamples /\ networkAt' = networkAt /\ order' = order /\ phaseCache' = phaseCache
        /\ dashOrder' = dashOrder /\ shown' = shown /\ cursor' = cursor /\ tableClock' = tableClock + 1
    BY <1>9 DEF Tick, caches
  <2>2. tableClock' \in Nat
    BY <2>1, CachesFit
  <2> QED BY <2>1, <2>2, TypeFacts, CachesFit, RowsStay
<1>10. ASSUME UNCHANGED tableVars PROVE TableInv'
  <2>1. /\ podRows' = podRows /\ waitingSamples' = waitingSamples /\ networkAt' = networkAt /\ order' = order /\ phaseCache' = phaseCache
        /\ dashOrder' = dashOrder /\ shown' = shown /\ cursor' = cursor /\ tableClock' = tableClock
    BY <1>10 DEF tableVars
  <2> QED BY <2>1, TypeFacts, CachesFit, RowsStay
<1> QED
  BY <1>1, <1>2, <1>3, <1>4, <1>5, <1>6, <1>7, <1>8, <1>9, <1>10,
     NetworkKeeps DEF TableNext

LEMMA TableStart == ASSUME TableInit PROVE TableInv
<1>1. /\ podRows = [u \in Uids |-> NoRow] /\ waitingSamples = NoPending
      /\ order = NoOrder /\ phaseCache = NoCache /\ dashOrder = NoCache
      /\ shown \in Shows /\ cursor = 0 /\ tableClock = 0 /\ networkAt = 0
  BY DEF TableInit, Shows
<1>2. NoRow \in Row /\ NoSample \in Sample /\ Unread \in Int
  BY DEF NoRow, NoSample, NoRate, Unread, Row, Sample, Rate
<1>3. podRows \in [Uids -> Row] /\ Present(podRows) = {}
  BY <1>1, <1>2 DEF Present
<1>4. waitingSamples \in [at : Int, samples : [Places -> Sample]]
  BY <1>1, <1>2 DEF NoPending
<1>5. /\ order \in [valid : BOOLEAN, key : {order.key}, uids : {order.uids}, dirty : SUBSET Uids,
                    counted : {order.counted}, count : {order.count}]
      /\ ~order.valid /\ order.counted = <<>>
  BY <1>1 DEF NoOrder
<1>6. /\ phaseCache \in [valid : BOOLEAN, ns : {phaseCache.ns}, size : {phaseCache.size}, got : {phaseCache.got}] /\ ~phaseCache.valid
      /\ dashOrder \in [valid : BOOLEAN, ns : {dashOrder.ns}, size : {dashOrder.size}, got : {dashOrder.got}] /\ ~dashOrder.valid
  BY <1>1 DEF NoCache
<1> QED BY <1>1, <1>3, <1>4, <1>5, <1>6 DEF TableInv, TableTypeOK, OrderFits, CountFits

\* What is drawn from the caches is what there is.
LEMMA TableReads == ASSUME TableInv PROVE TableExact
<1>1. TableUids(shown) = SortedUids(podRows, Uids, shown)
  BY TablesRight
<1>2. TableCount = Len(SortedUids(podRows, Uids, shown))
  BY CountRight, TypeFacts, SortedLists
<1>3. PhaseCounts = PhasesOf(podRows) /\ DashOrders = DashOf(podRows, shown.ns)
  BY CachesFit DEF PhaseCounts, DashOrders
<1>4. cursor # 0 => podRows[cursor] # NoRow /\ Visible(cursor, shown.ns)
  BY CachesFit DEF RowsIn, Present
<1> QED BY <1>1, <1>2, <1>3, <1>4 DEF TableExact

\* The caches that draws keep and events repair
\* (table_cache.go, invalidatePodOrder) never hold what the rows deny.
THEOREM TableInvariance == TableSpec => []TableInv
<1>1. TableInit => TableInv
  BY TableStart
<1>2. TableInv /\ [TableNext]_tableVars => TableInv'
  BY TableStep
<1> QED BY <1>1, <1>2, PTL DEF TableSpec

\* However pods come, change and go between draws, the table that tableUIDs
\* repairs is the sorted one, and the counts and the cursor are of its rows.
THEOREM TableIsExact == TableSpec => []TableExact
<1>1. TableInv => TableExact
  BY TableReads
<1> QED BY <1>1, TableInvariance, PTL

-----------------------------------------------------------------------------
(* FleetView: Tab.                                                         *)

\* By tier and name, clusters can be put in one order only.
LEMMA TierOrders ==
  ASSUME NEW S \in SUBSET Clusters, NEW tier, \A c \in S : tier[c] \in Int
  PROVE  IsFiniteSet(S) /\ Orders(ByTier(S, tier), S)
<1>1. IsFiniteSet(S) /\ \A c \in S : c \in Nat
  BY FS_Subset, FleetAssumption
<1>2. \A a, b \in S : <<a, b>> \in ByTier(S, tier) <=> tier[a] < tier[b] \/ (tier[a] = tier[b] /\ a < b)
  BY DEF ByTier
<1> DEFINE R == ByTier(S, tier)
<1> HIDE DEF R
<1>3. \A a, b \in S : <<a, b>> \in R <=> tier[a] < tier[b] \/ (tier[a] = tier[b] /\ a < b)
  BY <1>2 DEF R
<1>4. \A a \in S : <<a, a>> \notin R
  BY <1>1, <1>3
<1>5. \A a, b \in S : a # b => <<a, b>> \in R \/ <<b, a>> \in R
  BY <1>1, <1>3
<1>6. \A a, b, c \in S : <<a, b>> \in R /\ <<b, c>> \in R => <<a, c>> \in R
  BY <1>1, <1>3
<1>7. Orders(R, S)
  BY <1>4, <1>5, <1>6 DEF Orders
<1> QED BY <1>1, <1>7 DEF R

\* Every tier is a number.
LEMMA TierNumbers ==
  ASSUME NEW r \in Reachabilities PROVE Tier(r) \in Int /\ RailTier(r) \in Int
<1>1. Tier(r) \in Int
  BY DEF Tier, Reachabilities
<1>2. RailTier(r) \in Int
  BY DEF RailTier, Reachabilities
<1> QED BY <1>1, <1>2

\* The dashboard lists clusters.
LEMMA CursorThere ==
  ASSUME FocusInv, FleetCursor # None PROVE FleetCursor \in Clusters
<1> DEFINE S == IF screen.filter = "" THEN Clusters ELSE NameMatch
           tier == [c \in S |-> Tier(store[c])]
           o == FleetOrder(screen.filter)
<1>1. S \in SUBSET Clusters
  BY FleetAssumption
<1>2. \A c \in S : tier[c] \in Int
  BY <1>1, TierNumbers DEF FocusInv
<1>3. o = InSequence(S, ByTier(S, tier))
  BY DEF FleetOrder
<1> HIDE DEF S, tier, o
<1>4. o \in Seq(S)
  BY <1>1, <1>2, <1>3, TierOrders, SequenceLists DEF Lists
<1>5. o # <<>> /\ FleetCursor = IF Index(o, fleet.cursor) # 0 THEN fleet.cursor ELSE o[1]
  BY DEF FleetCursor, o
<1>6. o[1] \in S
  BY <1>4, <1>5
<1>7. Index(o, fleet.cursor) # 0 => fleet.cursor \in S
  <2>1. Index(o, fleet.cursor) # 0 => \E i \in DOMAIN o : o[i] = fleet.cursor
    BY DEF Index
  <2> QED BY <1>4, <2>1
<1> QED BY <1>1, <1>5, <1>6, <1>7

\* Where a cluster is in the rail, from 0.
Pos(c) == Index(FocusOrder, c) - 1
Fleet == Cardinality(Clusters)
InRail(p) == FocusOrder[p + 1]

\* The rail has every cluster, once.
LEMMA RailHas ==
  ASSUME FocusInv
  PROVE  /\ Fleet \in Nat /\ Fleet >= 1 /\ Len(FocusOrder) = Fleet
         /\ \A c \in Clusters : Pos(c) \in 0..(Fleet - 1) /\ InRail(Pos(c)) = c
         /\ \A p \in 0..(Fleet - 1) : InRail(p) \in Clusters /\ Pos(InRail(p)) = p
<1> DEFINE tier == [c \in Clusters |-> RailTier(store[c])]
           R == ByTier(Clusters, tier)
           o == FocusOrder
           n == Fleet
<1>1. \A c \in Clusters : tier[c] \in Int
  BY TierNumbers DEF FocusInv
<1>2. o = InSequence(Clusters, R)
  BY DEF FocusOrder
<1> HIDE DEF tier, o
<1>3. IsFiniteSet(Clusters) /\ Orders(R, Clusters)
  BY <1>1, TierOrders
<1> HIDE DEF R
<1>4. Lists(o, Clusters, R) /\ Len(o) = n
  BY <1>2, <1>3, SequenceLists DEF Fleet
<1>5. n \in Nat /\ n >= 1
  <2>1. n \in Nat
    BY <1>3, FS_CardinalityType DEF Fleet
  <2>2. n # 0
    BY <1>3, FS_EmptySet, FleetAssumption DEF Fleet
  <2> HIDE DEF n
  <2> QED BY <2>1, <2>2
<1>6. /\ o \in Seq(Clusters) /\ DOMAIN o = 1..n
      /\ \A c \in Clusters : \E i \in 1..n : o[i] = c
      /\ \A i, j \in 1..n : i < j => <<o[i], o[j]>> \in R
  BY <1>4, <1>5 DEF Lists
<1>7. \A i \in 1..n : o[i] \in Clusters
  <2> HIDE DEF n
  <2> QED BY <1>5, <1>6
<1>8. \A i, j \in 1..n : o[i] = o[j] => i = j
  <2>1. \A i \in 1..n : <<o[i], o[i]>> \notin R
    BY <1>3, <1>7 DEF Orders
  <2>2. \A i, j \in 1..n : i < j \/ j < i \/ i = j
    BY <1>5
  <2> QED BY <1>6, <2>1, <2>2
<1>9. \A i \in 1..n : Index(o, o[i]) = i
  <2> SUFFICES ASSUME NEW i \in 1..n PROVE Index(o, o[i]) = i
    OBVIOUS
  <2> DEFINE k == CHOOSE k \in DOMAIN o : o[k] = o[i]
  <2>1. k \in 1..n /\ o[k] = o[i]
    BY <1>6
  <2>2. Index(o, o[i]) = k
    BY <1>6 DEF Index
  <2> HIDE DEF k
  <2> QED BY <1>8, <2>1, <2>2
<1>10. \A c \in Clusters : Index(o, c) \in 1..n /\ o[Index(o, c)] = c
  BY <1>6, <1>9
<1>11. \A c \in Clusters : Pos(c) \in 0..(n - 1) /\ InRail(Pos(c)) = c
  <2> SUFFICES ASSUME NEW c \in Clusters PROVE Pos(c) \in 0..(n - 1) /\ InRail(Pos(c)) = c
    OBVIOUS
  <2> DEFINE i == Index(o, c)
  <2>1. i \in 1..n /\ o[i] = c /\ Pos(c) = i - 1
    BY <1>10 DEF Pos, o
  <2> HIDE DEF i
  <2>2. i - 1 \in 0..(n - 1) /\ (i - 1) + 1 = i
    BY <1>5, <2>1
  <2> QED BY <2>1, <2>2 DEF InRail, o
<1>12. \A p \in 0..(n - 1) : InRail(p) \in Clusters /\ Pos(InRail(p)) = p
  <2> SUFFICES ASSUME NEW p \in 0..(n - 1) PROVE InRail(p) \in Clusters /\ Pos(InRail(p)) = p
    OBVIOUS
  <2>1. p + 1 \in 1..n /\ (p + 1) - 1 = p
    BY <1>5
  <2>2. Index(o, o[p + 1]) = p + 1
    BY <1>9, <2>1
  <2> QED BY <1>7, <2>1, <2>2 DEF InRail, Pos, o
<1> QED BY <1>4, <1>5, <1>11, <1>12 DEF o

\* Going round the rail.
LEMMA Wraps ==
  ASSUME NEW n \in Nat, n >= 1, NEW q \in 0..(n - 1), NEW k \in 0..(n - 1)
  PROVE  /\ (q + k) % n = IF q + k < n THEN q + k ELSE q + k - n
         /\ (q - k) % n = IF q >= k THEN q - k ELSE q - k + n
OBVIOUS

\* How far c is from w, going down the rail and round.
Ahead(w, c) == IF Pos(c) >= Pos(w) THEN Pos(c) - Pos(w) ELSE Pos(c) - Pos(w) + Fleet
Away(w, delta, c) == IF delta = 1 THEN Ahead(w, c) ELSE Ahead(c, w)
Stop(w, delta, step) == InRail((Pos(w) + delta * step) % Fleet)

\* Steps and distances are one.
LEMMA StopsAway ==
  ASSUME FocusInv, NEW w \in Clusters, NEW delta \in {-1, 1}
  PROVE  /\ \A c \in Clusters : c # w => Away(w, delta, c) \in 1..(Fleet - 1) /\ Stop(w, delta, Away(w, delta, c)) = c
         /\ \A step \in 1..(Fleet - 1) : /\ Stop(w, delta, step) \in Clusters /\ Stop(w, delta, step) # w
                                         /\ Away(w, delta, Stop(w, delta, step)) = step
<1> DEFINE n == Fleet
           p == Pos(w)
<1>1. n \in Nat /\ n >= 1 /\ p \in 0..(n - 1)
  BY RailHas
<1>2. ASSUME NEW c \in Clusters, c # w
      PROVE  Away(w, delta, c) \in 1..(n - 1) /\ Stop(w, delta, Away(w, delta, c)) = c
  <2> DEFINE q == Pos(c)
             d == Away(w, delta, c)
  <2>1. q \in 0..(n - 1) /\ InRail(q) = c /\ q # p
    BY <1>2, RailHas
  <2>2. d = IF delta = 1 THEN IF q >= p THEN q - p ELSE q - p + n ELSE IF p >= q THEN p - q ELSE p - q + n
    BY DEF Away, Ahead
  <2> HIDE DEF n, p, q, d
  <2>3. d \in 1..(n - 1) /\ d \in 0..(n - 1)
    BY <1>1, <2>1, <2>2
  <2>4. /\ (p + d) % n = IF p + d < n THEN p + d ELSE p + d - n
        /\ (p - d) % n = IF p >= d THEN p - d ELSE p - d + n
    BY <1>1, <2>3, Wraps
  <2>5. (p + delta * d) % n = q
    <3>1. CASE delta = 1
      <4>1. p + delta * d = p + d
        BY <1>1, <2>3, <3>1
      <4>2. (p + d) % n = q
        BY <1>1, <2>1, <2>2, <2>4, <3>1
      <4> QED BY <4>1, <4>2
    <3>2. CASE delta = -1
      <4>1. p + delta * d = p - d
        BY <1>1, <2>3, <3>2
      <4>2. (p - d) % n = q
        BY <1>1, <2>1, <2>2, <2>4, <3>2
      <4> QED BY <4>1, <4>2
    <3> QED BY <3>1, <3>2
  <2> QED BY <2>1, <2>3, <2>5 DEF Stop, n, p, q, d
<1>3. ASSUME NEW d \in 1..(n - 1)
      PROVE  Stop(w, delta, d) \in Clusters /\ Stop(w, delta, d) # w /\ Away(w, delta, Stop(w, delta, d)) = d
  <2> DEFINE q == (p + delta * d) % n
             c == Stop(w, delta, d)
  <2>1. c = InRail(q)
    BY DEF Stop
  <2>2. d \in 0..(n - 1)
    BY <1>1
  <2> HIDE DEF p, n, c
  <2>3. /\ (p + d) % n = IF p + d < n THEN p + d ELSE p + d - n
        /\ (p - d) % n = IF p >= d THEN p - d ELSE p - d + n
    BY <1>1, <2>2, Wraps
  <2>4. q = IF delta = 1 THEN IF p + d < n THEN p + d ELSE p + d - n ELSE IF p >= d THEN p - d ELSE p - d + n
    <3>1. CASE delta = 1
      <4>1. p + delta * d = p + d
        BY <1>1, <2>2, <3>1
      <4> QED BY <2>3, <3>1, <4>1
    <3>2. CASE delta = -1
      <4>1. p + delta * d = p - d
        BY <1>1, <2>2, <3>2
      <4> QED BY <2>3, <3>2, <4>1
    <3> QED BY <3>1, <3>2
  <2> HIDE DEF q
  <2>5. q \in 0..(n - 1) /\ q # p
    BY <1>1, <1>3, <2>4
  <2>6. c \in Clusters /\ Pos(c) = q
    BY <2>1, <2>5, RailHas DEF n
  <2>7. c # w
    BY <2>5, <2>6 DEF p
  <2>8. Away(w, delta, c) = IF delta = 1 THEN IF q >= p THEN q - p ELSE q - p + n
                            ELSE IF p >= q THEN p - q ELSE p - q + n
    BY <2>6 DEF Away, Ahead, p, n
  <2>9. Away(w, delta, c) = d
    <3> DEFINE a == Away(w, delta, c)
    <3> HIDE DEF a
    <3>1. a = IF delta = 1 THEN IF q >= p THEN q - p ELSE q - p + n ELSE IF p >= q THEN p - q ELSE p - q + n
      BY <2>8 DEF a
    <3>2. a = d
      BY <1>1, <1>3, <2>4, <3>1
    <3> QED BY <3>2 DEF a
  <2> QED BY <2>6, <2>7, <2>9 DEF c
<1> QED BY <1>2, <1>3

\* Tab goes to the first cluster on its way that is up.
LEMMA CycledGoes ==
  ASSUME FocusInv, NEW w \in Clusters, NEW delta \in {-1, 1}
  PROVE  /\ Cycled(w, delta) \in Clusters
         /\ \A u \in Clusters : Up(u) /\ u # w =>
              /\ Up(Cycled(w, delta)) /\ Cycled(w, delta) # w
              /\ Away(w, delta, Cycled(w, delta)) <= Away(w, delta, u)
<1> DEFINE n == Fleet
           ups == {step \in 1..(n - 1) : Candidate(Stop(w, delta, step))}
           least == CHOOSE step \in ups : \A x \in ups : step <= x
           to == Cycled(w, delta)
<1>1. n \in Nat /\ n >= 1 /\ Len(FocusOrder) = n
  BY RailHas
<1>2. to = IF n <= 1 THEN w ELSE Stop(w, delta, IF ups = {} THEN 1 ELSE least)
  BY <1>1 DEF Cycled, Stop, InRail, Pos
<1>3. \A x \in Clusters : x # w => Away(w, delta, x) \in 1..(n - 1) /\ Stop(w, delta, Away(w, delta, x)) = x
  BY StopsAway
<1>4. \A step \in 1..(n - 1) : /\ Stop(w, delta, step) \in Clusters /\ Stop(w, delta, step) # w
                                /\ Away(w, delta, Stop(w, delta, step)) = step
  BY StopsAway
<1>5. ups # {} => least \in ups /\ \A x \in ups : least <= x
  <2>1. ups \subseteq Nat
    BY <1>1
  <2> HIDE DEF ups
  <2> QED BY <2>1, LeastExists
<1>6. \A step \in ups : step \in 1..(n - 1) /\ Up(Stop(w, delta, step))
  BY DEF Candidate
<1>7. \A u \in Clusters : Up(u) /\ u # w => Away(w, delta, u) \in ups
  BY <1>3 DEF Candidate
<1> HIDE DEF n, ups, least, to
<1>8. to \in Clusters
  <2>1. CASE n <= 1
    BY <1>2, <2>1
  <2>2. CASE ~(n <= 1)
    <3>1. 1 \in 1..(n - 1)
      BY <1>1, <2>2
    <3>2. (IF ups = {} THEN 1 ELSE least) \in 1..(n - 1)
      BY <1>5, <1>6, <3>1
    <3> QED BY <1>2, <1>4, <2>2, <3>2
  <2> QED BY <2>1, <2>2
<1>9. ASSUME NEW u \in Clusters, Up(u), u # w
      PROVE  Up(to) /\ to # w /\ Away(w, delta, to) <= Away(w, delta, u)
  <2>1. Away(w, delta, u) \in ups
    BY <1>7, <1>9
  <2>2. least \in ups /\ least <= Away(w, delta, u)
    BY <1>5, <2>1
  <2>3. least \in 1..(n - 1) /\ Up(Stop(w, delta, least))
    BY <1>6, <2>2
  <2>4. ~(n <= 1)
    BY <1>1, <2>3
  <2>5. to = Stop(w, delta, least)
    BY <1>2, <2>1, <2>4
  <2>6. to # w /\ Away(w, delta, to) = least
    BY <1>4, <2>3, <2>5
  <2> QED BY <2>2, <2>3, <2>5, <2>6
<1> QED BY <1>8, <1>9 DEF to

\* Shift-Tab goes back.
LEMMA BackAgain ==
  ASSUME FocusInv, NEW w \in Clusters, Up(w), NEW u \in Clusters, Up(u), u # w
  PROVE  Cycled(Cycled(w, 1), -1) = w
<1> DEFINE c == Cycled(w, 1)
           b == Cycled(c, -1)
<1>1. c \in Clusters /\ Up(c) /\ c # w /\ \A x \in Clusters : Up(x) /\ x # w => Away(w, 1, c) <= Away(w, 1, x)
  BY CycledGoes
<1> HIDE DEF c
<1>2. b \in Clusters /\ Up(b) /\ b # c /\ Away(c, -1, b) <= Away(c, -1, w)
  BY <1>1, CycledGoes
<1> HIDE DEF b
<1>3. b = w
  <2> SUFFICES ASSUME b # w PROVE FALSE
    OBVIOUS
  <2>1. Away(w, 1, c) <= Away(w, 1, b)
    BY <1>1, <1>2
  <2>2. Ahead(w, c) <= Ahead(w, b) /\ Ahead(b, c) <= Ahead(w, c)
    BY <1>2, <2>1 DEF Away
  <2>3. /\ Fleet \in Nat /\ Pos(w) \in 0..(Fleet - 1) /\ Pos(c) \in 0..(Fleet - 1) /\ Pos(b) \in 0..(Fleet - 1)
        /\ Pos(w) # Pos(c) /\ Pos(w) # Pos(b) /\ Pos(b) # Pos(c)
    <3>1. \A x \in {w, b, c} : x \in Clusters
      BY <1>1, <1>2
    <3>2. \A x \in {w, b, c} : Pos(x) \in 0..(Fleet - 1) /\ InRail(Pos(x)) = x
      BY <3>1, RailHas
    <3> QED BY <1>1, <1>2, <3>2, RailHas
  <2> QED BY <2>2, <2>3 DEF Ahead
<1> QED BY <1>3 DEF b, c

\* The clusters that are up, and where Tab comes to.
Ups == {c \in Clusters : Up(c)}
TabFrom(at, i) == IF i = 0 THEN watched ELSE Cycled(at[i - 1], 1)
Tabbed == CHOOSE at : at = [i \in 0..Cardinality(Ups) |-> TabFrom(at, i)]

LEMMA TabUnfolds ==
  TabReachesAll <=>
    (Cardinality(Ups) >= 2 =>
       /\ Ups \subseteq {Tabbed[i] : i \in DOMAIN Tabbed}
       /\ Up(watched) => Cycled(Cycled(watched, 1), -1) = watched)
BY DEF TabReachesAll, Ups, TabFrom, Tabbed

LEMMA TabIsDefined ==
  ASSUME Cardinality(Ups) \in Nat
  PROVE  Tabbed = [i \in 0..Cardinality(Ups) |-> TabFrom(Tabbed, i)]
<1> DEFINE G == {d \in Nat : \E at : at = [i \in 0..d |-> TabFrom(at, i)]}
<1>1. 0 \in G
  <2> DEFINE at == [i \in 0..0 |-> watched]
  <2>1. \A i \in 0..0 : i = 0
    OBVIOUS
  <2>2. at = [i \in 0..0 |-> TabFrom(at, i)]
    BY <2>1 DEF TabFrom
  <2> QED BY <2>2
<1>2. ASSUME NEW d \in Nat, d \in G PROVE d + 1 \in G
  <2>1. PICK g : g = [i \in 0..d |-> TabFrom(g, i)]
    BY <1>2
  <2> DEFINE h == [i \in 0..(d + 1) |-> TabFrom(g, i)]
  <2>2. \A i \in 0..d : i \in 0..(d + 1) /\ g[i] = TabFrom(g, i)
    BY <2>1
  <2>3. \A i \in 0..d : g[i] = h[i]
    BY <2>2
  <2>4. \A i \in 0..(d + 1) : i # 0 => i - 1 \in 0..d
    OBVIOUS
  <2>5. \A i \in 0..(d + 1) : TabFrom(g, i) = TabFrom(h, i)
    <3> HIDE DEF h
    <3> QED BY <2>3, <2>4 DEF TabFrom
  <2>6. h = [i \in 0..(d + 1) |-> TabFrom(h, i)]
    BY <2>5
  <2> HIDE DEF h
  <2> QED BY <2>6
<1>3. Cardinality(Ups) \in G
  <2> HIDE DEF G
  <2> QED BY <1>1, <1>2, CountUp
<1> QED BY <1>3 DEF Tabbed

\* After each Tab, what is as near to the start as the focus has been visited,
\* and what is farther is fewer.
LEMMA TabVisits ==
  ASSUME FocusInv, Cardinality(Ups) >= 2
  PROVE  Ups \subseteq {Tabbed[i] : i \in DOMAIN Tabbed}
<1> DEFINE k == Cardinality(Ups)
           Off(c) == Ahead(watched, c)
           Seen(i) == {Tabbed[j] : j \in 0..i}
           Far(i) == {c \in Ups : Off(c) > Off(Tabbed[i])}
           Near(i) == {c \in Ups : Off(c) <= Off(Tabbed[i])}
           G == {i \in Nat : i <= k =>
                   /\ Tabbed[i] \in Clusters
                   /\ Ups \subseteq Seen(i) \/ (Near(i) \subseteq Seen(i) /\ Cardinality(Far(i)) <= k - i)}
<1>1. watched \in Clusters /\ Ups \subseteq Clusters /\ IsFiniteSet(Ups) /\ k \in Nat
  <2>1. IsFiniteSet(Ups)
    BY FS_Subset, FleetAssumption DEF Ups
  <2> QED BY <2>1, FS_CardinalityType DEF FocusInv, Ups
<1>2. Tabbed = [i \in 0..k |-> TabFrom(Tabbed, i)]
  BY <1>1, TabIsDefined
<1>3. DOMAIN Tabbed = 0..k /\ Tabbed[0] = watched
  BY <1>1, <1>2 DEF TabFrom
<1>4. \A i \in Nat : i + 1 <= k => Tabbed[i + 1] = Cycled(Tabbed[i], 1)
  <2> SUFFICES ASSUME NEW i \in Nat, i + 1 <= k PROVE Tabbed[i + 1] = Cycled(Tabbed[i], 1)
    OBVIOUS
  <2>1. i + 1 \in 0..k /\ i + 1 # 0 /\ (i + 1) - 1 = i
    BY <1>1
  <2>2. Tabbed[i + 1] = TabFrom(Tabbed, i + 1)
    BY <1>2, <2>1
  <2> QED BY <2>1, <2>2 DEF TabFrom
<1>5. \A S \in SUBSET Ups : IsFiniteSet(S) /\ Cardinality(S) \in Nat /\ Cardinality(S) <= k
  BY <1>1, FS_Subset, FS_CardinalityType
<1>6. \A w \in Clusters : \E u \in Ups : u # w
  <2> SUFFICES ASSUME NEW w \in Clusters, Ups \subseteq {w} PROVE FALSE
    OBVIOUS
  <2>1. IsFiniteSet({w}) /\ Cardinality({w}) = 1
    BY FS_Singleton
  <2>2. Cardinality(Ups) <= 1
    BY <2>1, FS_Subset
  <2> QED BY <1>1, <2>2
<1>7. /\ Fleet \in Nat
      /\ \A c \in Clusters : Pos(c) \in 0..(Fleet - 1) /\ InRail(Pos(c)) = c
  BY RailHas
<1>8. \A c, d \in Clusters : Pos(c) = Pos(d) => c = d
  BY <1>7
<1>9. \A c \in Clusters : Off(c) \in 0..(Fleet - 1)
  BY <1>1, <1>7 DEF Ahead
<1>10. \A c, d \in Clusters : Off(c) = Off(d) => c = d
  <2> SUFFICES ASSUME NEW c \in Clusters, NEW d \in Clusters, Off(c) = Off(d) PROVE Pos(c) = Pos(d)
    BY <1>8
  <2> QED BY <1>1, <1>7 DEF Ahead
<1>11. Off(watched) = 0
  BY <1>1, <1>7 DEF Ahead
<1>12. \A x, c \in Clusters : /\ Off(c) > Off(x) => Ahead(x, c) = Off(c) - Off(x)
                              /\ Off(c) <= Off(x) => Ahead(x, c) = Off(c) - Off(x) \/ Ahead(x, c) = Off(c) - Off(x) + Fleet
  <2> SUFFICES ASSUME NEW x \in Clusters, NEW c \in Clusters
               PROVE  /\ Off(c) > Off(x) => Ahead(x, c) = Off(c) - Off(x)
                      /\ Off(c) <= Off(x) => Ahead(x, c) = Off(c) - Off(x) \/ Ahead(x, c) = Off(c) - Off(x) + Fleet
    OBVIOUS
  <2> QED BY <1>1, <1>7 DEF Ahead
<1> HIDE DEF Off, k
<1>13. 0 \in G
  <2>1. Near(0) \subseteq {watched}
    <3> SUFFICES ASSUME NEW c \in Ups, Off(c) <= Off(Tabbed[0]) PROVE c = watched
      OBVIOUS
    <3>1. Off(c) = 0
      BY <1>1, <1>3, <1>9, <1>11
    <3> QED BY <1>1, <1>10, <1>11, <3>1
  <2>2. watched \in Seen(0)
    BY <1>3
  <2>3. Far(0) \in SUBSET Ups
    OBVIOUS
  <2>4. Cardinality(Far(0)) <= k - 0
    <3> HIDE DEF Far
    <3> QED BY <1>1, <1>5, <2>3
  <2> HIDE DEF Near, Far, Seen
  <2> QED BY <1>1, <1>3, <2>1, <2>2, <2>4
<1>14. ASSUME NEW i \in Nat, i \in G PROVE i + 1 \in G
  <2> SUFFICES ASSUME i + 1 <= k
               PROVE  /\ Tabbed[i + 1] \in Clusters
                      /\ \/ Ups \subseteq Seen(i + 1)
                         \/ Near(i + 1) \subseteq Seen(i + 1) /\ Cardinality(Far(i + 1)) <= k - (i + 1)
    OBVIOUS
  <2> DEFINE x == Tabbed[i]
             y == Tabbed[i + 1]
  <2>1. /\ x \in Clusters
        /\ Ups \subseteq Seen(i) \/ (Near(i) \subseteq Seen(i) /\ Cardinality(Far(i)) <= k - i)
    <3> HIDE DEF Seen, Near, Far
    <3> QED BY <1>1, <1>14
  <2>2. y = Cycled(x, 1)
    BY <1>4
  <2>3. Seen(i + 1) = Seen(i) \cup {y}
    <3>1. 0..(i + 1) = (0..i) \cup {i + 1}
      OBVIOUS
    <3> QED BY <3>1
  <2> HIDE DEF Seen, y
  <2>4. PICK u \in Ups : u # x
    BY <1>6, <2>1
  <2>5. /\ y \in Clusters /\ Up(y) /\ y # x
        /\ \A c \in Ups : c # x => Ahead(x, y) <= Ahead(x, c)
    <3>1. y \in Clusters /\ \A c \in Clusters : Up(c) /\ c # x =>
            Up(y) /\ y # x /\ Away(x, 1, y) <= Away(x, 1, c)
      BY <2>1, <2>2, CycledGoes
    <3> QED BY <2>4, <3>1 DEF Away, Ups
  <2>6. y \in Ups
    BY <2>5 DEF Ups
  <2>7. CASE Ups \subseteq Seen(i)
    BY <2>3, <2>5, <2>7 DEF y
  <2>8. CASE Near(i) \subseteq Seen(i) /\ Cardinality(Far(i)) <= k - i /\ Far(i) = {}
    <3>1. Ups \subseteq Near(i)
      BY <1>1, <1>9, <2>1, <2>8
    <3> HIDE DEF Near
    <3> QED BY <2>3, <2>5, <2>8, <3>1 DEF y
  <2>9. CASE Near(i) \subseteq Seen(i) /\ Cardinality(Far(i)) <= k - i /\ Far(i) # {}
    <3>1. PICK f \in Ups : Off(f) > Off(x)
      BY <2>9
    <3>2. Off(x) \in Int /\ Off(y) \in 0..(Fleet - 1) /\ \A c \in Ups : Off(c) \in 0..(Fleet - 1)
      BY <1>1, <1>9, <2>1, <2>5
    <3>3. \A c \in Ups : Off(c) > Off(x) => Ahead(x, c) = Off(c) - Off(x) /\ Ahead(x, y) <= Off(c) - Off(x)
      <4> SUFFICES ASSUME NEW c \in Ups, Off(c) > Off(x) PROVE Ahead(x, c) = Off(c) - Off(x) /\ Ahead(x, y) <= Off(c) - Off(x)
        OBVIOUS
      <4>1. c # x /\ c \in Clusters
        BY <1>1, <3>2
      <4>2. Ahead(x, c) = Off(c) - Off(x)
        BY <1>12, <2>1, <4>1
      <4> QED BY <2>5, <4>1, <4>2
    <3>4. Off(y) > Off(x)
      <4> SUFFICES ASSUME Off(y) <= Off(x) PROVE FALSE
        BY <3>2
      <4>1. Off(x) # Off(y) /\ Off(x) \in 0..(Fleet - 1)
        BY <1>9, <1>10, <2>1, <2>5
      <4>2. Ahead(x, y) = Off(y) - Off(x) \/ Ahead(x, y) = Off(y) - Off(x) + Fleet
        BY <1>12, <2>1, <2>5
      <4>3. Ahead(x, y) \in 0..(Fleet - 1)
        BY <1>7, <2>1, <2>5 DEF Ahead
      <4>4. Ahead(x, y) = Off(y) - Off(x) + Fleet
        BY <3>2, <4>1, <4>2, <4>3
      <4>5. Off(f) \in 0..(Fleet - 1) /\ Ahead(x, y) <= Off(f) - Off(x)
        BY <3>1, <3>2, <3>3
      <4> QED BY <1>7, <3>2, <4>1, <4>4, <4>5
    <3>5. Ahead(x, y) = Off(y) - Off(x)
      BY <1>12, <2>1, <2>5, <3>4
    <3>6. \A c \in Ups : Off(c) > Off(x) => Off(y) <= Off(c)
      BY <3>2, <3>3, <3>5
    <3>7. Near(i + 1) \subseteq Near(i) \cup {y}
      <4> SUFFICES ASSUME NEW c \in Ups, Off(c) <= Off(y), ~(Off(c) <= Off(x)) PROVE c = y
        BY DEF y
      <4>1. Off(c) = Off(y)
        BY <3>2, <3>6
      <4> QED BY <1>1, <1>10, <2>5, <4>1
    <3>8. Far(i + 1) \subseteq Far(i) \ {y}
      <4> SUFFICES ASSUME NEW c \in Ups, Off(c) > Off(y) PROVE Off(c) > Off(x) /\ c # y
        BY DEF y
      <4> QED BY <3>2, <3>4
    <3>9. y \in Far(i) /\ Far(i) \in SUBSET Ups
      BY <2>6, <3>4
    <3> HIDE DEF Near, Far
    <3>10. IsFiniteSet(Far(i)) /\ Cardinality(Far(i)) \in Nat
      BY <1>5, <3>9
    <3>11. Cardinality(Far(i) \ {y}) = Cardinality(Far(i)) - 1 /\ IsFiniteSet(Far(i) \ {y})
      BY <3>9, <3>10, FS_RemoveElement
    <3>12. Cardinality(Far(i + 1)) <= Cardinality(Far(i) \ {y}) /\ Cardinality(Far(i + 1)) \in Nat
      BY <3>8, <3>11, FS_Subset, FS_CardinalityType
    <3>13. Cardinality(Far(i + 1)) <= k - (i + 1)
      BY <1>1, <2>9, <3>10, <3>11, <3>12
    <3>14. Near(i + 1) \subseteq Seen(i + 1)
      BY <2>3, <2>9, <3>7
    <3> QED BY <2>5, <3>13, <3>14 DEF y
  <2> HIDE DEF Near, Far
  <2> QED BY <2>1, <2>7, <2>8, <2>9
<1>15. k \in G
  <2> HIDE DEF G
  <2> QED BY <1>1, <1>13, <1>14, CountUp
<1>16. Ups \subseteq Seen(k)
  <2>1. Ups \subseteq Seen(k) \/ (Near(k) \subseteq Seen(k) /\ Cardinality(Far(k)) <= k - k)
    <3> HIDE DEF Seen, Near, Far
    <3> QED BY <1>1, <1>15
  <2>2. CASE Near(k) \subseteq Seen(k) /\ Cardinality(Far(k)) <= k - k
    <3>1. Far(k) \in SUBSET Ups
      OBVIOUS
    <3>2. Far(k) = {}
      <4> HIDE DEF Far
      <4>1. IsFiniteSet(Far(k)) /\ Cardinality(Far(k)) = 0
        BY <1>1, <1>5, <2>2, <3>1
      <4> QED BY <4>1, FS_EmptySet
    <3>3. Tabbed[k] \in Clusters
      BY <1>1, <1>15
    <3>4. Ups \subseteq Near(k)
      BY <1>1, <1>9, <3>2, <3>3
    <3> HIDE DEF Near, Seen
    <3> QED BY <2>2, <3>4
  <2> QED BY <2>1, <2>2
<1> QED BY <1>3, <1>16

\* Wherever the focus is, Tab comes to every cluster that is up.
LEMMA TabComes == ASSUME FocusInv PROVE TabReachesAll
<1> SUFFICES ASSUME Cardinality(Ups) >= 2
             PROVE  /\ Ups \subseteq {Tabbed[i] : i \in DOMAIN Tabbed}
                    /\ Up(watched) => Cycled(Cycled(watched, 1), -1) = watched
  BY TabUnfolds
<1>1. Ups \subseteq {Tabbed[i] : i \in DOMAIN Tabbed}
  BY TabVisits
<1>2. \E u \in Clusters : Up(u) /\ u # watched
  <2> SUFFICES ASSUME \A u \in Clusters : Up(u) => u = watched PROVE FALSE
    OBVIOUS
  <2>1. Ups \subseteq {watched}
    BY DEF Ups
  <2>2. IsFiniteSet({watched}) /\ Cardinality({watched}) = 1
    BY FS_Singleton
  <2>3. Cardinality(Ups) <= 1 /\ Cardinality(Ups) \in Nat
    BY <2>1, <2>2, FS_Subset, FS_CardinalityType
  <2> QED BY <2>3
<1>3. watched \in Clusters
  BY DEF FocusInv
<1>4. Up(watched) => Cycled(Cycled(watched, 1), -1) = watched
  BY <1>2, <1>3, BackAgain
<1> QED BY <1>1, <1>4

LEMMA FocusStart == ASSUME FleetInit PROVE FocusInv
BY DEF FleetInit, FocusInv, Reachabilities

LEMMA FocusStep == ASSUME FocusInv, [FleetNext]_fleetVars PROVE FocusInv'
<1>1. ASSUME NEW delta \in {-1, 1}, Tab(delta) PROVE FocusInv'
  <2>1. watched' = Cycled(watched, delta) /\ store' = store
    BY <1>1 DEF Tab, Focused
  <2>2. Cycled(watched, delta) \in Clusters
    BY CycledGoes DEF FocusInv
  <2> QED BY <2>1, <2>2 DEF FocusInv
<1>2. ASSUME OpenCluster PROVE FocusInv'
  <2>1. store' = store /\ (watched' = FleetCursor \/ watched' = watched) /\ FleetCursor # None
    BY <1>2 DEF OpenCluster, Focused
  <2>2. FleetCursor \in Clusters
    BY <2>1, CursorThere
  <2> QED BY <2>1, <2>2 DEF FocusInv
<1>3. ASSUME NEW c \in Clusters, NEW reach \in Reaches, ProbeReports(c, reach) PROVE FocusInv'
  <2>1. watched' = watched /\ store' = [store EXCEPT ![c] = reach] /\ reach \in Reachabilities
    BY <1>3, FleetAssumption DEF ProbeReports
  <2> QED BY <2>1 DEF FocusInv
<1>4. ASSUME UNCHANGED <<store, watched>> PROVE FocusInv'
  BY <1>4 DEF FocusInv
<1>5. ASSUME \/ EnterFleet \/ BackFromFleet \/ EnterClusterDash \/ BackFromClusterDash
             \/ \E v \in ResourceViews : SwitchView(v)
             \/ \E r \in TableRows : MoveRow(r)
             \/ FocusFilter \/ ClearFilter
             \/ \E text \in {"", "x"}, typing \in BOOLEAN : FilterKey(text, typing)
      PROVE  UNCHANGED <<store, watched>>
  BY <1>5 DEF EnterFleet, BackFromFleet, EnterClusterDash, BackFromClusterDash, SwitchView, MoveRow, FocusFilter,
              ClearFilter, FilterKey
<1>6. ASSUME \/ \E delta \in {-1, 1} : MoveFleetCursor(delta)
             \/ RowsArrive \/ Expand \/ Collapse \/ ClearFleetFilter \/ Refresh
             \/ \E f \in fetches : DeliverDetail(f)
             \/ UNCHANGED fleetVars
      PROVE  UNCHANGED <<store, watched>>
  BY <1>6 DEF MoveFleetCursor, RowsArrive, Expand, Collapse, ClearFleetFilter, Refresh, DeliverDetail, fleetVars
<1> QED BY <1>1, <1>2, <1>3, <1>4, <1>5, <1>6, Zenon DEF FleetNext

\* Tab, which scans the rail for the next cluster that is up (cycleFocus),
\* comes to all of them while the probes are quiet, and Shift-Tab goes back,
\* whatever the probes and the keys did before.
THEOREM TabWorks == FleetSpec => []TabReachesAll
<1>1. FleetInit => FocusInv
  BY FocusStart
<1>2. FocusInv /\ [FleetNext]_fleetVars => FocusInv'
  BY FocusStep
<1>3. FocusInv => TabReachesAll
  BY TabComes
<1> QED BY <1>1, <1>2, <1>3, PTL DEF FleetSpec
=============================================================================
