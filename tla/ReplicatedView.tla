--------------------------- MODULE ReplicatedView ---------------------------
(***************************************************************************)
(* What a resource watcher promises the UI (the contract stated above      *)
(* eventDelivery in internal/cluster/delivery.go): the consumer's view of  *)
(* each UID moves forward along that UID's own events, may skip events,    *)
(* never goes back, and sees a tombstone only for a resource it displays.  *)
(* When the source falls quiet the view reaches the source's state.        *)
(*                                                                         *)
(* An event is a position in `log`; 0 stands for "no event yet".           *)
(***************************************************************************)
EXTENDS Naturals, Sequences

CONSTANT UIDs

VARIABLES log,     \* every event of the source, in order
          latest,  \* position of each UID's newest event
          view     \* position of the event each UID's displayed row shows

vars == <<log, latest, view>>

Event == [uid : UIDs, deleted : BOOLEAN]

\* The resource does not exist after event i.
Absent(i) == i = 0 \/ log[i].deleted

Init ==
  /\ log = <<>>
  /\ latest = [u \in UIDs |-> 0]
  /\ view = [u \in UIDs |-> 0]

\* Deletions and updates happen to resources that exist; a UID may be added
\* again after its deletion (an informer that relists from a stale server).
Change(u, deleted) ==
  /\ deleted => ~Absent(latest[u])
  /\ log' = Append(log, [uid |-> u, deleted |-> deleted])
  /\ latest' = [latest EXCEPT ![u] = Len(log) + 1]
  /\ UNCHANGED view

\* The consumer learns event i of its UID.
Apply(i) ==
  LET u == log[i].uid IN
  /\ view[u] < i
  /\ log[i].deleted => ~Absent(view[u])
  /\ view' = [view EXCEPT ![u] = i]
  /\ UNCHANGED <<log, latest>>

Next == \/ \E u \in UIDs, deleted \in BOOLEAN : Change(u, deleted)
        \/ \E i \in DOMAIN log : Apply(i)

Spec == Init /\ [][Next]_vars

\* The row shown for u is its newest event, or u is neither there nor shown.
Agrees(u) == view[u] = latest[u] \/ (Absent(view[u]) /\ Absent(latest[u]))
=============================================================================
