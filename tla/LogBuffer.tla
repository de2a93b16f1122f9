------------------------------ MODULE LogBuffer ------------------------------
(***************************************************************************)
(* internal/ui/logs.go: the bounded buffer of the log view, its scroll     *)
(* position and its search, while lines keep arriving.                     *)
(*                                                                         *)
(* Lines have sequence numbers that count evicted ones too; `lineBase` is  *)
(* the number of the oldest one retained.  The list of matches is kept up  *)
(* to date without rescanning the buffer.  A line is the set of the needles*)
(* it contains.                                                            *)
(***************************************************************************)
EXTENDS Integers, Sequences, FiniteSets, Ordered

CONSTANTS LineCap,  \* defaultLogCap, or fullLogCap of a whole log
          Body,     \* rows of the viewport
          Needles,  \* search terms, "" among them
          LineKinds,\* what a line can contain: sets of needles
          MaxBuffered, \* bound on the lines that arrive
          MaxBatch  \* bound on the lines of one message

ASSUME LogBufferAssumption ==
  /\ LineCap \in Nat \ {0} /\ Body \in Nat \ {0} /\ MaxBuffered \in Nat /\ MaxBatch \in Nat
  /\ "" \in Needles /\ \A kind \in LineKinds : kind \subseteq Needles \ {""}

VARIABLES
  buffered, lineBase, scroll, follow,
  searchTerm, searchFocused, searchMatches, searchIdx, searchNeedle, searchNext,
  viewed \* the step only moved the view: no message was applied

search == <<searchTerm, searchFocused, searchMatches, searchIdx, searchNeedle, searchNext>>
bufferVars == <<buffered, lineBase, scroll, follow, search, viewed>>

BufferInit ==
  /\ buffered = <<>> /\ lineBase = 0 /\ scroll = 0 /\ follow = TRUE
  /\ searchTerm = "" /\ searchFocused = FALSE /\ searchMatches = <<>> /\ searchIdx = 1
  /\ searchNeedle = "" /\ searchNext = 0
  /\ viewed = TRUE

-----------------------------------------------------------------------------
\* clampLogsScrollTo
Clamp(want, count, body) ==
  LET most == IF count > body THEN count - body ELSE 0
  IN  IF want < 0 THEN 0 ELSE IF want > most THEN most ELSE want

Larger(a, b) == IF a > b THEN a ELSE b

\* How many of the matches are of evicted lines.
Expired(old, base) == Cardinality({i \in DOMAIN old : old[i] < base})

\* Where the scan for new matches goes on.
ResumeAt(next, base) == Larger(next, base)

\* The lines from number `from` on that contain t, in buffer ls with base b.
Hits(t, ls, b, from) == {n \in from..(b + Len(ls) - 1) : t \in ls[n - b + 1]}

\* recomputeLogsMatches with term t, buffer ls and base b.  A changed needle
\* starts over; otherwise evicted matches expire and new lines are scanned.
Recompute(t, ls, b) ==
  LET fresh == t # searchNeedle
      old == IF fresh THEN <<>> ELSE searchMatches
      gone == Expired(old, b)
      start == ResumeAt(IF fresh THEN b ELSE searchNext, b)
      new == Increasing(Hits(t, ls, b, start))
  IN  /\ searchNeedle' = t /\ searchTerm' = t
      /\ searchNext' = b + Len(ls)
      /\ IF t = "" THEN searchMatches' = <<>> /\ searchIdx' = 1
         ELSE /\ searchMatches' = SubSeq(old, gone + 1, Len(old)) \o new
              /\ searchIdx' = Larger(1, (IF fresh THEN 1 ELSE searchIdx) - gone)

\* A wrong Anchored: the view slides with the tail.
AnchoredToTail(added, count) == scroll

\* The scroll offset that keeps a paused view where it is.
Anchored(added, count) == IF follow THEN scroll ELSE Clamp(scroll + added, count, 1)

\* applyLogLines
ApplyLogLines(batch) ==
  /\ lineBase + Len(buffered) + Len(batch) <= MaxBuffered
  /\ LET all == buffered \o batch
         dropped == Larger(0, Len(all) - LineCap)
     IN  /\ buffered' = SubSeq(all, dropped + 1, Len(all))
         /\ lineBase' = lineBase + dropped
         /\ scroll' = Anchored(Len(batch), Len(buffered'))
         /\ Recompute(searchTerm, buffered', lineBase')
  /\ viewed' = FALSE
  /\ UNCHANGED <<follow, searchFocused>>

-----------------------------------------------------------------------------
Unsearched == UNCHANGED <<buffered, lineBase, search>> /\ viewed' = TRUE
Browse == ~searchFocused

\* k, ctrl+u and g, j and ctrl+d, G, f of handleLogsKey.
ScrollUp(rows) ==
  /\ Browse /\ scroll' = Clamp(scroll + rows, Len(buffered), Body) /\ follow' = FALSE
  /\ Unsearched

ScrollDown(rows) ==
  /\ Browse /\ scroll' = Larger(0, scroll - rows)
  /\ follow' = (follow \/ scroll' = 0)
  /\ Unsearched

ScrollEnd == Browse /\ scroll' = 0 /\ follow' = TRUE /\ Unsearched

ToggleFollow ==
  /\ Browse /\ follow' = ~follow /\ scroll' = IF follow' THEN 0 ELSE scroll
  /\ Unsearched

\* scrollLogsBy, from the dashboard's pane of another height.
ScrollPane(delta, body) ==
  /\ Browse /\ scroll' = Clamp(scroll + delta, Len(buffered), body) /\ follow' = (scroll' = 0)
  /\ Unsearched

\* "/"
FocusSearch ==
  /\ Browse /\ searchFocused' = TRUE /\ follow' = FALSE /\ viewed' = TRUE
  /\ UNCHANGED <<buffered, lineBase, scroll, searchTerm, searchMatches, searchIdx, searchNeedle,
                 searchNext>>

\* handleLogsSearchKey: typing and erasing.
EditTerm(t) ==
  /\ searchFocused /\ t # searchTerm
  /\ Recompute(t, buffered, lineBase) /\ viewed' = TRUE
  /\ UNCHANGED <<buffered, lineBase, scroll, follow, searchFocused>>

\* esc: in the prompt, or with a search still active.
ClearSearch ==
  /\ searchFocused \/ searchTerm # ""
  /\ Recompute("", buffered, lineBase) /\ searchFocused' = FALSE /\ viewed' = TRUE
  /\ UNCHANGED <<buffered, lineBase, scroll, follow>>

\* scrollLogsToMatch: the line near the middle of the viewport.
ScrollTo(n) ==
  /\ scroll' = Clamp(Len(buffered) - ((n - lineBase) + Body \div 2), Len(buffered), Body)
  /\ follow' = FALSE

\* enter: the first match.
EnterSearch ==
  /\ searchFocused /\ searchFocused' = FALSE
  /\ IF searchMatches = <<>> THEN UNCHANGED <<scroll, follow, searchIdx>>
     ELSE ScrollTo(searchMatches[1]) /\ searchIdx' = 1
  /\ viewed' = TRUE
  /\ UNCHANGED <<buffered, lineBase, searchTerm, searchMatches, searchNeedle, searchNext>>

\* stepLogsMatch: n and N, around the ends.
StepMatch(delta) ==
  /\ Browse /\ searchMatches # <<>>
  /\ searchIdx' = ((searchIdx - 1 + delta) % Len(searchMatches)) + 1
  /\ ScrollTo(searchMatches[searchIdx']) /\ viewed' = TRUE
  /\ UNCHANGED <<buffered, lineBase, searchTerm, searchFocused, searchMatches, searchNeedle,
                 searchNext>>

\* An empty buffer from number base on, with search term t, followed again.
Emptied(base, t) ==
  /\ buffered' = <<>> /\ lineBase' = base /\ scroll' = 0 /\ follow' = TRUE
  /\ searchTerm' = t /\ searchNeedle' = t /\ searchFocused' = FALSE
  /\ searchMatches' = <<>> /\ searchIdx' = 1 /\ searchNext' = base
  /\ viewed' = TRUE

\* beginLogStreamTail, at any moment: also while a search is typed.
BeginBuffer == Emptied(0, "")

\* resetDashboardLogs: the numbers go on, and the search is kept.
ResetBuffer == Emptied(lineBase + Len(buffered), searchTerm)

BufferNext ==
  \/ \E n \in 1..MaxBatch : \E batch \in [1..n -> LineKinds] : ApplyLogLines(batch)
  \/ \E rows \in {1, MaxBuffered} : ScrollUp(rows) \/ ScrollDown(rows)
  \/ \E delta \in {-1, 1}, body \in {1, Body} : ScrollPane(delta, body)
  \/ ScrollEnd \/ ToggleFollow \/ FocusSearch \/ ClearSearch \/ EnterSearch
  \/ BeginBuffer \/ ResetBuffer
  \/ \E t \in Needles : EditTerm(t)
  \/ \E delta \in {-1, 1} : StepMatch(delta)

BufferSpec == BufferInit /\ [][BufferNext]_bufferVars

-----------------------------------------------------------------------------
\* The reference: the retained lines that contain the term, in order.
Matching ==
  IF searchTerm = "" THEN <<>> ELSE Increasing(Hits(searchTerm, buffered, lineBase, lineBase))

\* The list kept from line to line is the one a scan of the whole buffer would
\* give, the n/N cursor is in it, no more lines are held than allowed, and the
\* viewport, wherever it was scrolled, is not past the oldest line.
WindowExact ==
  /\ searchMatches = Matching
  /\ searchIdx \in 1..Larger(1, Len(searchMatches))
  /\ Len(buffered) <= LineCap
  /\ scroll \in 0..Larger(0, Len(buffered) - 1)
  /\ follow => scroll = 0

\* The number of the line after the last one on the screen.
Bottom == lineBase + Len(buffered) - scroll

\* Lines that arrive do not move what is being read: a paused view keeps its
\* place until it is evicted, and n/N its match until that is.
Undisturbed ==
  ~viewed' =>
    /\ (~follow /\ buffered # <<>>) => Bottom' = Larger(Bottom, lineBase' + 1)
    /\ (searchMatches # <<>> /\ searchMatches[searchIdx] >= lineBase')
         => searchMatches'[searchIdx'] = searchMatches[searchIdx]

\* What is on the screen is what was searched for and where the reader left it.
ViewSteady == []WindowExact /\ [][Undisturbed]_bufferVars

-----------------------------------------------------------------------------
(* What an induction needs besides.                                        *)

BufferTypeOK ==
  /\ buffered \in Seq(LineKinds) /\ lineBase \in Nat /\ scroll \in Nat
  /\ follow \in BOOLEAN /\ searchFocused \in BOOLEAN /\ viewed \in BOOLEAN
  /\ searchTerm \in Needles /\ searchIdx \in Nat \ {0}

\* Every line there is has been searched for the term.
SearchedInv == searchNeedle = searchTerm /\ searchNext = lineBase + Len(buffered)

BufferInv == BufferTypeOK /\ SearchedInv /\ WindowExact
=============================================================================
