------------------------------ MODULE TailedLog ------------------------------
(***************************************************************************)
(* What following a container's log promises the viewer (the contract      *)
(* stated above StreamLogs and logCursor in internal/cluster/logstream.go):*)
(* the tail begins at some line, and from there on every line is taken     *)
(* once, in the order of the log, whatever happens to the connection.      *)
(*                                                                         *)
(* A line is its position in `log`.                                        *)
(***************************************************************************)
EXTENDS Naturals, Sequences

CONSTANT Lines \* what a line may be

VARIABLES log,  \* the container's log
          taken \* the lines the viewer was given

vars == <<log, taken>>

Init == log = <<>> /\ taken = <<>>

Write(line) == log' = Append(log, line) /\ UNCHANGED taken

\* The first line taken is where the tail begins; the others follow it.
Take(i) ==
  /\ taken # <<>> => i = taken[Len(taken)] + 1
  /\ taken' = Append(taken, i)
  /\ UNCHANGED log

Next == \/ \E line \in Lines : Write(line)
        \/ \E i \in DOMAIN log : Take(i)

Spec == Init /\ [][Next]_vars
=============================================================================
