------------------------------ MODULE BatchRunner ------------------------------
(***************************************************************************)
(* lab3/cw2/main.c: runs the commands of a file in their order, each when  *)
(* the one before has ended, and stops at the first whose exit status is   *)
(* not zero.  A command killed by a signal has exit status zero.           *)
(*                                                                         *)
(* It is also what lab4/cw3 promises about the commands of a pipeline.     *)
(***************************************************************************)
EXTENDS Sequences

CONSTANTS Command, NoCommand

VARIABLES
  todo,      \* the commands of the file that were not started
  running,   \* the command whose end is waited for
  status,    \* how it ended: "ok", "fail", "signal"; "none" while it runs
  outcome    \* "running"; "ended" normally; "stopped" by exit(-1) or exit(1)

vars == <<todo, running, status, outcome>>

Init ==
  /\ todo \in Seq(Command)
  /\ running = NoCommand /\ status = "none"
  /\ outcome = "running"

RunProcess ==
  /\ outcome = "running" /\ running = NoCommand /\ todo # <<>>
  /\ running' = Head(todo) /\ todo' = Tail(todo)
  /\ UNCHANGED <<status, outcome>>

ForkFails ==
  /\ outcome = "running" /\ running = NoCommand /\ todo # <<>>
  /\ outcome' = "stopped"
  /\ UNCHANGED <<todo, running, status>>

\* Of its own accord, by a signal, or because execlp failed.
CommandEnds ==
  /\ running # NoCommand /\ status = "none"
  /\ status' \in {"ok", "fail", "signal"}
  /\ UNCHANGED <<todo, running, outcome>>

\* WEXITSTATUS is zero for a child that a signal killed.
Waitpid ==
  /\ outcome = "running" /\ running # NoCommand /\ status # "none"
  /\ running' = NoCommand /\ status' = "none"
  /\ outcome' = IF status = "fail" THEN "stopped" ELSE "running"
  /\ UNCHANGED todo

EndOfFile ==
  /\ outcome = "running" /\ running = NoCommand /\ todo = <<>>
  /\ outcome' = "ended"
  /\ UNCHANGED <<todo, running, status>>

Next == RunProcess \/ ForkFails \/ CommandEnds \/ Waitpid \/ EndOfFile

Spec == Init /\ [][Next]_vars
===============================================================================
