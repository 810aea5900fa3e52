---------------------------- MODULE BoundedChannel ----------------------------
(***************************************************************************)
(* What the word buffers of lab7 promise the threads that share them: a    *)
(* first-in first-out channel that holds at most Capacity words.  sent is  *)
(* every word put into the channel, in order, and received every word      *)
(* taken out of it; both belong to one run of the program.                 *)
(***************************************************************************)
EXTENDS Integers, Sequences

CONSTANTS
  Word,      \* the words that can travel through the channel
  Capacity   \* how many words the channel holds

VARIABLES sent, received

vars == <<sent, received>>

Init == sent = <<>> /\ received = <<>>

Put(w) ==
  /\ Len(sent) - Len(received) < Capacity
  /\ sent' = Append(sent, w)
  /\ UNCHANGED received

Get ==
  /\ Len(received) < Len(sent)
  /\ received' = Append(received, sent[Len(received) + 1])
  /\ UNCHANGED sent

\* The program ended, whatever the channel still held, and is run again.
Rerun == sent' = <<>> /\ received' = <<>>

Next == (\E w \in Word : Put(w)) \/ Get \/ Rerun

Spec == Init /\ [][Next]_vars
===============================================================================
