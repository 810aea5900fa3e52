----------------------------- MODULE MCQueueServer -----------------------------
(* Instances of QueueServer for TLC. *)
EXTENDS QueueServer, TLC

CONSTANTS c1, c2, n1, n2

TwoNames == {c1 :> n1 @@ c2 :> n2}

\* srand(time(0)): clients started in the same second get the same name.
AnyNames == TwoNames \cup {c1 :> n1 @@ c2 :> n1}
===============================================================================
