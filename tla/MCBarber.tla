-------------------------------- MODULE MCBarber --------------------------------
(* An instance of Barber for TLC. *)
EXTENDS Barber, TLC

CONSTANTS c1, c2

\* Both clients come back, one of them twice.
ThreeAndTwo == {c1 :> 3 @@ c2 :> 2}
===============================================================================
