------------------------------ MODULE BarberProofs ------------------------------
(***************************************************************************)
(* Theorems about Barber, for every number of clients, seats, cuts and     *)
(* messages.                                                               *)
(***************************************************************************)
EXTENDS Barber, FiniteSetTheorems, TLAPS

(* A client that is not done has a cut left, so none is ever subtracted from *)
(* nothing.                                                                  *)
TypeInv ==
  /\ TypeOK
  /\ \A c \in Client : pc[c] # "done" => cutsLeft[c] > 0
-------------------------------------------------------------------------------
LEMMA InitType == Init => TypeInv
<1> SUFFICES ASSUME Init PROVE TypeInv
  OBVIOUS
<1>1. cutsLeft \in [Client -> Nat]
  BY BarberAssumption DEF Init
<1>2. /\ isSleeping \in {BARBER_SLEEP, BARBER_NOT_SLEEP} /\ takenSeats \in Int
      /\ queue \in Seq(Client) /\ Len(queue) <= MaxMessages
      /\ barber \in Nat /\ invitation \in Nat /\ seat \in Nat /\ cut \in Nat
      /\ barberPc \in BarberPC /\ receivedMessage \in Client \cup {NULL}
      /\ missed \subseteq {"miscounted", "late"} /\ dead \subseteq Client
  BY BarberAssumption DEF Init, BarberPC
<1>3. pc \in [Client -> ClientPC] /\ register \in [Client -> Int]
  BY DEF Init, ClientPC
<1>4. \A c \in Client : pc[c] # "done" => cutsLeft[c] > 0
  BY DEF Init
<1> QED
  BY <1>1, <1>2, <1>3, <1>4 DEF TypeInv, TypeOK

LEMMA BarberType == TypeInv /\ (BarberStep \/ StopBarber) => TypeInv'
<1> SUFFICES ASSUME TypeInv, BarberStep \/ StopBarber PROVE TypeInv'
  OBVIOUS
<1> USE DEF TypeInv, TypeOK, BarberPC, shm, sems, clientVars, BarberGoto
<1>1. CASE CheckEmpty \/ MarkAsleep \/ MarkAwake
  <2>1. missed' \subseteq {"miscounted", "late"}
    BY <1>1 DEF CheckEmpty, MarkAsleep, MarkAwake
  <2> QED
    BY <1>1, <2>1 DEF CheckEmpty, MarkAsleep, MarkAwake
<1>5. CASE StopBarber
  <2>1. dead' \subseteq Client
    BY <1>5 DEF StopBarber
  <2> QED
    BY <1>5, <2>1 DEF StopBarber
<1>2. CASE SleepBarber \/ WaitForSit
  <2>1. /\ barber' \in Nat /\ seat' \in Nat /\ barberPc' \in BarberPC
        /\ missed' \subseteq {"miscounted", "late"}
    <3>1. CASE SleepBarber
      BY <3>1 DEF SleepBarber, SemWait
    <3>2. CASE WaitForSit
      BY <3>2 DEF WaitForSit, SemWait
    <3> QED
      BY <1>2, <3>1, <3>2
  <2>2. UNCHANGED <<shm, queue, invitation, cut, receivedMessage, clientVars>>
    BY <1>2 DEF SleepBarber, WaitForSit
  <2> QED
    BY <2>1, <2>2
<1>3. CASE SendInvitation \/ SendEnd
  <2>1. /\ invitation' \in Nat /\ cut' \in Nat /\ barberPc' \in BarberPC
        /\ missed' \subseteq {"miscounted", "late"}
    <3>1. CASE SendInvitation
      BY <3>1 DEF SendInvitation, SemPost
    <3>2. CASE SendEnd
      BY <3>2 DEF SendEnd, SemPost
    <3> QED
      BY <1>3, <3>1, <3>2
  <2>2. UNCHANGED <<shm, queue, barber, seat, receivedMessage, clientVars>>
    BY <1>3 DEF SendInvitation, SendEnd
  <2> QED
    BY <2>1, <2>2
<1>4. CASE Receive
  <2>1. /\ Head(queue) \in Client /\ Tail(queue) \in Seq(Client)
        /\ Len(Tail(queue)) = Len(queue) - 1 /\ Len(queue) \in Nat
    BY <1>4 DEF Receive
  <2>2. Len(queue') <= MaxMessages
    BY <1>4, <2>1, BarberAssumption DEF Receive
  <2> QED
    BY <1>4, <2>1, <2>2 DEF Receive
<1> QED
  BY <1>1, <1>2, <1>3, <1>4, <1>5 DEF BarberStep

LEMMA ClientType == ASSUME TypeInv, NEW c \in Client, ClientStep(c) PROVE TypeInv'
<1> USE BarberAssumption
    DEF TypeInv, TypeOK, ClientPC, shm, sems, barberVars, Goto
<1>1. CASE CheckSleep(c) \/ CheckNobody(c) \/ CheckSeats(c)
  BY <1>1 DEF CheckSleep, CheckNobody, CheckSeats
<1>2. CASE LoadTaken(c) \/ LoadLeft(c)
  <2>1. PICK to \in {"storeTaken", "storeLeft"} :
          pc[c] # "done" /\ pc' = [pc EXCEPT ![c] = to]
    BY <1>2 DEF LoadTaken, LoadLeft, Load
  <2>2. /\ register' = [register EXCEPT ![c] = takenSeats]
        /\ UNCHANGED <<shm, queue, sems, barberVars, cutsLeft, dead>>
    BY <1>2 DEF LoadTaken, LoadLeft, Load
  <2> QED
    BY <2>1, <2>2
<1>3. CASE StoreTaken(c) \/ StoreLeft(c)
  <2>1. takenSeats' \in Int
    BY <1>3 DEF StoreTaken, StoreLeft, Store
  <2>2. PICK to \in {"sendWait", "checkNegative"} :
          pc[c] # "done" /\ pc' = [pc EXCEPT ![c] = to]
    BY <1>3 DEF StoreTaken, StoreLeft, Store
  <2>3. /\ register' = [register EXCEPT ![c] = 0]
        /\ UNCHANGED <<isSleeping, queue, sems, barberPc, receivedMessage, cutsLeft, dead>>
    BY <1>3 DEF StoreTaken, StoreLeft, Store
  <2>4. missed' \subseteq {"miscounted", "late"}
    BY <1>3 DEF StoreTaken, StoreLeft
  <2> QED
    BY <2>1, <2>2, <2>3, <2>4
<1>4. CASE SendMessage(c)
  <2>1. queue' = Append(queue, c) /\ Len(queue) < MaxMessages
    BY <1>4 DEF SendMessage
  <2>2. queue' \in Seq(Client) /\ Len(queue') <= MaxMessages
    BY <2>1
  <2> QED
    BY <1>4, <2>2 DEF SendMessage
<1>5. CASE WakeBarber(c) \/ SittingOnChair(c) \/ WaitForInvitation(c) \/ WaitForEndCutting(c)
  <2>1. barber' \in Nat /\ invitation' \in Nat /\ seat' \in Nat /\ cut' \in Nat
    <3>1. CASE WakeBarber(c)
      BY <3>1 DEF WakeBarber, SemPost
    <3>2. CASE SittingOnChair(c)
      BY <3>2 DEF SittingOnChair, SemPost
    <3>3. CASE WaitForInvitation(c)
      BY <3>3 DEF WaitForInvitation, SemWait
    <3>4. CASE WaitForEndCutting(c)
      BY <3>4 DEF WaitForEndCutting, SemWait
    <3> QED
      BY <1>5, <3>1, <3>2, <3>3, <3>4
  <2>2. PICK to \in {"waitForInvitation", "sittingOnChair", "waitForEndCutting", "loadLeft"} :
          pc[c] # "done" /\ pc' = [pc EXCEPT ![c] = to]
    BY <1>5 DEF WakeBarber, SittingOnChair, WaitForInvitation, WaitForEndCutting
  <2>3. UNCHANGED <<shm, queue, barberVars, register, cutsLeft, dead>>
    BY <1>5 DEF WakeBarber, SittingOnChair, WaitForInvitation, WaitForEndCutting
  <2> QED
    BY <2>1, <2>2, <2>3
<1>7. ASSUME NEW from \in {"checkNegative", "storeZero"}, Leave(c, from), takenSeats' \in Int
      PROVE  TypeInv'
  <2>1. /\ pc[c] # "done" /\ cutsLeft[c] > 0
        /\ pc' = [pc EXCEPT ![c] = IF cutsLeft[c] > 1 THEN "checkSleep" ELSE "done"]
        /\ cutsLeft' = [cutsLeft EXCEPT ![c] = cutsLeft[c] - 1]
        /\ UNCHANGED <<isSleeping, queue, sems, barberVars, register, dead>>
    BY <1>7 DEF Leave
  <2> QED
    BY <1>7, <2>1
<1>8. CASE CheckNegative(c) /\ ~ Leave(c, "checkNegative")
  BY <1>8 DEF CheckNegative
<1>9. CASE StoreZero(c) \/ (CheckNegative(c) /\ Leave(c, "checkNegative"))
  <2>1. \E from \in {"checkNegative", "storeZero"} : Leave(c, from)
    BY <1>9 DEF StoreZero
  <2>2. takenSeats' \in Int
    BY <1>9 DEF StoreZero, CheckNegative
  <2> QED
    BY <1>7, <2>1, <2>2
<1> QED
  BY <1>1, <1>2, <1>3, <1>4, <1>5, <1>8, <1>9 DEF ClientStep
-------------------------------------------------------------------------------
(* Counting the clients at a label.                                          *)
LEMMA AtFinite == \A label : IsFiniteSet(At(label)) /\ Cardinality(At(label)) \in Nat
<1> TAKE label
<1>1. At(label) \subseteq Client
  BY DEF At
<1> QED
  BY <1>1, BarberAssumption, FS_Subset, FS_CardinalityType

LEMMA NobodyAt == \A label : Cardinality(At(label)) = 0 <=> \A c \in Client : pc[c] # label
<1> TAKE label
<1>1. Cardinality(At(label)) = 0 <=> At(label) = {}
  BY AtFinite, FS_EmptySet
<1> QED
  BY <1>1 DEF At

\* A client that moves is counted at one label instead of the other.
LEMMA Move ==
  ASSUME TypeInv, NEW c \in Client, NEW from, NEW to, from # to,
         Goto(c, from, to)
  PROVE  /\ Cardinality(At(from))' = Cardinality(At(from)) - 1
         /\ Cardinality(At(to))' = Cardinality(At(to)) + 1
         /\ \A label : label \notin {from, to} =>
              Cardinality(At(label))' = Cardinality(At(label))
<1>1. pc[c] = from /\ \A d \in Client : pc'[d] = IF d = c THEN to ELSE pc[d]
  BY DEF Goto, TypeInv, TypeOK
<1>2. c \in At(from) /\ At(from)' = At(from) \ {c}
  BY <1>1 DEF At
<1>3. c \notin At(to) /\ At(to)' = At(to) \cup {c}
  BY <1>1 DEF At
<1>4. \A label : label \notin {from, to} => At(label)' = At(label)
  BY <1>1 DEF At
<1>5. Cardinality(At(from) \ {c}) = Cardinality(At(from)) - 1
  BY <1>2, AtFinite, FS_RemoveElement
<1>6. Cardinality(At(to) \cup {c}) = Cardinality(At(to)) + 1
  BY <1>3, AtFinite, FS_AddElement
<1> QED
  BY <1>2, <1>3, <1>4, <1>5, <1>6
-------------------------------------------------------------------------------
HandOver == InvitationsMatch /\ OneAtATime /\ CutsMatch

LEMMA InitHandOver == Init => HandOver
<1> SUFFICES ASSUME Init PROVE HandOver
  OBVIOUS
<1>1. \A label \in {"waitForInvitation", "wakeBarber", "sittingOnChair", "waitForEndCutting"} :
        Cardinality(At(label)) = 0
  BY NobodyAt DEF Init
<1> QED
  BY <1>1
  DEF Init, HandOver, InvitationsMatch, OneAtATime, CutsMatch, If

LEMMA BarberHandOver == TypeInv /\ HandOver /\ (BarberStep \/ StopBarber) => HandOver'
<1> SUFFICES ASSUME TypeInv, HandOver, BarberStep PROVE HandOver'
  BY DEF HandOver, InvitationsMatch, OneAtATime, CutsMatch, StopBarber
<1>1. \A label : Cardinality(At(label))' = Cardinality(At(label)) /\ Cardinality(At(label)) \in Nat
  BY AtFinite
  DEF BarberStep, CheckEmpty, MarkAsleep, SleepBarber, MarkAwake, Receive, SendInvitation,
      WaitForSit, SendEnd, clientVars, At
<1> USE <1>1
    DEF HandOver, InvitationsMatch, OneAtATime, CutsMatch, If, TypeInv, TypeOK, shm, sems,
        BarberGoto
<1>2. CASE CheckEmpty \/ MarkAsleep \/ SleepBarber \/ MarkAwake
  BY <1>2 DEF CheckEmpty, MarkAsleep, SleepBarber, MarkAwake
<1>3. CASE Receive
  <2>1. Len(queue') = Len(queue) - 1 /\ Len(queue) \in Nat
    BY <1>3 DEF Receive
  <2> QED
    BY <1>3, <2>1 DEF Receive
<1>4. CASE SendInvitation
  BY <1>4 DEF SendInvitation, SemPost
<1>5. CASE WaitForSit
  BY <1>5 DEF WaitForSit, SemWait
<1>6. CASE SendEnd
  BY <1>6 DEF SendEnd, SemPost
<1> QED
  BY <1>2, <1>3, <1>4, <1>5, <1>6 DEF BarberStep

LEMMA ClientHandOver ==
  ASSUME TypeInv, HandOver, NEW c \in Client, ClientStep(c)
  PROVE  HandOver'
<1> DEFINE waiting == Cardinality(At("waitForInvitation"))
           waking  == Cardinality(At("wakeBarber"))
           sitting == Cardinality(At("sittingOnChair"))
           cutting == Cardinality(At("waitForEndCutting"))
           inHand  == If(barberPc = "invite")
           chair   == If(barberPc = "waitForSit")
           ending  == If(barberPc = "sendEnd")
<1>1. waiting \in Nat /\ waking \in Nat /\ sitting \in Nat /\ cutting \in Nat
  BY AtFinite
<1>2. barberPc' = barberPc
  BY DEF ClientStep, CheckSleep, CheckNobody, CheckSeats, LoadTaken, LoadLeft, Load,
         StoreTaken, StoreLeft, Store, SendMessage, WakeBarber, WaitForInvitation,
         SittingOnChair, WaitForEndCutting, CheckNegative, StoreZero, Leave, barberVars
<1> SUFFICES ASSUME barberPc # "gone" PROVE HandOver'
  BY <1>2 DEF HandOver, InvitationsMatch, OneAtATime, CutsMatch
<1>3. /\ waiting + waking = Len(queue) + inHand + invitation
      /\ invitation + sitting + seat = chair
      /\ cutting = seat + ending + cut
  BY DEF HandOver, InvitationsMatch, OneAtATime, CutsMatch
<1>4. inHand \in Nat /\ chair \in Nat /\ ending \in Nat
  BY DEF If
<1>5. /\ Len(queue) \in Nat /\ invitation \in Nat /\ seat \in Nat /\ cut \in Nat
  BY DEF TypeInv, TypeOK
<1>6. SUFFICES
        /\ waiting' + waking' = Len(queue') + inHand + invitation'
        /\ invitation' + sitting' + seat' = chair
        /\ cutting' = seat' + ending + cut'
  BY <1>2 DEF HandOver, InvitationsMatch, OneAtATime, CutsMatch
<1> USE DEF sems
<1>7. CASE \/ CheckSleep(c) \/ CheckNobody(c) \/ CheckSeats(c) \/ LoadTaken(c) \/ LoadLeft(c)
           \/ StoreTaken(c) \/ StoreLeft(c) \/ CheckNegative(c) \/ StoreZero(c)
  <2>1. PICK from \in {"checkSleep", "checkNobody", "checkSeats", "loadTaken", "loadLeft",
                       "storeTaken", "storeLeft", "checkNegative", "storeZero"},
             to \in {"checkSleep", "checkNobody", "checkSeats", "loadTaken", "storeTaken",
                     "storeLeft", "sendWake", "sendWait", "checkNegative", "storeZero", "done"} :
               from # to /\ Goto(c, from, to)
    BY <1>7
    DEF CheckSleep, CheckNobody, CheckSeats, LoadTaken, LoadLeft, Load, StoreTaken, StoreLeft,
        Store, CheckNegative, StoreZero, Leave
  <2>2. waiting' = waiting /\ waking' = waking /\ sitting' = sitting /\ cutting' = cutting
    BY <2>1, Move
  <2>3. UNCHANGED <<queue, invitation, seat, cut>>
    BY <1>7
    DEF CheckSleep, CheckNobody, CheckSeats, LoadTaken, LoadLeft, Load, StoreTaken, StoreLeft,
        Store, CheckNegative, StoreZero, Leave
  <2> QED
    BY <1>3, <2>2, <2>3
<1>8. CASE SendMessage(c)
  <2>1. queue' = Append(queue, c) /\ UNCHANGED <<invitation, seat, cut>>
    BY <1>8 DEF SendMessage
  <2>2. Len(queue') = Len(queue) + 1
    BY <2>1 DEF TypeInv, TypeOK
  <2>3. CASE Goto(c, "sendWake", "wakeBarber")
    <3>1. waiting' = waiting /\ waking' = waking + 1 /\ sitting' = sitting /\ cutting' = cutting
      BY <2>3, Move
    <3> HIDE DEF waiting, waking, sitting, cutting, inHand, chair, ending
    <3> QED
      BY <1>1, <1>3, <1>4, <1>5, <2>1, <2>2, <3>1
  <2>4. CASE Goto(c, "sendWait", "waitForInvitation")
    <3>1. waiting' = waiting + 1 /\ waking' = waking /\ sitting' = sitting /\ cutting' = cutting
      BY <2>4, Move
    <3> HIDE DEF waiting, waking, sitting, cutting, inHand, chair, ending
    <3> QED
      BY <1>1, <1>3, <1>4, <1>5, <2>1, <2>2, <3>1
  <2> QED
    BY <1>8, <2>3, <2>4 DEF SendMessage
<1>9. CASE WakeBarber(c)
  <2>1. waiting' = waiting + 1 /\ waking' = waking - 1 /\ sitting' = sitting /\ cutting' = cutting
    BY <1>9, Move DEF WakeBarber
  <2>2. UNCHANGED <<queue, invitation, seat, cut>>
    BY <1>9 DEF WakeBarber
  <2> HIDE DEF waiting, waking, sitting, cutting, inHand, chair, ending
  <2> QED
    BY <1>1, <1>3, <1>4, <1>5, <2>1, <2>2
<1>10. CASE WaitForInvitation(c)
  <2>1. waiting' = waiting - 1 /\ waking' = waking /\ sitting' = sitting + 1 /\ cutting' = cutting
    BY <1>10, Move DEF WaitForInvitation
  <2>2. invitation' = invitation - 1 /\ UNCHANGED <<queue, seat, cut>>
    BY <1>10 DEF WaitForInvitation, SemWait
  <2> HIDE DEF waiting, waking, sitting, cutting, inHand, chair, ending
  <2> QED
    BY <1>1, <1>3, <1>4, <1>5, <2>1, <2>2
<1>11. CASE SittingOnChair(c)
  <2>1. waiting' = waiting /\ waking' = waking /\ sitting' = sitting - 1 /\ cutting' = cutting + 1
    BY <1>11, Move DEF SittingOnChair
  <2>2. seat' = seat + 1 /\ UNCHANGED <<queue, invitation, cut>>
    BY <1>11 DEF SittingOnChair, SemPost
  <2> HIDE DEF waiting, waking, sitting, cutting, inHand, chair, ending
  <2> QED
    BY <1>1, <1>3, <1>4, <1>5, <2>1, <2>2
<1>12. CASE WaitForEndCutting(c)
  <2>1. waiting' = waiting /\ waking' = waking /\ sitting' = sitting /\ cutting' = cutting - 1
    BY <1>12, Move DEF WaitForEndCutting
  <2>2. cut' = cut - 1 /\ UNCHANGED <<queue, invitation, seat>>
    BY <1>12 DEF WaitForEndCutting, SemWait
  <2> HIDE DEF waiting, waking, sitting, cutting, inHand, chair, ending
  <2> QED
    BY <1>1, <1>3, <1>4, <1>5, <2>1, <2>2
<1> QED
  BY <1>7, <1>8, <1>9, <1>10, <1>11, <1>12 DEF ClientStep

-------------------------------------------------------------------------------
(* A sleeping barber has missed nobody as long as the semaphore barber will  *)
(* be posted once for each client that waits.                                *)
SleepInv ==
  barberPc \in {"markAsleep", "sleep"} /\ missed = {} => Waiting <= Announced

LEMMA LivingFinite ==
  \A label : /\ IsFiniteSet(At(label) \ dead)
             /\ Cardinality(At(label) \ dead) \in Nat
             /\ Cardinality(At(label) \ dead) <= Cardinality(At(label))
<1> TAKE label
<1>1. At(label) \ dead \subseteq At(label)
  OBVIOUS
<1> QED
  BY <1>1, AtFinite, FS_Subset, FS_CardinalityType

\* A client that leaves a label was one of the living there.
LEMMA LivingMove ==
  ASSUME TypeInv, NEW c \in Client, NEW from, NEW to, from # to,
         Goto(c, from, to)
  PROVE  /\ Cardinality(At(from) \ dead)' = Cardinality(At(from) \ dead) - 1
         /\ \A label : label \notin {from, to} =>
              Cardinality(At(label) \ dead)' = Cardinality(At(label) \ dead)
<1>1. /\ c \notin dead /\ dead' = dead
      /\ pc[c] = from /\ \A d \in Client : pc'[d] = IF d = c THEN to ELSE pc[d]
  BY DEF Goto, TypeInv, TypeOK
<1>2. c \in At(from) \ dead /\ (At(from) \ dead)' = (At(from) \ dead) \ {c}
  BY <1>1 DEF At
<1>3. \A label : label \notin {from, to} => (At(label) \ dead)' = At(label) \ dead
  BY <1>1 DEF At
<1>4. Cardinality((At(from) \ dead) \ {c}) = Cardinality(At(from) \ dead) - 1
  BY <1>2, LivingFinite, FS_RemoveElement
<1> QED
  BY <1>2, <1>3, <1>4

\* The labels the waking of the barber is about are different ones.
LEMMA LivingStay ==
  ASSUME TypeInv, NEW c \in Client,
         \/ Goto(c, "sendWake", "wakeBarber")
         \/ Goto(c, "wakeBarber", "waitForInvitation")
  PROVE  Cardinality(At("sendWait") \ dead)' = Cardinality(At("sendWait") \ dead)
<1>1. PICK from \in {"sendWake", "wakeBarber"}, to \in {"wakeBarber", "waitForInvitation"} :
        from # to /\ "sendWait" \notin {from, to} /\ Goto(c, from, to)
  OBVIOUS
<1> QED
  BY <1>1, LivingMove

LEMMA NumbersOfClients ==
  ASSUME TypeInv
  PROVE  /\ barber \in Nat /\ Len(queue) \in Nat
         /\ Waiting \in Nat /\ Announced \in Nat
<1>1. barber \in Nat /\ Len(queue) \in Nat
  BY DEF TypeInv, TypeOK
<1>2. Cardinality(At("sendWait") \ dead) \in Nat /\ Cardinality(At("wakeBarber")) \in Nat
  BY AtFinite, LivingFinite
<1> QED
  BY <1>1, <1>2 DEF Waiting, Announced

LEMMA BarberSleep == SleepInv /\ TypeInv /\ (BarberStep \/ StopBarber) => SleepInv'
<1> SUFFICES ASSUME SleepInv, TypeInv, BarberStep \/ StopBarber,
                    barberPc' \in {"markAsleep", "sleep"}, missed' = {}
             PROVE  (Waiting <= Announced)'
  BY DEF SleepInv
<1> USE DEF shm, sems, clientVars, BarberGoto
<1>1. CASE CheckEmpty
  <2>1. Waiting \in Nat /\ Announced \in Nat
    BY NumbersOfClients
  <2>2. Waiting <= Announced
    BY <1>1, <2>1 DEF CheckEmpty
  <2> QED
    BY <1>1, <2>2 DEF CheckEmpty, Waiting, Announced, At
<1>2. CASE MarkAsleep
  <2>1. barberPc = "markAsleep" /\ missed = {}
    BY <1>2 DEF MarkAsleep
  <2>2. Waiting <= Announced
    BY <2>1 DEF SleepInv
  <2> QED
    BY <1>2, <2>2 DEF MarkAsleep, Waiting, Announced, At
<1> QED
  BY <1>1, <1>2
  DEF BarberStep, SleepBarber, MarkAwake, Receive, SendInvitation, WaitForSit, SendEnd, StopBarber

LEMMA ClientSleep ==
  ASSUME SleepInv, TypeInv, NEW c \in Client, ClientStep(c)
  PROVE  SleepInv'
<1> DEFINE seated  == Cardinality(At("sendWait") \ dead)
           waking  == Cardinality(At("wakeBarber"))
<1> SUFFICES ASSUME barberPc' \in {"markAsleep", "sleep"}, missed' = {}
             PROVE  seated' + Len(queue') <= barber' + waking'
  BY DEF SleepInv, Waiting, Announced
<1>1. barberPc' = barberPc /\ missed = {} /\ ~ StoreTaken(c)
  BY DEF ClientStep, CheckSleep, CheckNobody, CheckSeats, LoadTaken, LoadLeft, Load,
         StoreTaken, StoreLeft, Store, SendMessage, WakeBarber, WaitForInvitation,
         SittingOnChair, WaitForEndCutting, CheckNegative, StoreZero, Leave, barberVars
<1>2. seated + Len(queue) <= barber + waking
  BY <1>1 DEF SleepInv, Waiting, Announced
<1>a. barber \in Nat /\ Len(queue) \in Nat
  BY NumbersOfClients
<1>b. seated \in Nat /\ waking \in Nat
  BY AtFinite, LivingFinite
<1>3. seated \in Nat /\ waking \in Nat /\ barber \in Nat /\ Len(queue) \in Nat
  BY <1>a, <1>b
<1> USE DEF sems
<1>4. CASE \/ CheckSleep(c) \/ CheckNobody(c) \/ CheckSeats(c) \/ LoadTaken(c) \/ LoadLeft(c)
           \/ StoreLeft(c) \/ CheckNegative(c) \/ StoreZero(c) \/ WaitForInvitation(c)
           \/ SittingOnChair(c) \/ WaitForEndCutting(c)
  <2>1. PICK from \in {"checkSleep", "checkNobody", "checkSeats", "loadTaken", "loadLeft",
                       "storeLeft", "checkNegative", "storeZero", "waitForInvitation",
                       "sittingOnChair", "waitForEndCutting"},
             to \in {"checkSleep", "checkNobody", "checkSeats", "loadTaken", "storeTaken",
                     "storeLeft", "sendWake", "checkNegative", "storeZero",
                     "sittingOnChair", "waitForEndCutting", "loadLeft", "done"} :
               from # to /\ Goto(c, from, to)
    BY <1>4
    DEF CheckSleep, CheckNobody, CheckSeats, LoadTaken, LoadLeft, Load, StoreLeft,
        Store, CheckNegative, StoreZero, Leave, WaitForInvitation, SittingOnChair,
        WaitForEndCutting
  <2>2. seated' = seated
    BY <2>1, LivingMove
  <2>4. waking' = waking
    BY <2>1, Move
  <2>3. UNCHANGED <<queue, barber>>
    BY <1>4
    DEF CheckSleep, CheckNobody, CheckSeats, LoadTaken, LoadLeft, Load, StoreLeft,
        Store, CheckNegative, StoreZero, Leave, WaitForInvitation, SittingOnChair,
        WaitForEndCutting
  <2> QED
    BY <1>2, <2>2, <2>3, <2>4
<1>5. CASE SendMessage(c)
  <2>1. queue' = Append(queue, c) /\ barber' = barber
    BY <1>5 DEF SendMessage
  <2>2. Len(queue') = Len(queue) + 1
    BY <2>1 DEF TypeInv, TypeOK
  <2>3. CASE Goto(c, "sendWake", "wakeBarber")
    <3>1. seated' = seated
      BY <2>3, LivingStay
    <3>2. waking' = waking + 1
      BY <2>3, Move
    <3> HIDE DEF seated, waking
    <3> QED
      BY <1>2, <1>3, <2>1, <2>2, <3>1, <3>2
  <2>4. CASE Goto(c, "sendWait", "waitForInvitation")
    <3>1. seated' = seated - 1
      BY <2>4, LivingMove
    <3>2. waking' = waking
      BY <2>4, Move
    <3> HIDE DEF seated, waking
    <3> QED
      BY <1>2, <1>3, <2>1, <2>2, <3>1, <3>2
  <2> QED
    BY <1>5, <2>3, <2>4 DEF SendMessage
<1>6. CASE WakeBarber(c)
  <2>1. Goto(c, "wakeBarber", "waitForInvitation")
    BY <1>6 DEF WakeBarber
  <2>3. seated' = seated
    BY <2>1, LivingStay
  <2>4. waking' = waking - 1
    BY <2>1, Move
  <2>2. barber' = barber + 1 /\ queue' = queue
    BY <1>6 DEF WakeBarber, SemPost
  <2> HIDE DEF seated, waking
  <2> QED
    BY <1>2, <1>3, <2>2, <2>3, <2>4
<1> QED
  BY <1>1, <1>4, <1>5, <1>6 DEF ClientStep

\* A client that is killed waits no more; a post it owed stays owed.
LEMMA InterruptKeeps ==
  ASSUME TypeInv, HandOver, SleepInv, NEW c \in Client, InterruptClient(c)
  PROVE  TypeInv' /\ HandOver' /\ SleepInv'
<1>1. dead' = dead \cup {c}
      /\ UNCHANGED <<shm, queue, sems, barberVars, pc, register, cutsLeft>>
  BY DEF InterruptClient
<1> USE DEF shm, sems, barberVars
<1>2. TypeInv'
  BY <1>1 DEF TypeInv, TypeOK
<1>3. HandOver'
  BY <1>1 DEF HandOver, InvitationsMatch, OneAtATime, CutsMatch, At
<1>4. ASSUME barberPc \in {"markAsleep", "sleep"}, missed = {}
      PROVE  (Waiting <= Announced)'
  <2>1. (At("sendWait") \ dead)' \subseteq At("sendWait") \ dead
    BY <1>1 DEF At
  <2>2. Cardinality((At("sendWait") \ dead)') <= Cardinality(At("sendWait") \ dead)
        /\ Cardinality((At("sendWait") \ dead)') \in Nat
    BY <2>1, LivingFinite, FS_Subset, FS_CardinalityType
  <2>3. Waiting <= Announced /\ Announced' = Announced
    BY <1>1, <1>4 DEF SleepInv, Announced, At
  <2>4. Len(queue) \in Nat /\ Announced \in Nat /\ Cardinality(At("sendWait") \ dead) \in Nat
    BY NumbersOfClients, LivingFinite
  <2> QED
    BY <1>1, <2>2, <2>3, <2>4 DEF Waiting
<1> QED
  BY <1>1, <1>2, <1>3, <1>4 DEF SleepInv

(* The inductive invariant of the shop.                                      *)
ShopInv == TypeInv /\ HandOver /\ SleepInv

THEOREM ShopInvHolds == Spec => []ShopInv
<1>1. Init => ShopInv
  BY InitType, InitHandOver DEF ShopInv, SleepInv, Init
<1>2. ShopInv /\ [Next]_vars => ShopInv'
  <2>1. ShopInv /\ Next => ShopInv'
    BY BarberType, ClientType, BarberHandOver, ClientHandOver, BarberSleep, ClientSleep,
       InterruptKeeps
    DEF Next, ShopInv
  <2>2. ShopInv /\ UNCHANGED vars => ShopInv'
    BY DEF vars, shm, sems, barberVars, clientVars, ShopInv, TypeInv, TypeOK, HandOver,
           InvitationsMatch, OneAtATime, CutsMatch, SleepInv, Waiting, Announced, At
  <2> QED
    BY <2>1, <2>2
<1> QED
  BY <1>1, <1>2, PTL DEF Spec

(* Every message, invitation, seat and end of a cut belongs to exactly one   *)
(* client that sent for it or waits for it, as long as the barber works.     *)
THEOREM ChairInvHolds == Spec => []ChairInv
<1>1. ShopInv => ChairInv
  BY DEF ShopInv, TypeInv, HandOver, ChairInv
<1> QED
  BY <1>1, ShopInvHolds, PTL
-------------------------------------------------------------------------------
(* Whenever the shop stands still with somebody alive and unserved, either   *)
(* the barber sleeps with a message in the queue, having missed a client at  *)
(* his test or after it, or because the client that was to wake him died; or *)
(* he waits at the chair for a client that died.  Everywhere else the counts *)
(* of the chair leave somebody who can move.                                 *)
THEOREM StandstillHolds == Spec => []StandstillHasCause
<1>1. ShopInv => StandstillHasCause
  <2> SUFFICES ASSUME ShopInv, Standstill
               PROVE  SleepsOn \/ WaitsForTheDead
    BY DEF StandstillHasCause
  <2> DEFINE waiting == Cardinality(At("waitForInvitation"))
             waking  == Cardinality(At("wakeBarber"))
             sitting == Cardinality(At("sittingOnChair"))
             cutting == Cardinality(At("waitForEndCutting"))
  <2>1. waiting \in Nat /\ waking \in Nat /\ sitting \in Nat /\ cutting \in Nat
    BY AtFinite
  <2>2. /\ waiting + waking = Len(queue) + If(barberPc = "invite") + invitation
        /\ invitation + sitting + seat = If(barberPc = "waitForSit")
        /\ cutting = seat + If(barberPc = "sendEnd") + cut
    BY DEF ShopInv, HandOver, InvitationsMatch, OneAtATime, CutsMatch, Standstill, BarberBlocked
  <2>3. /\ Len(queue) \in Nat /\ invitation \in Nat /\ seat \in Nat /\ cut \in Nat
        /\ barber \in Nat
    BY DEF ShopInv, TypeInv, TypeOK
  <2>4. \A label \in {"wakeBarber", "sittingOnChair"} : At(label) \subseteq dead
    BY DEF Standstill, ClientBlocked, At
  <2>5. CASE barberPc # "waitForSit" /\ queue = <<>>
    <3>1. invitation = 0 /\ sitting = 0 /\ seat = 0
      BY <2>1, <2>2, <2>3, <2>5 DEF If
    <3>2. barberPc \in {"sleep", "receive"} /\ Len(queue) = 0
      BY <2>5 DEF Standstill, BarberBlocked
    <3>3. waiting = 0 /\ cutting = cut
      <4> HIDE DEF waiting, waking, sitting, cutting
      <4>1. If(barberPc = "invite") = 0 /\ If(barberPc = "sendEnd") = 0
        BY <3>2 DEF If
      <4> QED
        BY <2>1, <2>2, <2>3, <3>1, <3>2, <4>1
    <3>4. PICK c \in Client \ dead : pc[c] # "done"
      BY DEF Standstill
    <3>5. pc[c] = "waitForEndCutting" /\ cut = 0
      BY <3>2, <3>3, <3>4, NobodyAt, BarberAssumption DEF Standstill, ClientBlocked
    <3> QED
      BY <3>3, <3>5, NobodyAt
  <2>6. CASE barberPc = "sleep" /\ queue # <<>>
    <3> SUFFICES ASSUME missed = {}, At("wakeBarber") \cap dead = {} PROVE FALSE
      BY <2>6 DEF SleepsOn
    <3>1. At("wakeBarber") = {}
      BY <2>4
    <3>2. Waiting <= barber + 0 /\ barber = 0
      BY <2>6, <3>1, FS_EmptySet DEF ShopInv, SleepInv, Announced, Standstill, BarberBlocked
    <3>3. Len(queue) = 0
      BY <2>3, <3>2, LivingFinite DEF Waiting
    <3> QED
      BY <2>6, <3>3 DEF ShopInv, TypeInv, TypeOK
  <2>7. CASE barberPc = "waitForSit"
    <3>1. seat = 0
      BY <2>7 DEF Standstill, BarberBlocked
    <3>2. CASE sitting # 0
      BY <2>4, <2>7, <3>2, NobodyAt DEF WaitsForTheDead, At
    <3>3. CASE sitting = 0
      <4>1. invitation = 1
        BY <2>2, <2>3, <2>7, <3>1, <3>3 DEF If
      <4>2. PICK c \in Client : pc[c] \in {"waitForInvitation", "wakeBarber"}
        <5>1. waiting # 0 \/ waking # 0
          BY <2>1, <2>2, <2>3, <2>7, <4>1 DEF If
        <5> QED
          BY <5>1, NobodyAt
      <4> QED
        BY <2>7, <4>1, <4>2 DEF WaitsForTheDead, Standstill, ClientBlocked, At
    <3> QED
      BY <3>2, <3>3
  <2> QED
    BY <2>5, <2>6, <2>7 DEF Standstill, BarberBlocked
<1> QED
  BY <1>1, ShopInvHolds, PTL
===============================================================================
