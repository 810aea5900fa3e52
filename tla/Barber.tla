-------------------------------- MODULE Barber --------------------------------
(***************************************************************************)
(* lab6/zad2: a barber process and client processes that share a POSIX     *)
(* message queue, the counting semaphores barber, invitation, seat and     *)
(* cut, and the integers isSleeping, numberOfSeats and takenSeats in       *)
(* shared memory, which nothing protects.                                  *)
(*                                                                         *)
(* One step of a process is one call on the queue or a semaphore, or one   *)
(* load or store of a shared integer; ++ and -- are a load and a store.    *)
(* The model starts when the barber has created all objects and the        *)
(* clients have opened them.  Not modelled: what is printed, clientSeatId, *)
(* which only the printing uses, and the calls to sleep().                 *)
(***************************************************************************)
EXTENDS Integers, Sequences, FiniteSets

CONSTANTS
  Client,        \* the client processes
  Seats,         \* the barber's argument, *numberOfSeats
  NumberOfCuts,  \* what the clients' arguments may be: functions from clients to numberOfCuts
  MaxMessages,   \* mq_maxmsg of the queue (10 by default)
  MaxInterrupts, \* bound: how many clients Ctrl-C ends
  NULL           \* no client

ASSUME BarberAssumption ==
  /\ IsFiniteSet(Client) /\ NULL \notin Client
  /\ Seats \in Nat /\ NumberOfCuts \subseteq [Client -> Nat] /\ MaxMessages \in Nat \ {0}
  /\ MaxInterrupts \in Nat

BARBER_SLEEP == 1
BARBER_NOT_SLEEP == -1

VARIABLES
  isSleeping, takenSeats,          \* shared memory
  queue,                           \* the messages, each the clientPid it carries
  barber, invitation, seat, cut,   \* the semaphores
  barberPc,          \* control of the barber
  receivedMessage,   \* the client of the message the barber took last, or NULL
  missed,            \* history: why he may sleep on although a client waits
  pc,                \* control of each client
  register,          \* what a client loaded from takenSeats and has yet to store back
  cutsLeft,          \* iterations left of a client's loop
  dead               \* the clients that were killed; pc says where

shm == <<isSleeping, takenSeats>>
sems == <<barber, invitation, seat, cut>>
barberVars == <<barberPc, receivedMessage, missed>>
clientVars == <<pc, register, cutsLeft, dead>>
vars == <<shm, queue, sems, barberVars, clientVars>>
-------------------------------------------------------------------------------
(* The barber's init functions.                                              *)
Init ==
  /\ isSleeping = BARBER_SLEEP /\ takenSeats = 0
  /\ queue = <<>>
  /\ barber = 0 /\ invitation = 0 /\ seat = 0 /\ cut = 0
  /\ barberPc = "checkEmpty" /\ receivedMessage = NULL /\ missed = {}
  /\ dead = {}
  /\ cutsLeft \in NumberOfCuts
  /\ pc = [c \in Client |-> IF cutsLeft[c] > 0 THEN "checkSleep" ELSE "done"]
  /\ register = [c \in Client |-> 0]

SemWait(sem, value) == sem > 0 /\ value = sem - 1
SemPost(sem, value) == value = sem + 1

At(label) == {c \in Client : pc[c] = label}

(* The clients who have a seat or wait already, and those of them for whom   *)
(* the semaphore barber was posted or will be.                               *)
Waiting   == Cardinality(At("sendWait") \ dead) + Len(queue)
Announced == barber + Cardinality(At("wakeBarber"))
-------------------------------------------------------------------------------
(* The barber's loop.                                                        *)
BarberGoto(from, to) == barberPc = from /\ barberPc' = to /\ UNCHANGED missed

(* takenSeats may be 0 although a client waits whom nobody announces.        *)
CheckEmpty ==
  /\ barberPc = "checkEmpty"
  /\ barberPc' = IF takenSeats = 0 THEN "markAsleep" ELSE "receive"
  /\ missed' = IF takenSeats = 0 /\ Waiting > Announced THEN {"miscounted"} ELSE {}
  /\ UNCHANGED <<shm, queue, sems, receivedMessage, clientVars>>

MarkAsleep ==
  /\ BarberGoto("markAsleep", "sleep")
  /\ isSleeping' = BARBER_SLEEP
  /\ UNCHANGED <<takenSeats, queue, sems, receivedMessage, clientVars>>

SleepBarber ==
  /\ barberPc = "sleep" /\ barberPc' = "markAwake" /\ missed' = {}
  /\ SemWait(barber, barber')
  /\ UNCHANGED <<shm, queue, invitation, seat, cut, receivedMessage, clientVars>>

MarkAwake ==
  /\ BarberGoto("markAwake", "receive")
  /\ isSleeping' = BARBER_NOT_SLEEP
  /\ UNCHANGED <<takenSeats, queue, sems, receivedMessage, clientVars>>

Receive ==
  /\ BarberGoto("receive", "invite")
  /\ queue # <<>>
  /\ queue' = Tail(queue) /\ receivedMessage' = Head(queue)
  /\ UNCHANGED <<shm, sems, clientVars>>

\* A barber that takes the message for the invitation.
SendInvitation_Missing ==
  /\ BarberGoto("invite", "waitForSit")
  /\ UNCHANGED <<shm, queue, sems, receivedMessage, clientVars>>

SendInvitation ==
  /\ BarberGoto("invite", "waitForSit")
  /\ SemPost(invitation, invitation')
  /\ UNCHANGED <<shm, queue, barber, seat, cut, receivedMessage, clientVars>>

\* A barber that does not wait until the client sits.
WaitForSit_Skip ==
  /\ BarberGoto("waitForSit", "sendEnd")
  /\ UNCHANGED <<shm, queue, sems, receivedMessage, clientVars>>

WaitForSit ==
  /\ BarberGoto("waitForSit", "sendEnd")
  /\ SemWait(seat, seat')
  /\ UNCHANGED <<shm, queue, barber, invitation, cut, receivedMessage, clientVars>>

\* The cut is never announced as ended.
SendEnd_Missing ==
  /\ BarberGoto("sendEnd", "checkEmpty")
  /\ UNCHANGED <<shm, queue, sems, receivedMessage, clientVars>>

SendEnd ==
  /\ BarberGoto("sendEnd", "checkEmpty")
  /\ SemPost(cut, cut')
  /\ UNCHANGED <<shm, queue, barber, invitation, seat, receivedMessage, clientVars>>

(* SIGINT: stopBarber replaces the process by ./clean, which removes the     *)
(* names of the objects; the clients go on with the ones they have open.     *)
(* Without ./clean it kills the client of the last message; before the first *)
(* message that pid is 0, and whoever is in the barber's process group dies. *)
StopBarber ==
  /\ barberPc # "gone" /\ barberPc' = "gone"
  /\ \E killed \in {{}, {receivedMessage}} \cup (IF receivedMessage = NULL THEN SUBSET Client ELSE {}) :
       dead' = dead \cup {c \in killed \cap Client : pc[c] # "done"}
  /\ receivedMessage' = NULL /\ missed' = {}
  /\ UNCHANGED <<shm, queue, sems, pc, register, cutsLeft>>
-------------------------------------------------------------------------------
(* A client's loop.                                                          *)
Goto(c, from, to) ==
  c \notin dead /\ pc[c] = from /\ pc' = [pc EXCEPT ![c] = to] /\ UNCHANGED dead

CheckSleep(c) ==
  /\ Goto(c, "checkSleep", IF isSleeping = BARBER_SLEEP THEN "checkNobody" ELSE "checkSeats")
  /\ UNCHANGED <<shm, queue, sems, barberVars, register, cutsLeft>>

CheckNobody(c) ==
  /\ Goto(c, "checkNobody", IF takenSeats = 0 THEN "sendWake" ELSE "checkSeats")
  /\ UNCHANGED <<shm, queue, sems, barberVars, register, cutsLeft>>

\* Take a seat, or sleep(5) and try again when there is none.
CheckSeats(c) ==
  /\ Goto(c, "checkSeats", IF takenSeats < Seats THEN "loadTaken" ELSE "checkSleep")
  /\ UNCHANGED <<shm, queue, sems, barberVars, register, cutsLeft>>

Load(c, from, to) ==
  /\ Goto(c, from, to)
  /\ register' = [register EXCEPT ![c] = takenSeats]
  /\ UNCHANGED <<shm, queue, sems, barberVars, cutsLeft>>

LoadTaken(c) == Load(c, "loadTaken", "storeTaken")
LoadLeft(c)  == Load(c, "loadLeft", "storeLeft")

Store(c, from, to, value) ==
  /\ Goto(c, from, to)
  /\ takenSeats' = value
  /\ register' = [register EXCEPT ![c] = 0]
  /\ UNCHANGED <<isSleeping, queue, sems, barberPc, receivedMessage, cutsLeft>>

\* A barber on his way to sleep does not see that a seat is taken.
StoreTaken(c) ==
  /\ Store(c, "storeTaken", "sendWait", register[c] + 1)
  /\ missed' = missed \cup IF barberPc \in {"markAsleep", "sleep"} THEN {"late"} ELSE {}

StoreLeft(c)  ==
  Store(c, "storeLeft", "checkNegative", register[c] - 1) /\ UNCHANGED missed

\* mq_send blocks while the queue is full.
SendMessage(c) ==
  /\ \/ Goto(c, "sendWake", "wakeBarber")
     \/ Goto(c, "sendWait", "waitForInvitation")
  /\ Len(queue) < MaxMessages
  /\ queue' = Append(queue, c)
  /\ UNCHANGED <<shm, sems, barberVars, register, cutsLeft>>

\* A client that found the barber asleep and leaves him asleep.
WakeBarber_NoPost(c) ==
  /\ Goto(c, "wakeBarber", "waitForInvitation")
  /\ UNCHANGED <<shm, queue, sems, barberVars, register, cutsLeft>>

WakeBarber(c) ==
  /\ Goto(c, "wakeBarber", "waitForInvitation")
  /\ SemPost(barber, barber')
  /\ UNCHANGED <<shm, queue, invitation, seat, cut, barberVars, register, cutsLeft>>

WaitForInvitation(c) ==
  /\ Goto(c, "waitForInvitation", "sittingOnChair")
  /\ SemWait(invitation, invitation')
  /\ UNCHANGED <<shm, queue, barber, seat, cut, barberVars, register, cutsLeft>>

SittingOnChair(c) ==
  /\ Goto(c, "sittingOnChair", "waitForEndCutting")
  /\ SemPost(seat, seat')
  /\ UNCHANGED <<shm, queue, barber, invitation, cut, barberVars, register, cutsLeft>>

WaitForEndCutting(c) ==
  /\ Goto(c, "waitForEndCutting", "loadLeft")
  /\ SemWait(cut, cut')
  /\ UNCHANGED <<shm, queue, barber, invitation, seat, barberVars, register, cutsLeft>>

\* The end of an iteration, after the test of takenSeats < 0 or its correction.
Leave(c, from) ==
  /\ Goto(c, from, IF cutsLeft[c] > 1 THEN "checkSleep" ELSE "done")
  /\ cutsLeft' = [cutsLeft EXCEPT ![c] = @ - 1]
  /\ UNCHANGED <<isSleeping, queue, sems, barberVars, register>>

CheckNegative(c) ==
  \/ /\ takenSeats < 0
     /\ Goto(c, "checkNegative", "storeZero")
     /\ UNCHANGED <<shm, queue, sems, barberVars, register, cutsLeft>>
  \/ takenSeats >= 0 /\ Leave(c, "checkNegative") /\ UNCHANGED takenSeats

StoreZero(c) == Leave(c, "storeZero") /\ takenSeats' = 0

\* Ctrl-C at a client's terminal; what it took, posted and sent stays.
InterruptClient(c) ==
  /\ c \notin dead /\ pc[c] # "done" /\ Cardinality(dead) < MaxInterrupts
  /\ dead' = dead \cup {c}
  /\ UNCHANGED <<shm, queue, sems, barberVars, pc, register, cutsLeft>>
-------------------------------------------------------------------------------
BarberStep ==
  \/ CheckEmpty \/ MarkAsleep \/ SleepBarber \/ MarkAwake
  \/ Receive \/ SendInvitation \/ WaitForSit \/ SendEnd

ClientStep(c) ==
  \/ CheckSleep(c) \/ CheckNobody(c) \/ CheckSeats(c) \/ LoadTaken(c) \/ StoreTaken(c)
  \/ SendMessage(c) \/ WakeBarber(c) \/ WaitForInvitation(c) \/ SittingOnChair(c)
  \/ WaitForEndCutting(c) \/ LoadLeft(c) \/ StoreLeft(c) \/ CheckNegative(c) \/ StoreZero(c)

Next == BarberStep \/ StopBarber \/ \E c \in Client : ClientStep(c) \/ InterruptClient(c)

Spec == Init /\ [][Next]_vars

\* The kernel runs every process that can take a step; nobody has to press Ctrl-C.
Fairness == WF_vars(BarberStep) /\ \A c \in Client : WF_vars(ClientStep(c))

FairSpec == Spec /\ Fairness
-------------------------------------------------------------------------------
BarberPC == {"checkEmpty", "markAsleep", "sleep", "markAwake", "receive", "invite",
             "waitForSit", "sendEnd", "gone"}
ClientPC == {"checkSleep", "checkNobody", "checkSeats", "loadTaken", "storeTaken",
             "sendWait", "sendWake", "wakeBarber", "waitForInvitation",
             "sittingOnChair", "waitForEndCutting", "loadLeft", "storeLeft",
             "checkNegative", "storeZero", "done"}

(* Type correctness: no semaphore goes below zero, no message is of nobody,  *)
(* and the queue never holds more than it may.                               *)
TypeOK ==
  /\ isSleeping \in {BARBER_SLEEP, BARBER_NOT_SLEEP} /\ takenSeats \in Int
  /\ queue \in Seq(Client) /\ Len(queue) <= MaxMessages
  /\ barber \in Nat /\ invitation \in Nat /\ seat \in Nat /\ cut \in Nat
  /\ barberPc \in BarberPC /\ receivedMessage \in Client \cup {NULL}
  /\ pc \in [Client -> ClientPC]
  /\ register \in [Client -> Int]
  /\ cutsLeft \in [Client -> Nat]
  /\ missed \subseteq {"miscounted", "late"} /\ dead \subseteq Client

If(condition) == IF condition THEN 1 ELSE 0

(* Everyone who waits for an invitation will be invited and nobody is        *)
(* invited who does not wait: each such client has exactly one message in    *)
(* the queue, in the barber's hand (:85-92), or turned into an invitation.   *)
(* Any client may take any invitation, so only the numbers agree.            *)
InvitationsMatch ==
  barberPc # "gone" =>
    Cardinality(At("waitForInvitation")) + Cardinality(At("wakeBarber")) =
      Len(queue) + If(barberPc = "invite") + invitation

(* The chair: the barber waits for exactly one client, who was invited, is   *)
(* about to sit, or sits; at any other time nobody is on the way to the      *)
(* chair (barber.c:92-93, client.c:103-104).                                 *)
OneAtATime ==
  barberPc # "gone" =>
    invitation + Cardinality(At("sittingOnChair")) + seat = If(barberPc = "waitForSit")

(* Every client whose cut is over, and nobody else, is let go: a post of cut *)
(* is never lost and never given twice (barber.c:98, client.c:105).          *)
CutsMatch ==
  barberPc # "gone" =>
    Cardinality(At("waitForEndCutting")) = seat + If(barberPc = "sendEnd") + cut

(* The hand-over between barber and clients: messages, invitations, the seat *)
(* and the cuts are matched one by one, though the four semaphores are posted *)
(* and taken in any order by clients that overtake each other.               *)
ChairInv == TypeOK /\ InvitationsMatch /\ OneAtATime /\ CutsMatch

(* Nobody can move, although somebody who lives has not had all his cuts.    *)
BarberBlocked ==
  \/ barberPc = "sleep" /\ barber = 0
  \/ barberPc = "receive" /\ queue = <<>>
  \/ barberPc = "waitForSit" /\ seat = 0

ClientBlocked(c) ==
  \/ c \in dead \/ pc[c] = "done"
  \/ pc[c] \in {"sendWait", "sendWake"} /\ Len(queue) = MaxMessages
  \/ pc[c] = "waitForInvitation" /\ invitation = 0
  \/ pc[c] = "waitForEndCutting" /\ cut = 0

Standstill ==
  /\ BarberBlocked
  /\ \A c \in Client : ClientBlocked(c)
  /\ \E c \in Client \ dead : pc[c] # "done"

(* What can bring the shop to a standstill, and nothing else: the barber     *)
(* sleeps with a message in the queue, because                               *)
(*   - when he tested takenSeats (:75) it was 0 although more clients waited *)
(*     than the semaphore barber announced ("miscounted": client.c:111 takes *)
(*     away what a client that woke him never added, updates are lost, and   *)
(*     one client takes the invitation of another);                          *)
(*   - or a client took a seat after that test, when he had not yet stored   *)
(*     isSleeping (:76), or though he had, because takenSeats was no longer  *)
(*     0 ("late"): such a client wakes nobody;                               *)
(*   - or the client that was to wake him was killed (client.c:71-76);       *)
(* or the barber waits at the chair (:93) for a client that was killed after *)
(* its message was sent.  Otherwise the semaphores of the chair and the      *)
(* bounded queue never block everybody.                                      *)
SleepsOn ==
  /\ barberPc = "sleep" /\ queue # <<>>
  /\ missed # {} \/ At("wakeBarber") \cap dead # {}

WaitsForTheDead ==
  /\ barberPc = "waitForSit"
  /\ (At("wakeBarber") \cup At("waitForInvitation") \cup At("sittingOnChair")) \cap dead # {}

StandstillHasCause == Standstill => SleepsOn \/ WaitsForTheDead

(* Whoever was invited gets his cut and leaves, while he lives and the       *)
(* barber works, even though another client may take the end of his cut for  *)
(* the end of its own, and others may be killed at any moment.               *)
ServedOnceInvited ==
  \A c \in Client :
    pc[c] = "sittingOnChair" ~>
      pc[c] \in {"checkSleep", "done"} \/ c \in dead \/ barberPc = "gone"
===============================================================================
