------------------------------- MODULE SemBuffer -------------------------------
(***************************************************************************)
(* lab7/zad2/main.c: producer threads read the words of a text file into a *)
(* ring of LENGTH slots and consumer threads take them out, synchronised   *)
(* by the POSIX named semaphores /place (free slots), /full (filled slots) *)
(* and /mutex (the ring itself).  The program may be run again after it    *)
(* ended: the kernel keeps named semaphores, so what a run leaves behind   *)
(* is part of the state.                                                   *)
(*                                                                         *)
(* One step of a thread is one access to shared state: one semaphore call, *)
(* one fscanf, one test of "end", one statement on buffer, in or out.      *)
(* Not modelled: what is printed, and ID, which only the printing uses.    *)
(***************************************************************************)
EXTENDS Integers, Sequences, FiniteSets

CONSTANTS
  Producer,  \* the threads that run producer()
  Consumer,  \* the threads that run consumer()
  Main,      \* the thread that runs main()
  Word,      \* words of the text
  Text,      \* the content of FILE_NAME, a sequence of words
  Length,    \* LENGTH, the number of slots
  NULL       \* an empty slot; no thread

Thread == Producer \cup Consumer

ASSUME SemBufferAssumption ==
  /\ IsFiniteSet(Producer) /\ IsFiniteSet(Consumer)
  /\ Producer \cap Consumer = {}
  /\ Main \notin Thread /\ NULL \notin Thread \cup Word \cup {Main}
  /\ Length \in Nat \ {0}
  /\ Text \in Seq(Word)

VARIABLES
  main,      \* control of main(); "gone" once the process has ended
  handler,   \* the thread stopped inside signalHandler, or NULL
  end,       \* the flag "end"
  named,     \* do the semaphores exist in the kernel?
  place, full, mutex,   \* their values
  buffer, in, out,      \* the ring
  unread,    \* what is left of the file
  pc,        \* control of each thread
  produced,  \* the local "produced" of each producer
  sent, received   \* history: words written to, and copied from, the ring

sems == <<named, place, full, mutex>>
ring == <<buffer, in, out, sent, received>>
proc == <<main, handler, end>>
vars == <<proc, sems, ring, unread, pc, produced>>

Slot == 0 .. Length - 1
-------------------------------------------------------------------------------
(* A process that has just been started: its globals have their initial      *)
(* values, no thread exists.                                                 *)
EmptyRing == [s \in Slot |-> NULL]
NoThreads == [t \in Thread |-> "none"]
NothingRead == [p \in Producer |-> NULL]

Init ==
  /\ main = "clean" /\ handler = NULL /\ end = FALSE
  /\ named = FALSE /\ place = 0 /\ full = 0 /\ mutex = 0
  /\ buffer = EmptyRing /\ in = 0 /\ out = 0
  /\ unread = Text /\ pc = NoThreads /\ produced = NothingRead
  /\ sent = <<>> /\ received = <<>>

\* A clean() that forgets sem_unlink: the last run's semaphores are opened.
Clean_NoUnlink ==
  /\ main = "clean"
  /\ main' \in {"open", "gone"}
  /\ UNCHANGED <<handler, end, sems, ring, unread, pc, produced>>

(* clean() and fopen().  SIGINT still has its default action, so the process *)
(* may also die before the names are removed.                                *)
Clean ==
  /\ main = "clean"
  /\ \/ named' = FALSE /\ main' \in {"open", "gone"}
     \/ named' = named /\ main' = "gone"
  /\ UNCHANGED <<handler, end, place, full, mutex, ring, unread, pc, produced>>

\* One place too many.
OpenSemaphores_PlaceOffByOne ==
  /\ main = "open" /\ handler # Main
  /\ main' = "create"
  /\ named' = TRUE /\ place' = Length + 1 /\ full' = 0 /\ mutex' = 1
  /\ UNCHANGED <<handler, end, ring, unread, pc, produced>>

\* sem_open with O_CREAT: the initial value counts only for a new semaphore.
OpenSemaphores ==
  /\ main = "open" /\ handler # Main
  /\ main' = "create"
  /\ named' = TRUE
  /\ place' = IF named THEN place ELSE Length
  /\ full'  = IF named THEN full ELSE 0
  /\ mutex' = IF named THEN mutex ELSE 1
  /\ UNCHANGED <<handler, end, ring, unread, pc, produced>>

(* The two creation loops, consumers after all producers; main() then stays  *)
(* in its pthread_joins.                                                     *)
CreateThread(t) ==
  /\ main = "create" /\ handler # Main
  /\ pc[t] = "none"
  /\ t \in Consumer => \A p \in Producer : pc[p] # "none"
  /\ pc' = [pc EXCEPT ![t] = IF t \in Producer THEN "read" ELSE "loop"]
  /\ UNCHANGED <<proc, sems, ring, unread, produced>>

-------------------------------------------------------------------------------
(* Threads.  A thread inside signalHandler does not return to its code.      *)
Goto(t, from, to) ==
  /\ main # "gone" /\ handler # t
  /\ pc[t] = from
  /\ pc' = [pc EXCEPT ![t] = to]

SemWait(sem, value) == sem > 0 /\ value = sem - 1
SemPost(sem, value) == value = sem + 1

\* fscanf: the next word, or exit(1) at the end of the file.
Read(p) ==
  /\ \/ /\ unread # <<>>
        /\ Goto(p, "read", "check")
        /\ unread' = Tail(unread)
        /\ produced' = [produced EXCEPT ![p] = Head(unread)]
     \/ /\ unread = <<>>
        /\ Goto(p, "read", "exit")
        /\ UNCHANGED <<unread, produced>>
  /\ UNCHANGED <<proc, sems, ring>>

CheckEnd(p) ==
  /\ Goto(p, "check", IF end THEN "returned" ELSE "waitPlace")
  /\ UNCHANGED <<proc, sems, ring, unread, produced>>

\* A producer that does not wait for a free slot.
WaitPlace_Skip(p) ==
  /\ Goto(p, "waitPlace", "waitMutex")
  /\ UNCHANGED <<proc, sems, ring, unread, produced>>

WaitPlace(p) ==
  /\ Goto(p, "waitPlace", "waitMutex")
  /\ SemWait(place, place')
  /\ UNCHANGED <<proc, named, full, mutex, ring, unread, produced>>

PutWord(p) ==
  /\ Goto(p, "put", "advance")
  /\ buffer' = [buffer EXCEPT ![in] = produced[p]]
  /\ sent' = Append(sent, produced[p])
  /\ UNCHANGED <<proc, sems, in, out, received, unread, produced>>

\* The index runs off the end of the ring.
AdvanceIn_NoWrap(p) ==
  /\ Goto(p, "advance", "postFull")
  /\ in' = in + 1
  /\ UNCHANGED <<proc, sems, buffer, out, sent, received, unread, produced>>

AdvanceIn(p) ==
  /\ Goto(p, "advance", "postFull")
  /\ in' = (in + 1) % Length
  /\ UNCHANGED <<proc, sems, buffer, out, sent, received, unread, produced>>

PostFull(p) ==
  /\ Goto(p, "postFull", "postMutex")
  /\ SemPost(full, full')
  /\ UNCHANGED <<proc, named, place, mutex, ring, unread, produced>>

\* exit(1), called by a producer at the end of the file, ends the process.
Exit(p) ==
  /\ Goto(p, "exit", "exit")
  /\ main' = "gone"
  /\ UNCHANGED <<handler, end, sems, ring, unread, produced>>
-------------------------------------------------------------------------------
CheckLoop(c) ==
  /\ Goto(c, "loop", IF end THEN "returned" ELSE "waitFull")
  /\ UNCHANGED <<proc, sems, ring, unread, produced>>

WaitFull(c) ==
  /\ Goto(c, "waitFull", "waitMutex")
  /\ SemWait(full, full')
  /\ UNCHANGED <<proc, named, place, mutex, ring, unread, produced>>

\* strcpy from the slot; from an empty slot it is a fatal null dereference.
TakeWord(c) ==
  /\ Goto(c, "take", "clear")
  /\ IF buffer[out] = NULL
       THEN main' = "gone" /\ UNCHANGED received
       ELSE received' = Append(received, buffer[out]) /\ UNCHANGED main
  /\ UNCHANGED <<handler, end, sems, buffer, in, out, sent, unread, produced>>

ClearSlot(c) ==
  /\ Goto(c, "clear", "advance")
  /\ buffer' = [buffer EXCEPT ![out] = NULL]
  /\ UNCHANGED <<proc, sems, in, out, sent, received, unread, produced>>

AdvanceOut(c) ==
  /\ Goto(c, "advance", "postMutex")
  /\ out' = (out + 1) % Length
  /\ UNCHANGED <<proc, sems, buffer, in, sent, received, unread, produced>>

\* The freed slot is never announced.
PostPlace_Missing(c) ==
  /\ Goto(c, "postPlace", "loop")
  /\ UNCHANGED <<proc, sems, ring, unread, produced>>

PostPlace(c) ==
  /\ Goto(c, "postPlace", "loop")
  /\ SemPost(place, place')
  /\ UNCHANGED <<proc, named, full, mutex, ring, unread, produced>>

(* sem_wait(mutex) and sem_post(mutex), for both kinds of thread.            *)
\* The ring is entered without the mutex.
WaitMutex_Skip(t) ==
  /\ Goto(t, "waitMutex", IF t \in Producer THEN "put" ELSE "take")
  /\ UNCHANGED <<proc, sems, ring, unread, produced>>

WaitMutex(t) ==
  /\ Goto(t, "waitMutex", IF t \in Producer THEN "put" ELSE "take")
  /\ SemWait(mutex, mutex')
  /\ UNCHANGED <<proc, named, place, full, ring, unread, produced>>

PostMutex(t) ==
  /\ Goto(t, "postMutex", IF t \in Producer THEN "read" ELSE "postPlace")
  /\ SemPost(mutex, mutex')
  /\ UNCHANGED <<proc, named, place, full, ring, unread, produced>>
-------------------------------------------------------------------------------
(* SIGINT: any thread that can run may execute signalHandler, which sets end *)
(* and then kills the process; the others run on in between.                 *)
Interrupt(t) ==
  /\ main \in {"open", "create"} /\ handler = NULL
  /\ t \in Thread => pc[t] \notin {"none", "returned"}
  /\ handler' = t /\ end' = TRUE
  /\ UNCHANGED <<main, sems, ring, unread, pc, produced>>

\* A handler that only sets "end" and returns.
Kill_OnlyFlag ==
  /\ main # "gone" /\ handler # NULL
  /\ handler' = NULL
  /\ UNCHANGED <<main, end, sems, ring, unread, pc, produced>>

Kill ==
  /\ main # "gone" /\ handler # NULL
  /\ main' = "gone"
  /\ UNCHANGED <<handler, end, sems, ring, unread, pc, produced>>

\* The user runs the program again; the kernel still has the semaphores.
Rerun ==
  /\ main = "gone"
  /\ main' = "clean" /\ handler' = NULL /\ end' = FALSE
  /\ buffer' = EmptyRing /\ in' = 0 /\ out' = 0
  /\ unread' = Text /\ pc' = NoThreads /\ produced' = NothingRead
  /\ sent' = <<>> /\ received' = <<>>
  /\ UNCHANGED sems
-------------------------------------------------------------------------------
ProducerStep(p) ==
  \/ Read(p) \/ CheckEnd(p) \/ WaitPlace(p) \/ WaitMutex(p) \/ PutWord(p)
  \/ AdvanceIn(p) \/ PostFull(p) \/ PostMutex(p) \/ Exit(p)

ConsumerStep(c) ==
  \/ CheckLoop(c) \/ WaitFull(c) \/ WaitMutex(c) \/ TakeWord(c)
  \/ ClearSlot(c) \/ AdvanceOut(c) \/ PostMutex(c) \/ PostPlace(c)

MainStep ==
  \/ Clean \/ OpenSemaphores
  \/ \E t \in Thread : CreateThread(t)

Next ==
  \/ MainStep
  \/ \E p \in Producer : ProducerStep(p)
  \/ \E c \in Consumer : ConsumerStep(c)
  \/ \E t \in Thread \cup {Main} : Interrupt(t)
  \/ Kill
  \/ Rerun

Spec == Init /\ [][Next]_vars

(* Every thread that can take a step eventually does: the kernel scheduler.  *)
(* Nobody has to press Ctrl-C or to run the program again.                   *)
Fairness ==
  /\ WF_vars(MainStep) /\ WF_vars(Kill)
  /\ \A p \in Producer : WF_vars(ProducerStep(p))
  /\ \A c \in Consumer : WF_vars(ConsumerStep(c))

FairSpec == Spec /\ Fairness
-------------------------------------------------------------------------------
(* Type correctness: in particular "in" and "out" always index a slot and no *)
(* semaphore goes below zero (lab7/zad2/main.c:48, :84).                     *)
ProducerPC == {"none", "read", "check", "waitPlace", "waitMutex", "put",
               "advance", "postFull", "postMutex", "exit", "returned"}
ConsumerPC == {"none", "loop", "waitFull", "waitMutex", "take", "clear",
               "advance", "postMutex", "postPlace", "returned"}

TypeOK ==
  /\ main \in {"clean", "open", "create", "gone"}
  /\ handler \in Thread \cup {Main, NULL}
  /\ end \in BOOLEAN /\ named \in BOOLEAN
  /\ place \in Nat /\ full \in Nat /\ mutex \in Nat
  /\ buffer \in [Slot -> Word \cup {NULL}] /\ in \in Slot /\ out \in Slot
  /\ unread \in Seq(Word) /\ sent \in Seq(Word) /\ received \in Seq(Word)
  /\ pc \in [Thread -> ProducerPC \cup ConsumerPC]
  /\ \A p \in Producer : pc[p] \in ProducerPC
  /\ \A c \in Consumer : pc[c] \in ConsumerPC
  /\ produced \in [Producer -> Word \cup {NULL}]

(* The statements on buffer, in and out run one thread at a time, although   *)
(* /full is posted before /mutex (:50-51) and semaphores outlive the process *)
(* that left them.                                                           *)
InRing(t) == pc[t] \in {"put", "advance", "postFull", "take", "clear", "postMutex"}

MutualExclusion == \A t, u \in Thread : InRing(t) /\ InRing(u) => t = u

(* Every slot is accounted for exactly once while the threads run: free      *)
(* (/place), filled (/full), or in the hands of the one thread that waited   *)
(* for it.  Holds in every run because clean() removes what the last one     *)
(* left behind.                                                              *)
HoldsPlace == {p \in Producer : pc[p] \in {"waitMutex", "put", "advance", "postFull"}}
HoldsFull  == {c \in Consumer : pc[c] \in {"waitMutex", "take", "clear", "advance",
                                          "postMutex", "postPlace"}}

SemAccounting ==
  main = "create" =>
    place + full + Cardinality(HoldsPlace) + Cardinality(HoldsFull) = Length

(* A producer never overwrites a word nobody has taken, and a consumer never *)
(* copies from an empty slot (which would dereference NULL at :65).          *)
SlotDiscipline ==
  /\ \A p \in Producer : pc[p] = "put" => buffer[in] = NULL
  /\ \A c \in Consumer : pc[c] = "take" => buffer[out] # NULL

(* exit(1) at the end of the file does not wait for the consumers, so words  *)
(* are lost; but never more than fill the ring and the other producers'      *)
(* hands.                                                                    *)
LossBound ==
  (\E p \in Producer : pc[p] = "exit") =>
    Len(Text) - Len(received) <= Length + Cardinality(Producer) - 1

(* main() never gets past its pthread_joins: a run ends in exit(1) or in     *)
(* SIGKILL, and when all threads did return it is because main() itself sits *)
(* in signalHandler.  The sem_unlink calls after the joins (:135-137) are    *)
(* never made, which is why they are no action here, and clean() is what     *)
(* keeps runs apart.                                                         *)
NeverJoinsAll == (\A t \in Thread : pc[t] = "returned") => handler = Main

(* The ring, its indices and the three semaphores implement a bounded FIFO   *)
(* channel: words leave in the order they were put in, none is lost,         *)
(* invented or duplicated while the process lives, and never more than       *)
(* Length are underway.                                                      *)
Channel == INSTANCE BoundedChannel WITH Capacity <- Length
ImplementsChannel == Channel!Spec

(* Nobody waits forever: every run of the program comes to its end even      *)
(* without Ctrl-C.                                                           *)
Terminates == main = "clean" ~> main = "gone"
===============================================================================
