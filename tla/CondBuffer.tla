------------------------------ MODULE CondBuffer ------------------------------
(***************************************************************************)
(* lab7/zad1/main.c: the word buffer of lab7 again, synchronised by three  *)
(* mutexes and two condition variables.  A producer waits on fullCond,     *)
(* under fullMutex, while used = LENGTH; a consumer waits on emptyCond,    *)
(* under emptyMutex, while used = 0; but both give that mutex back before  *)
(* they take bufferMutex, under which buffer, in, out and used change.     *)
(*                                                                         *)
(* One step of a thread is one call on a mutex or condition variable, one  *)
(* fscanf, one test of "end" or "used", one statement on buffer, in, out   *)
(* or used.  Not modelled: what is printed, ID, and the leaked mallocs.    *)
(***************************************************************************)
EXTENDS Integers, Sequences, FiniteSets

CONSTANTS
  Producer,  \* the threads that run producer()
  Consumer,  \* the threads that run consumer()
  Word,      \* words of the text
  Text,      \* the content of FILE_NAME, a sequence of words
  Length,    \* LENGTH, the number of slots
  NULL       \* an empty slot; no thread

Thread == Producer \cup Consumer

ASSUME CondBufferAssumption ==
  /\ IsFiniteSet(Producer) /\ IsFiniteSet(Consumer)
  /\ Producer \cap Consumer = {}
  /\ NULL \notin Thread \cup Word
  /\ Length \in Nat \ {0}
  /\ Text \in Seq(Word)

VARIABLES
  proc,      \* "running" until exit(1), SIGKILL or a null dereference
  handler,   \* is SIGINT being handled?
  end,       \* the flag "end"
  mutex,     \* who holds fullMutex, emptyMutex and bufferMutex
  buffer, in, out, used,   \* the ring
  unread,    \* what is left of the file
  pc,        \* control of each thread
  produced,  \* the local "produced" of each producer
  sent, received   \* history: words written to, and copied from, the ring

ring == <<buffer, in, out, used, sent, received>>
signal == <<handler, end>>
vars == <<proc, signal, mutex, ring, unread, pc, produced>>

Slot == 0 .. Length - 1
Mutex == {"full", "empty", "buffer"}

\* The condition a thread waits for, and the one it announces.
Guard(t)     == IF t \in Producer THEN "full" ELSE "empty"
Announced(t) == IF t \in Producer THEN "empty" ELSE "full"
-------------------------------------------------------------------------------
Init ==
  /\ proc = "running" /\ handler = FALSE /\ end = FALSE
  /\ mutex = [m \in Mutex |-> NULL]
  /\ buffer = [s \in Slot |-> NULL] /\ in = 0 /\ out = 0 /\ used = 0
  /\ unread = Text
  /\ pc = [t \in Thread |-> "none"]
  /\ produced = [p \in Producer |-> NULL]
  /\ sent = <<>> /\ received = <<>>

\* The creation loops of main(), consumers after producers.
CreateThread(t) ==
  /\ proc = "running" /\ pc[t] = "none"
  /\ t \in Consumer => \A p \in Producer : pc[p] # "none"
  /\ pc' = [pc EXCEPT ![t] = IF t \in Producer THEN "read" ELSE "loop"]
  /\ UNCHANGED <<proc, signal, mutex, ring, unread, produced>>

Goto(t, from, to) ==
  /\ proc = "running" /\ pc[t] = from
  /\ pc' = [pc EXCEPT ![t] = to]

Lock(t, m)   == mutex[m] = NULL /\ mutex' = [mutex EXCEPT ![m] = t]
Unlock(t, m) == mutex[m] = t    /\ mutex' = [mutex EXCEPT ![m] = NULL]
-------------------------------------------------------------------------------
\* fscanf: the next word, or exit(1) at the end of the file.
Read(p) ==
  \/ /\ unread # <<>>
     /\ Goto(p, "read", "check")
     /\ unread' = Tail(unread)
     /\ produced' = [produced EXCEPT ![p] = Head(unread)]
     /\ UNCHANGED <<proc, signal, mutex, ring>>
  \/ /\ unread = <<>>
     /\ Goto(p, "read", "exit")
     /\ UNCHANGED <<proc, signal, mutex, ring, unread, produced>>

Exit(p) ==
  /\ Goto(p, "exit", "exit")
  /\ proc' = "exited"
  /\ UNCHANGED <<signal, mutex, ring, unread, produced>>

\* The test of "end": in the loop body of a producer, in the head of a consumer's.
CheckEnd(t) ==
  /\ Goto(t, IF t \in Producer THEN "check" ELSE "loop",
             IF end THEN "returned" ELSE "lockGuard")
  /\ UNCHANGED <<proc, signal, mutex, ring, unread, produced>>

(* FULL CONDITION of a producer, EMPTY CONDITION of a consumer.              *)
LockGuard(t) ==
  /\ Goto(t, "lockGuard", "test")
  /\ Lock(t, Guard(t))
  /\ UNCHANGED <<proc, signal, ring, unread, produced>>

\* The producer's test is turned into "used > LENGTH".
Blocked_OffByOne(t) == IF t \in Producer THEN used > Length ELSE used = 0

\* The consumer does not test.
Blocked_NoEmptyTest(t) == t \in Producer /\ used = Length

Blocked(t) == IF t \in Producer THEN used = Length ELSE used = 0

Test(t) ==
  /\ Goto(t, "test", IF Blocked(t) THEN "wait" ELSE "unlockGuard")
  /\ UNCHANGED <<proc, signal, mutex, ring, unread, produced>>

\* pthread_cond_wait: release the mutex and sleep, in one step.
Wait(t) ==
  /\ Goto(t, "wait", "asleep")
  /\ Unlock(t, Guard(t))
  /\ UNCHANGED <<proc, signal, ring, unread, produced>>

\* POSIX lets a thread wake up for no reason; it takes the mutex and tests again.
SpuriousWakeup(t) ==
  /\ Goto(t, "asleep", "lockGuard")
  /\ UNCHANGED <<proc, signal, mutex, ring, unread, produced>>

UnlockGuard(t) ==
  /\ Goto(t, "unlockGuard", "lockBuffer")
  /\ Unlock(t, Guard(t))
  /\ UNCHANGED <<proc, signal, ring, unread, produced>>

\* The ring is entered without bufferMutex.
LockBuffer_Skip(t) ==
  /\ Goto(t, "lockBuffer", IF t \in Producer THEN "put" ELSE "take")
  /\ UNCHANGED <<proc, signal, mutex, ring, unread, produced>>

LockBuffer(t) ==
  /\ Goto(t, "lockBuffer", IF t \in Producer THEN "put" ELSE "take")
  /\ Lock(t, "buffer")
  /\ UNCHANGED <<proc, signal, ring, unread, produced>>
-------------------------------------------------------------------------------
PutWord(p) ==
  /\ Goto(p, "put", "advanceIn")
  /\ buffer' = [buffer EXCEPT ![in] = produced[p]]
  /\ sent' = Append(sent, produced[p])
  /\ UNCHANGED <<proc, signal, mutex, in, out, used, received, unread, produced>>

AdvanceIn(p) ==
  /\ Goto(p, "advanceIn", "increment")
  /\ in' = (in + 1) % Length
  /\ UNCHANGED <<proc, signal, mutex, buffer, out, used, sent, received, unread, produced>>

Increment(p) ==
  /\ Goto(p, "increment", "unlockBuffer")
  /\ used' = used + 1
  /\ UNCHANGED <<proc, signal, mutex, buffer, in, out, sent, received, unread, produced>>

\* strcpy from the slot; from an empty slot it is a fatal null dereference.
TakeWord(c) ==
  /\ Goto(c, "take", "clear")
  /\ \/ buffer[out] = NULL /\ proc' = "crashed" /\ UNCHANGED received
     \/ /\ buffer[out] # NULL /\ UNCHANGED proc
        /\ received' = Append(received, buffer[out])
  /\ UNCHANGED <<signal, mutex, buffer, in, out, used, sent, unread, produced>>

\* A slot that is not emptied after it was read.
ClearSlot_Missing(c) ==
  /\ Goto(c, "clear", "advanceOut")
  /\ UNCHANGED <<proc, signal, mutex, ring, unread, produced>>

ClearSlot(c) ==
  /\ Goto(c, "clear", "advanceOut")
  /\ buffer' = [buffer EXCEPT ![out] = NULL]
  /\ UNCHANGED <<proc, signal, mutex, in, out, used, sent, received, unread, produced>>

AdvanceOut(c) ==
  /\ Goto(c, "advanceOut", "decrement")
  /\ out' = (out + 1) % Length
  /\ UNCHANGED <<proc, signal, mutex, buffer, in, used, sent, received, unread, produced>>

Decrement(c) ==
  /\ Goto(c, "decrement", "unlockBuffer")
  /\ used' = used - 1
  /\ UNCHANGED <<proc, signal, mutex, buffer, in, out, sent, received, unread, produced>>

UnlockBuffer(t) ==
  /\ Goto(t, "unlockBuffer", "lockAnnounced")
  /\ Unlock(t, "buffer")
  /\ UNCHANGED <<proc, signal, ring, unread, produced>>

(* EMPTY CONDITION of a producer, FULL CONDITION of a consumer.              *)
\* The broadcast is sent without holding the mutex of the condition.
LockAnnounced_Skip(t) ==
  /\ Goto(t, "lockAnnounced", "broadcast")
  /\ UNCHANGED <<proc, signal, mutex, ring, unread, produced>>

LockAnnounced(t) ==
  /\ Goto(t, "lockAnnounced", "broadcast")
  /\ Lock(t, Announced(t))
  /\ UNCHANGED <<proc, signal, ring, unread, produced>>

Asleep(m) == {t \in Thread : pc[t] = "asleep" /\ Guard(t) = m}

\* Nobody is woken.
Broadcast_Missing(t) ==
  /\ Goto(t, "broadcast", "unlockAnnounced")
  /\ UNCHANGED <<proc, signal, mutex, ring, unread, produced>>

Broadcast(t) ==
  /\ proc = "running" /\ pc[t] = "broadcast"
  /\ pc' = [u \in Thread |-> IF u = t THEN "unlockAnnounced"
                             ELSE IF u \in Asleep(Announced(t)) THEN "lockGuard"
                             ELSE pc[u]]
  /\ UNCHANGED <<proc, signal, mutex, ring, unread, produced>>

UnlockAnnounced(t) ==
  /\ Goto(t, "unlockAnnounced", IF t \in Producer THEN "read" ELSE "loop")
  /\ Unlock(t, Announced(t))
  /\ UNCHANGED <<proc, signal, ring, unread, produced>>
-------------------------------------------------------------------------------
(* SIGINT: signalHandler sets "end" and then kills the process; the threads  *)
(* that do not handle the signal run on in between.                          *)
Interrupt ==
  /\ proc = "running" /\ ~ handler
  /\ handler' = TRUE /\ end' = TRUE
  /\ UNCHANGED <<proc, mutex, ring, unread, pc, produced>>

Kill ==
  /\ proc = "running" /\ handler
  /\ proc' = "killed"
  /\ UNCHANGED <<signal, mutex, ring, unread, pc, produced>>

\* Nothing happens in a process that has ended.
Ended == proc # "running" /\ UNCHANGED vars
-------------------------------------------------------------------------------
Synchronise(t) ==
  \/ CheckEnd(t) \/ LockGuard(t) \/ Test(t) \/ Wait(t) \/ UnlockGuard(t)
  \/ LockBuffer(t) \/ UnlockBuffer(t)
  \/ LockAnnounced(t) \/ Broadcast(t) \/ UnlockAnnounced(t)

ProducerStep(p) ==
  \/ Synchronise(p)
  \/ Read(p) \/ Exit(p) \/ PutWord(p) \/ AdvanceIn(p) \/ Increment(p)

ConsumerStep(c) ==
  \/ Synchronise(c)
  \/ TakeWord(c) \/ ClearSlot(c) \/ AdvanceOut(c) \/ Decrement(c)

Next ==
  \/ \E t \in Thread : CreateThread(t) \/ SpuriousWakeup(t)
  \/ \E p \in Producer : ProducerStep(p)
  \/ \E c \in Consumer : ConsumerStep(c)
  \/ Interrupt \/ Kill \/ Ended

Spec == Init /\ [][Next]_vars

(* The kernel runs every thread that can take a step, and threads do not     *)
(* wake up for no reason for ever.  Nobody has to press Ctrl-C.              *)
Fairness ==
  /\ \A t \in Thread : WF_vars(CreateThread(t))
  /\ \A p \in Producer : WF_vars(ProducerStep(p))
  /\ \A c \in Consumer : WF_vars(ConsumerStep(c))
  /\ WF_vars(Kill)
  /\ <>[][\A t \in Thread : ~ SpuriousWakeup(t)]_vars

FairSpec == Spec /\ Fairness
-------------------------------------------------------------------------------
(* Type correctness: "in" and "out" index a slot although several producers  *)
(* or consumers may be past their test, and "used" never becomes negative    *)
(* (lab7/zad1/main.c:61, :108, :109).                                        *)
PC == {"none", "read", "check", "exit", "loop", "returned", "lockGuard", "test",
       "wait", "asleep", "unlockGuard", "lockBuffer", "put", "advanceIn",
       "increment", "take", "clear", "advanceOut", "decrement", "unlockBuffer",
       "lockAnnounced", "broadcast", "unlockAnnounced"}

TypeOK ==
  /\ proc \in {"running", "exited", "killed", "crashed"}
  /\ handler \in BOOLEAN /\ end \in BOOLEAN
  /\ mutex \in [Mutex -> Thread \cup {NULL}]
  /\ buffer \in [Slot -> Word \cup {NULL}] /\ in \in Slot /\ out \in Slot
  /\ used \in Nat
  /\ unread \in Seq(Word) /\ sent \in Seq(Word) /\ received \in Seq(Word)
  /\ pc \in [Thread -> PC]
  /\ produced \in [Producer -> Word \cup {NULL}]

(* Whenever bufferMutex is free, "used" counts the words put but not taken   *)
(* and the indices stand where that many puts and takes lead: no increment   *)
(* or decrement is lost, whatever the threads did at their tests.            *)
RingAgrees ==
  mutex["buffer"] = NULL =>
    /\ used = Len(sent) - Len(received)
    /\ in = Len(sent) % Length
    /\ out = Len(received) % Length

(* The counter and the indices are consistent at all times, and of the right  *)
(* type: in particular both indices stay inside the ring (:61, :108).        *)
RingInv == TypeOK /\ RingAgrees

(* No wakeup is lost although "used" changes under another mutex than the    *)
(* one the condition is tested under: a producer sleeps with room in the     *)
(* ring, or a consumer with words in it, only while somebody who will wake   *)
(* it is on its way to the broadcast (:66-69, :113-116).                     *)
OnTheWay(m) ==
  \E t \in Thread : /\ Announced(t) = m
                    /\ pc[t] \in {"unlockBuffer", "lockAnnounced", "broadcast"}

NoLostWakeup ==
  /\ Asleep("full") # {} /\ used < Length => OnTheWay("full")
  /\ Asleep("empty") # {} /\ used > 0 => OnTheWay("empty")

(* No word is printed twice: even when the ring is overrun, a consumer takes *)
(* a word only once (:107).                                                  *)
TakenOnce ==
  \A i, j \in 1 .. Len(received) : received[i] = received[j] => i = j

(* Never more words are in the ring than it has slots.  The FULL CONDITION   *)
(* (:45-51) is there for it.                                                 *)
NoOverrun == used <= Length

(* A consumer copies from a slot only when a word is in it.  The EMPTY       *)
(* CONDITION (:80-86) is there for it.                                       *)
NoNullRead == proc # "crashed"

(* With one producer and one consumer the program is a bounded FIFO channel. *)
Channel == INSTANCE BoundedChannel WITH Capacity <- Length
ImplementsChannel == Channel!Spec

(* Nobody waits forever: the process comes to its end without Ctrl-C.        *)
Terminates == <>(proc # "running")
===============================================================================
