---------------------------- MODULE SemBufferProofs ----------------------------
(***************************************************************************)
(* Theorems about SemBuffer, for every number of producers, consumers and  *)
(* slots and for every text.                                               *)
(***************************************************************************)
EXTENDS SemBuffer, FiniteSetTheorems, TLAPS

(* What the type invariant needs to be inductive: a producer on its way to   *)
(* the ring has a word in its hand.                                          *)
HasWord ==
  \A p \in Producer :
    pc[p] \in {"check", "waitPlace", "waitMutex", "put"} => produced[p] \in Word

TypeInv == TypeOK /\ HasWord

\* The globals of a process that has just been started have the right types.
LEMMA FreshType ==
  /\ EmptyRing \in [Slot -> Word \cup {NULL}] /\ 0 \in Slot
  /\ NoThreads \in [Thread -> ProducerPC \cup ConsumerPC]
  /\ \A p \in Producer : NoThreads[p] \in ProducerPC
  /\ \A c \in Consumer : NoThreads[c] \in ConsumerPC
  /\ \A t \in Thread : NoThreads[t] = "none"
  /\ NothingRead \in [Producer -> Word \cup {NULL}]
  /\ <<>> \in Seq(Word) /\ Text \in Seq(Word)
<1>1. EmptyRing \in [Slot -> Word \cup {NULL}]
  BY DEF EmptyRing
<1>2. 0 \in Slot /\ Text \in Seq(Word)
  BY SemBufferAssumption DEF Slot
<1>3. /\ NoThreads \in [Thread -> ProducerPC \cup ConsumerPC]
      /\ \A t \in Thread : NoThreads[t] = "none"
  BY DEF NoThreads, ProducerPC
<1>4. /\ \A p \in Producer : NoThreads[p] \in ProducerPC
      /\ \A c \in Consumer : NoThreads[c] \in ConsumerPC
  BY <1>3 DEF Thread, ProducerPC, ConsumerPC
<1>5. NothingRead \in [Producer -> Word \cup {NULL}]
  BY DEF NothingRead
<1> QED
  BY <1>1, <1>2, <1>3, <1>4, <1>5

\* The initial state has the right types.
LEMMA InitType == Init => TypeInv
<1>1. ASSUME Init PROVE TypeOK
  <2>1. end \in BOOLEAN /\ named \in BOOLEAN
    BY <1>1 DEF Init
  <2>2. place \in Nat /\ full \in Nat /\ mutex \in Nat
    BY <1>1 DEF Init
  <2>3. pc \in [Thread -> ProducerPC \cup ConsumerPC]
    BY <1>1, FreshType DEF Init
  <2>4. /\ \A p \in Producer : pc[p] \in ProducerPC
        /\ \A c \in Consumer : pc[c] \in ConsumerPC
    BY <1>1, FreshType DEF Init
  <2> QED
    BY <1>1, <2>1, <2>2, <2>3, <2>4, FreshType DEF Init, TypeOK
<1>2. Init => HasWord
  BY FreshType DEF Init, HasWord, Thread
<1> QED
  BY <1>1, <1>2 DEF TypeInv

\* What main() and the signal handler do keeps the types.
LEMMA MainType ==
  ASSUME TypeInv,
         \/ MainStep \/ Kill \/ Rerun
         \/ \E t \in Thread \cup {Main} : Interrupt(t)
  PROVE  TypeInv'
<1> USE SemBufferAssumption
    DEF TypeInv, TypeOK, HasWord, Slot, Thread, ProducerPC, ConsumerPC,
        sems, ring, proc
<1>1. CASE Clean
  BY <1>1 DEF Clean
<1>2. CASE OpenSemaphores
  BY <1>2 DEF OpenSemaphores
<1>3. ASSUME NEW t \in Thread, CreateThread(t)
      PROVE  TypeInv'
  BY <1>3 DEF CreateThread
<1>4. CASE Kill
  BY <1>4 DEF Kill
<1>5. CASE Rerun
  <2>1. TypeOK'
    BY <1>5, FreshType DEF Rerun
  <2>2. HasWord'
    BY <1>5, FreshType DEF Rerun
  <2> QED
    BY <2>1, <2>2
<1>6. ASSUME NEW t \in Thread \cup {Main}, Interrupt(t)
      PROVE  TypeInv'
  BY <1>6 DEF Interrupt
<1> QED
  BY <1>1, <1>2, <1>3, <1>4, <1>5, <1>6 DEF MainStep

\* What a producer does keeps the types.
LEMMA ProducerType ==
  ASSUME TypeInv, NEW p \in Producer, ProducerStep(p)
  PROVE  TypeInv'
<1> USE SemBufferAssumption
    DEF TypeInv, TypeOK, HasWord, Slot, Thread, ProducerPC, ConsumerPC,
        sems, ring, proc, Goto, SemWait, SemPost
<1>1. CASE Read(p)
  <2>1. CASE unread = <<>>
    BY <1>1, <2>1 DEF Read
  <2>2. CASE unread # <<>>
    <3>1. Head(unread) \in Word /\ Tail(unread) \in Seq(Word)
      BY <2>2
    <3>2. /\ unread' = Tail(unread)
          /\ produced' = [produced EXCEPT ![p] = Head(unread)]
          /\ pc' = [pc EXCEPT ![p] = "check"]
          /\ UNCHANGED <<proc, sems, ring>>
      BY <1>1, <2>2 DEF Read
    <3> QED
      BY <3>1, <3>2
  <2> QED
    BY <2>1, <2>2
<1>2. CASE CheckEnd(p)
  BY <1>2 DEF CheckEnd
<1>3. CASE WaitPlace(p)
  BY <1>3 DEF WaitPlace
<1>4. CASE WaitMutex(p)
  BY <1>4 DEF WaitMutex
<1>5. CASE PutWord(p)
  BY <1>5 DEF PutWord
<1>6. CASE AdvanceIn(p)
  BY <1>6 DEF AdvanceIn
<1>7. CASE PostFull(p)
  BY <1>7 DEF PostFull
<1>8. CASE PostMutex(p)
  BY <1>8 DEF PostMutex
<1>9. CASE Exit(p)
  BY <1>9 DEF Exit
<1> QED
  BY <1>1, <1>2, <1>3, <1>4, <1>5, <1>6, <1>7, <1>8, <1>9 DEF ProducerStep

\* What a consumer does keeps the types.
LEMMA ConsumerType ==
  ASSUME TypeInv, NEW c \in Consumer, ConsumerStep(c)
  PROVE  TypeInv'
<1> USE SemBufferAssumption
    DEF TypeInv, TypeOK, HasWord, Slot, Thread, ProducerPC, ConsumerPC,
        sems, ring, proc, Goto, SemWait, SemPost
<1>1. CASE CheckLoop(c)
  BY <1>1 DEF CheckLoop
<1>2. CASE WaitFull(c)
  BY <1>2 DEF WaitFull
<1>3. CASE WaitMutex(c)
  BY <1>3 DEF WaitMutex
<1>4. CASE TakeWord(c)
  <2>1. received' \in Seq(Word)
    <3>1. CASE buffer[out] = NULL
      BY <1>4, <3>1 DEF TakeWord
    <3>2. CASE buffer[out] # NULL
      <4>1. buffer[out] \in Word
        BY <3>2
      <4>2. received' = Append(received, buffer[out])
        BY <1>4, <3>2 DEF TakeWord
      <4> QED
        BY <4>1, <4>2
    <3> QED
      BY <3>1, <3>2
  <2>2. main' \in {main, "gone"}
    BY <1>4 DEF TakeWord
  <2> QED
    BY <1>4, <2>1, <2>2 DEF TakeWord
<1>5. CASE ClearSlot(c)
  BY <1>5 DEF ClearSlot
<1>6. CASE AdvanceOut(c)
  BY <1>6 DEF AdvanceOut
<1>7. CASE PostMutex(c)
  BY <1>7 DEF PostMutex
<1>8. CASE PostPlace(c)
  BY <1>8 DEF PostPlace
<1> QED
  BY <1>1, <1>2, <1>3, <1>4, <1>5, <1>6, <1>7, <1>8 DEF ConsumerStep

(* The indices stay inside the ring, the semaphores at or above zero, and    *)
(* every producer that is about to write holds a word.                       *)
THEOREM TypeCorrect == Spec => []TypeInv
<1>1. TypeInv /\ [Next]_vars => TypeInv'
  <2> SUFFICES ASSUME TypeInv, [Next]_vars PROVE TypeInv'
    OBVIOUS
  <2>1. CASE Next
    BY <2>1, MainType, ProducerType, ConsumerType DEF Next
  <2>2. CASE UNCHANGED vars
    BY <2>2 DEF vars, proc, sems, ring, TypeInv, TypeOK, HasWord
  <2> QED
    BY <2>1, <2>2
<1> QED
  BY <1>1, InitType, PTL DEF Spec

(* In every reachable state the variables have their types.                  *)
COROLLARY TypeOKHolds == Spec => []TypeOK
  BY TypeCorrect, PTL DEF TypeInv
-------------------------------------------------------------------------------
(* Mutual exclusion.  The invariant says when mutex can be 1: in a process   *)
(* whose threads exist, only while nobody is in the ring.  It needs that     *)
(* clean() removed the semaphores before they are opened.                    *)
MutexInv ==
  /\ main \in {"clean", "open"} => \A t \in Thread : pc[t] = "none"
  /\ main = "open" => ~named
  /\ main = "create" => /\ mutex \in {0, 1}
                        /\ \A t \in Thread : InRing(t) => mutex = 0
  /\ MutualExclusion

\* A thread that can take a step belongs to a process whose threads exist.
LEMMA StepperIsLive ==
  ASSUME TypeInv, MutexInv, NEW t \in Thread, pc[t] # "none", main # "gone"
  PROVE  main = "create"
  BY DEF TypeInv, TypeOK, MutexInv

LEMMA InitMutex == Init => MutexInv
  BY FreshType DEF Init, MutexInv, MutualExclusion, InRing

LEMMA MainMutex ==
  ASSUME TypeInv, MutexInv,
         \/ MainStep \/ Kill \/ Rerun
         \/ \E t \in Thread \cup {Main} : Interrupt(t)
  PROVE  MutexInv'
<1> USE DEF TypeInv, TypeOK, MutexInv, MutualExclusion, InRing, sems, ring, proc
<1>1. CASE Clean
  BY <1>1 DEF Clean
<1>2. CASE OpenSemaphores
  BY <1>2 DEF OpenSemaphores
<1>3. ASSUME NEW t \in Thread, CreateThread(t)
      PROVE  MutexInv'
  BY <1>3 DEF CreateThread
<1>4. CASE Kill
  BY <1>4 DEF Kill
<1>5. CASE Rerun
  BY <1>5, FreshType DEF Rerun
<1>6. ASSUME NEW t \in Thread \cup {Main}, Interrupt(t)
      PROVE  MutexInv'
  BY <1>6 DEF Interrupt
<1> QED
  BY <1>1, <1>2, <1>3, <1>4, <1>5, <1>6 DEF MainStep

\* Entering and leaving the ring are the only steps that touch mutex.
LEMMA ThreadMutex ==
  ASSUME TypeInv, MutexInv, NEW t \in Thread,
         \/ t \in Producer /\ ProducerStep(t)
         \/ t \in Consumer /\ ConsumerStep(t)
  PROVE  MutexInv'
<1> USE SemBufferAssumption
    DEF TypeInv, TypeOK, MutexInv, MutualExclusion, InRing, Thread,
        sems, ring, proc
<1>1. CASE WaitMutex(t)
  <2>1. /\ mutex = 1 /\ mutex' = 0 /\ main = "create" /\ main' = main
        /\ pc' = [pc EXCEPT ![t] = IF t \in Producer THEN "put" ELSE "take"]
    BY <1>1, StepperIsLive DEF WaitMutex, Goto, SemWait
  <2>2. \A u \in Thread : ~ InRing(u)
    BY <2>1
  <2> QED
    BY <2>1, <2>2
<1>2. CASE PostMutex(t)
  <2>1. /\ main = "create" /\ main' = main /\ pc[t] = "postMutex"
        /\ mutex' = mutex + 1
        /\ pc' = [pc EXCEPT ![t] = IF t \in Producer THEN "read" ELSE "postPlace"]
    BY <1>2, StepperIsLive DEF PostMutex, Goto, SemPost
  <2>2. mutex' = 1 /\ \A u \in Thread : u # t => ~ InRing(u)
    BY <2>1
  <2> QED
    BY <2>1, <2>2
<1>3. ASSUME t \in Producer, ProducerStep(t), ~ WaitMutex(t), ~ PostMutex(t)
      PROVE  MutexInv'
  <2>1. main = "create" /\ main' \in {main, "gone"} /\ mutex' = mutex
    BY <1>3, StepperIsLive
    DEF ProducerStep, Read, CheckEnd, WaitPlace, PutWord, AdvanceIn, PostFull,
        Exit, Goto
  <2>2. /\ \A u \in Thread : u # t => pc'[u] = pc[u]
        /\ InRing(t)' => InRing(t)
    BY <1>3
    DEF ProducerStep, Read, CheckEnd, WaitPlace, PutWord, AdvanceIn, PostFull,
        Exit, Goto
  <2> QED
    BY <2>1, <2>2
<1>4. ASSUME t \in Consumer, ConsumerStep(t), ~ WaitMutex(t), ~ PostMutex(t)
      PROVE  MutexInv'
  <2>1. main = "create" /\ main' \in {main, "gone"} /\ mutex' = mutex
    BY <1>4, StepperIsLive
    DEF ConsumerStep, CheckLoop, WaitFull, TakeWord, ClearSlot, AdvanceOut,
        PostPlace, Goto
  <2>2. /\ \A u \in Thread : u # t => pc'[u] = pc[u]
        /\ InRing(t)' => InRing(t)
    BY <1>4
    DEF ConsumerStep, CheckLoop, WaitFull, TakeWord, ClearSlot, AdvanceOut,
        PostPlace, Goto
  <2> QED
    BY <2>1, <2>2
<1> QED
  BY <1>1, <1>2, <1>3, <1>4

(* At no time do two threads execute the statements on buffer, in and out:   *)
(* not within a run, and not because a semaphore of an earlier run is left.  *)
THEOREM RingIsExclusive == Spec => []MutexInv
<1>1. TypeInv /\ MutexInv /\ [Next]_vars => MutexInv'
  <2> SUFFICES ASSUME TypeInv, MutexInv, [Next]_vars PROVE MutexInv'
    OBVIOUS
  <2>1. CASE Next
    BY <2>1, MainMutex, ThreadMutex DEF Next, Thread
  <2>2. CASE UNCHANGED vars
    BY <2>2 DEF vars, proc, sems, ring, MutexInv, MutualExclusion, InRing
  <2> QED
    BY <2>1, <2>2
<1> QED
  BY <1>1, InitMutex, TypeCorrect, PTL DEF Spec

(* At no time do two threads execute the statements on buffer, in and out.   *)
COROLLARY MutualExclusionHolds == Spec => []MutualExclusion
  BY RingIsExclusive, PTL DEF MutexInv
-------------------------------------------------------------------------------
(* Accounting of the slots.                                                  *)
PlacePC == {"waitMutex", "put", "advance", "postFull"}
FullPC  == {"waitMutex", "take", "clear", "advance", "postMutex", "postPlace"}

\* The threads that hold a place or a full are finitely many.
LEMMA HoldersFinite ==
  /\ IsFiniteSet(HoldsPlace) /\ Cardinality(HoldsPlace) \in Nat
  /\ IsFiniteSet(HoldsFull) /\ Cardinality(HoldsFull) \in Nat
<1>1. HoldsPlace \subseteq Producer /\ HoldsFull \subseteq Consumer
  BY DEF HoldsPlace, HoldsFull
<1> QED
  BY <1>1, SemBufferAssumption, FS_Subset, FS_CardinalityType

(* Counting a subset of a finite set after one element has gone in or out.   *)
LEMMA CardinalityMove ==
  ASSUME NEW S, NEW T, NEW e, IsFiniteSet(S)
  PROVE  /\ e \notin S /\ T = S \cup {e} => Cardinality(T) = Cardinality(S) + 1
         /\ e \in S /\ T = S \ {e} => Cardinality(T) = Cardinality(S) - 1
  BY FS_AddElement, FS_RemoveElement

\* A producer's step only moves that producer in or out of HoldsPlace.
LEMMA ProducerMove ==
  ASSUME TypeInv, NEW p \in Producer, NEW to, pc' = [pc EXCEPT ![p] = to]
  PROVE  /\ HoldsFull' = HoldsFull
         /\ p \in HoldsPlace <=> pc[p] \in PlacePC
         /\ to \in PlacePC => HoldsPlace' = HoldsPlace \cup {p}
         /\ to \notin PlacePC => HoldsPlace' = HoldsPlace \ {p}
  BY SemBufferAssumption
  DEF TypeInv, TypeOK, HoldsFull, HoldsPlace, PlacePC, Thread

\* A consumer's step only moves that consumer in or out of HoldsFull.
LEMMA ConsumerMove ==
  ASSUME TypeInv, NEW c \in Consumer, NEW to, pc' = [pc EXCEPT ![c] = to]
  PROVE  /\ HoldsPlace' = HoldsPlace
         /\ c \in HoldsFull <=> pc[c] \in FullPC
         /\ to \in FullPC => HoldsFull' = HoldsFull \cup {c}
         /\ to \notin FullPC => HoldsFull' = HoldsFull \ {c}
  BY SemBufferAssumption
  DEF TypeInv, TypeOK, HoldsFull, HoldsPlace, FullPC, Thread

LEMMA InitAccounting == Init => SemAccounting
  BY DEF Init, SemAccounting

LEMMA MainAccounting ==
  ASSUME TypeInv, MutexInv, SemAccounting,
         \/ MainStep \/ Kill \/ Rerun
         \/ \E t \in Thread \cup {Main} : Interrupt(t)
  PROVE  SemAccounting'
<1>1. CASE OpenSemaphores
  <2>1. HoldsPlace' = {} /\ HoldsFull' = {}
    BY <1>1 DEF OpenSemaphores, MutexInv, HoldsPlace, HoldsFull, Thread
  <2>2. place' = Length /\ full' = 0
    BY <1>1 DEF OpenSemaphores, MutexInv
  <2> QED
    BY <2>1, <2>2, FS_EmptySet, SemBufferAssumption DEF SemAccounting
<1>2. ASSUME NEW t \in Thread, CreateThread(t)
      PROVE  SemAccounting'
  <2>1. HoldsPlace' = HoldsPlace /\ HoldsFull' = HoldsFull
    BY <1>2, SemBufferAssumption
    DEF CreateThread, HoldsPlace, HoldsFull, Thread, TypeInv, TypeOK
  <2> QED
    BY <1>2, <2>1 DEF CreateThread, SemAccounting, proc, sems
<1>3. ASSUME NEW t \in Thread \cup {Main}, Interrupt(t)
      PROVE  SemAccounting'
  BY <1>3 DEF Interrupt, SemAccounting, HoldsPlace, HoldsFull, sems
<1>4. CASE Clean \/ Kill \/ Rerun
  BY <1>4 DEF Clean, Kill, Rerun, SemAccounting
<1> QED
  BY <1>1, <1>2, <1>3, <1>4 DEF MainStep

LEMMA ProducerAccounting ==
  ASSUME TypeInv, MutexInv, SemAccounting, NEW p \in Producer, ProducerStep(p)
  PROVE  SemAccounting'
<1>1. main = "create"
  <2>1. pc[p] # "none" /\ main # "gone"
    BY DEF ProducerStep, WaitPlace, PostFull, Read, CheckEnd, WaitMutex, PutWord, AdvanceIn, PostMutex, Exit, Goto
  <2> QED
    BY <2>1, StepperIsLive DEF Thread
<1>2. /\ place + full + Cardinality(HoldsPlace) + Cardinality(HoldsFull) = Length
      /\ place \in Nat /\ full \in Nat
      /\ Cardinality(HoldsPlace) \in Nat /\ Cardinality(HoldsFull) \in Nat
  BY <1>1, HoldersFinite DEF SemAccounting, TypeInv, TypeOK
<1>3. CASE WaitPlace(p)
  <2>1. /\ pc[p] = "waitPlace" /\ pc' = [pc EXCEPT ![p] = "waitMutex"]
        /\ place > 0 /\ place' = place - 1 /\ full' = full
    BY <1>3 DEF WaitPlace, Goto, SemWait
  <2>2. p \notin HoldsPlace /\ HoldsPlace' = HoldsPlace \cup {p} /\ HoldsFull' = HoldsFull
    BY <2>1, ProducerMove DEF PlacePC
  <2>3. Cardinality(HoldsPlace') = Cardinality(HoldsPlace) + 1
    BY <2>2, HoldersFinite, CardinalityMove
  <2> QED
    BY <1>2, <2>1, <2>2, <2>3 DEF SemAccounting
<1>4. CASE PostFull(p)
  <2>1. /\ pc[p] = "postFull" /\ pc' = [pc EXCEPT ![p] = "postMutex"]
        /\ full' = full + 1 /\ place' = place
    BY <1>4 DEF PostFull, Goto, SemPost
  <2> DEFINE to == "postMutex"
  <2>0. pc[p] \in PlacePC /\ to \notin PlacePC /\ pc' = [pc EXCEPT ![p] = to]
    BY <2>1 DEF PlacePC
  <2> HIDE DEF to
  <2>2. p \in HoldsPlace /\ HoldsPlace' = HoldsPlace \ {p} /\ HoldsFull' = HoldsFull
    BY <2>0, ProducerMove
  <2>3. Cardinality(HoldsPlace') = Cardinality(HoldsPlace) - 1
    BY <2>2, HoldersFinite, CardinalityMove
  <2> QED
    BY <1>2, <2>1, <2>2, <2>3 DEF SemAccounting
<1>5. CASE \/ Read(p) \/ CheckEnd(p) \/ WaitMutex(p) \/ PutWord(p)
           \/ AdvanceIn(p) \/ PostMutex(p) \/ Exit(p)
  <2>1. PICK to : /\ pc' = [pc EXCEPT ![p] = to]
                  /\ (to \in PlacePC <=> pc[p] \in PlacePC)
    BY <1>5, SemBufferAssumption
    DEF Read, CheckEnd, WaitMutex, PutWord, AdvanceIn, PostMutex,
        Exit, Goto, PlacePC, sems
  <2>2. HoldsPlace' = HoldsPlace /\ HoldsFull' = HoldsFull
    BY <2>1, ProducerMove
  <2>3. place' = place /\ full' = full
    BY <1>5
    DEF Read, CheckEnd, WaitMutex, PutWord, AdvanceIn, PostMutex,
        Exit, Goto, PlacePC, sems
  <2> QED
    BY <1>2, <2>2, <2>3 DEF SemAccounting
<1> QED
  BY <1>3, <1>4, <1>5 DEF ProducerStep

LEMMA ConsumerAccounting ==
  ASSUME TypeInv, MutexInv, SemAccounting, NEW c \in Consumer, ConsumerStep(c)
  PROVE  SemAccounting'
<1>1. main = "create"
  <2>1. pc[c] # "none" /\ main # "gone"
    BY DEF ConsumerStep, WaitFull, PostPlace, CheckLoop, WaitMutex, TakeWord, ClearSlot, AdvanceOut, PostMutex, Goto
  <2> QED
    BY <2>1, StepperIsLive DEF Thread
<1>2. /\ place + full + Cardinality(HoldsPlace) + Cardinality(HoldsFull) = Length
      /\ place \in Nat /\ full \in Nat
      /\ Cardinality(HoldsPlace) \in Nat /\ Cardinality(HoldsFull) \in Nat
  BY <1>1, HoldersFinite DEF SemAccounting, TypeInv, TypeOK
<1>3. CASE WaitFull(c)
  <2>1. /\ pc[c] = "waitFull" /\ pc' = [pc EXCEPT ![c] = "waitMutex"]
        /\ full > 0 /\ full' = full - 1 /\ place' = place
    BY <1>3 DEF WaitFull, Goto, SemWait
  <2>2. c \notin HoldsFull /\ HoldsFull' = HoldsFull \cup {c} /\ HoldsPlace' = HoldsPlace
    BY <2>1, ConsumerMove DEF FullPC
  <2>3. Cardinality(HoldsFull') = Cardinality(HoldsFull) + 1
    BY <2>2, HoldersFinite, CardinalityMove
  <2> QED
    BY <1>2, <2>1, <2>2, <2>3 DEF SemAccounting
<1>4. CASE PostPlace(c)
  <2>1. /\ pc[c] = "postPlace" /\ pc' = [pc EXCEPT ![c] = "loop"]
        /\ place' = place + 1 /\ full' = full
    BY <1>4 DEF PostPlace, Goto, SemPost
  <2> DEFINE to == "loop"
  <2>0. pc[c] \in FullPC /\ to \notin FullPC /\ pc' = [pc EXCEPT ![c] = to]
    BY <2>1 DEF FullPC
  <2> HIDE DEF to
  <2>2. c \in HoldsFull /\ HoldsFull' = HoldsFull \ {c} /\ HoldsPlace' = HoldsPlace
    BY <2>0, ConsumerMove
  <2>3. Cardinality(HoldsFull') = Cardinality(HoldsFull) - 1
    BY <2>2, HoldersFinite, CardinalityMove
  <2> QED
    BY <1>2, <2>1, <2>2, <2>3 DEF SemAccounting
<1>5. CASE \/ CheckLoop(c) \/ WaitMutex(c) \/ TakeWord(c) \/ ClearSlot(c)
           \/ AdvanceOut(c) \/ PostMutex(c)
  <2>1. PICK to : /\ pc' = [pc EXCEPT ![c] = to]
                  /\ (to \in FullPC <=> pc[c] \in FullPC)
    BY <1>5, SemBufferAssumption
    DEF CheckLoop, WaitMutex, TakeWord, ClearSlot, AdvanceOut,
        PostMutex, Goto, FullPC, sems
  <2>2. HoldsFull' = HoldsFull /\ HoldsPlace' = HoldsPlace
    BY <2>1, ConsumerMove
  <2>3. place' = place /\ full' = full
    BY <1>5
    DEF CheckLoop, WaitMutex, TakeWord, ClearSlot, AdvanceOut,
        PostMutex, Goto, FullPC, sems
  <2> QED
    BY <1>2, <2>2, <2>3 DEF SemAccounting
<1> QED
  BY <1>3, <1>4, <1>5 DEF ConsumerStep

(* In every run, free, filled and in-hand slots add up to the LENGTH slots   *)
(* of the ring.                                                              *)
THEOREM SlotsAddUp == Spec => []SemAccounting
<1>1. TypeInv /\ MutexInv /\ SemAccounting /\ [Next]_vars => SemAccounting'
  <2> SUFFICES ASSUME TypeInv, MutexInv, SemAccounting, [Next]_vars
               PROVE  SemAccounting'
    OBVIOUS
  <2>1. CASE Next
    BY <2>1, MainAccounting, ProducerAccounting, ConsumerAccounting DEF Next
  <2>2. CASE UNCHANGED vars
    BY <2>2 DEF vars, proc, sems, SemAccounting, HoldsPlace, HoldsFull
  <2> QED
    BY <2>1, <2>2
<1> QED
  BY <1>1, InitAccounting, TypeCorrect, RingIsExclusive, PTL DEF Spec
-------------------------------------------------------------------------------
(***************************************************************************)
(* The ring of SemBuffer is a bounded FIFO channel: theorems about what    *)
(* the slots hold, for every number of producers, consumers and slots and  *)
(* for every text.                                                         *)
(***************************************************************************)
\* The slot i places on from slot 0, for i below 2 * Length.
Wrap(i) == IF i < Length THEN i ELSE i - Length

(* A word is put before "in" moves and taken before its slot is empty and    *)
(* "out" moves: is a producer, or a consumer, in the middle of that?         *)
HalfPut   == IF \E p \in Producer : pc[p] = "advance" THEN 1 ELSE 0
HalfTaken == IF \E c \in Consumer : pc[c] \in {"clear", "advance"} THEN 1 ELSE 0

Underway == Len(sent) - Len(received)

(* What the ring holds: from "out" on the words sent but not received, in    *)
(* their order, then empty slots, and "in" is where these begin.             *)
IndicesAgree ==
  /\ Underway \in 0 .. Length - HalfTaken
  /\ HalfPut <= Underway
  /\ in = Wrap(out + HalfTaken + Underway - HalfPut)

SlotsAgree ==
  /\ \A j \in 0 .. Underway - 1 :
       buffer[Wrap(out + HalfTaken + j)] = sent[Len(received) + 1 + j]
  /\ \A j \in HalfTaken + Underway .. Length - 1 : buffer[Wrap(out + j)] = NULL
  /\ \A c \in Consumer : pc[c] = "advance" => buffer[out] = NULL

\* Who is about to write finds room, and who is about to read finds a word.
RoomAndWord ==
  /\ \A p \in Producer : pc[p] = "put" => Underway < Length
  /\ \A c \in Consumer : pc[c] = "take" => Underway > 0

ContentInv == IndicesAgree /\ SlotsAgree /\ RoomAndWord

(* The words underway are those /full counts, those whose producer has not   *)
(* posted /full yet, and those a consumer has waited for but not yet taken.  *)
(* When the semaphores are opened there are none.                            *)
PostPC  == {"advance", "postFull"}
ClaimPC == {"waitMutex", "take"}
Posting  == {p \in Producer : pc[p] \in PostPC}
Claiming == {c \in Consumer : pc[c] \in ClaimPC}

FullInv ==
  /\ main \in {"clean", "open"} => sent = <<>> /\ received = <<>>
  /\ main = "create" => full + Cardinality(Posting) + Cardinality(Claiming) = Underway
-------------------------------------------------------------------------------
\* The code steps an index with a remainder, which wraps it around the ring.
LEMMA NextSlot ==
  ASSUME NEW i \in Slot
  PROVE  (i + 1) % Length = Wrap(i + 1) /\ Wrap(i + 1) \in Slot
<1>1. Length \in Nat /\ Length > 0 /\ i \in 0 .. Length - 1
  BY SemBufferAssumption DEF Slot
<1>2. CASE i + 1 = Length
  BY <1>1, <1>2 DEF Wrap, Slot
<1>3. CASE i + 1 < Length
  BY <1>1, <1>3 DEF Wrap, Slot
<1> QED
  BY <1>1, <1>2, <1>3

\* While a thread is in the ring nobody else is in the middle of anything.
LEMMA AloneInRing ==
  ASSUME TypeInv, MutexInv, NEW t \in Thread, InRing(t),
         NEW to, pc' = [pc EXCEPT ![t] = to]
  PROVE  /\ HalfPut = IF t \in Producer /\ pc[t] = "advance" THEN 1 ELSE 0
         /\ HalfTaken = IF t \in Consumer /\ pc[t] \in {"clear", "advance"} THEN 1 ELSE 0
         /\ HalfPut' = IF t \in Producer /\ to = "advance" THEN 1 ELSE 0
         /\ HalfTaken' = IF t \in Consumer /\ to \in {"clear", "advance"} THEN 1 ELSE 0
         /\ \A u \in Thread : u # t => ~ InRing(u) /\ pc'[u] = pc[u]
         /\ pc'[t] = to
<1>1. \A u \in Thread : u # t => ~ InRing(u) /\ pc'[u] = pc[u]
  BY DEF MutexInv, MutualExclusion, TypeInv, TypeOK
<1>2. pc'[t] = to
  BY DEF TypeInv, TypeOK
<1>3. \A u \in Thread : u # t => pc[u] \notin {"advance", "clear"} /\ pc'[u] \notin {"advance", "clear"}
  BY <1>1 DEF InRing
<1> QED
  BY <1>1, <1>2, <1>3 DEF HalfPut, HalfTaken, Thread

\* A step outside the ring leaves what it holds as it is.
LEMMA QuietContent ==
  ASSUME TypeInv, ContentInv, UNCHANGED ring,
         NEW t \in Thread, NEW to, pc' = [pc EXCEPT ![t] = to],
         pc[t] \notin {"clear", "advance"}, to \notin {"put", "take", "clear", "advance"}
  PROVE  ContentInv'
<1>1. \A u \in Thread : pc'[u] = IF u = t THEN to ELSE pc[u]
  BY DEF TypeInv, TypeOK
<1>2. HalfPut' = HalfPut /\ HalfTaken' = HalfTaken /\ Underway' = Underway
  BY <1>1 DEF HalfPut, HalfTaken, Underway, Thread, ring
<1>3. IndicesAgree'
  BY <1>2 DEF ContentInv, IndicesAgree, ring
<1>4. SlotsAgree'
  BY <1>1, <1>2 DEF ContentInv, SlotsAgree, Thread, ring
<1>5. RoomAndWord'
  BY <1>1, <1>2 DEF ContentInv, RoomAndWord, Thread
<1> QED
  BY <1>3, <1>4, <1>5 DEF ContentInv

\* An empty ring and no threads.
Fresh ==
  /\ buffer = EmptyRing /\ in = 0 /\ out = 0
  /\ sent = <<>> /\ received = <<>> /\ pc = NoThreads

LEMMA FreshContent == Fresh => ContentInv
<1> SUFFICES ASSUME Fresh PROVE ContentInv
  OBVIOUS
<1> USE DEF Fresh
<1>1. Length \in Nat /\ Length > 0
  BY SemBufferAssumption
<1>2. HalfPut = 0 /\ HalfTaken = 0 /\ Underway = 0
  BY FreshType DEF HalfPut, HalfTaken, Underway, Thread
<1>3. IndicesAgree
  BY <1>1, <1>2 DEF IndicesAgree, Wrap
<1>4. SlotsAgree
  BY <1>1, <1>2, FreshType DEF SlotsAgree, Wrap, EmptyRing, Slot, Thread
<1>5. RoomAndWord
  BY FreshType DEF RoomAndWord, Thread
<1> QED
  BY <1>3, <1>4, <1>5 DEF ContentInv

\* What main() and the signal handler do leaves the ring alone, or starts anew.
LEMMA MainContent ==
  ASSUME TypeInv, ContentInv,
         \/ MainStep \/ Kill \/ Rerun
         \/ \E t \in Thread \cup {Main} : Interrupt(t)
  PROVE  ContentInv'
<1>1. ASSUME NEW t \in Thread, CreateThread(t)
      PROVE  ContentInv'
  <2>1. PICK to \in {"read", "loop"} : pc' = [pc EXCEPT ![t] = to]
    BY <1>1 DEF CreateThread
  <2>2. pc[t] = "none" /\ UNCHANGED ring
    BY <1>1 DEF CreateThread
  <2> QED
    BY <2>1, <2>2, QuietContent
<1>2. CASE \/ Clean \/ OpenSemaphores \/ Kill
           \/ \E t \in Thread \cup {Main} : Interrupt(t)
  BY <1>2
  DEF Clean, OpenSemaphores, Kill, Interrupt, ContentInv, IndicesAgree, SlotsAgree,
      RoomAndWord, Underway, HalfPut, HalfTaken, ring
<1>3. CASE Rerun
  <2>1. Fresh'
    BY <1>3 DEF Rerun, Fresh
  <2>2. (Fresh => ContentInv)'
    BY FreshContent, PTL
  <2> QED
    BY <2>1, <2>2
<1> QED
  BY <1>1, <1>2, <1>3 DEF MainStep

\* The threads on either side of a post of /full are finitely many.
LEMMA PostersFinite ==
  /\ Posting \subseteq HoldsPlace /\ Claiming \subseteq HoldsFull
  /\ IsFiniteSet(Posting) /\ Cardinality(Posting) \in Nat
  /\ IsFiniteSet(Claiming) /\ Cardinality(Claiming) \in Nat
  /\ Cardinality(Posting) <= Cardinality(HoldsPlace)
  /\ Cardinality(Claiming) <= Cardinality(HoldsFull)
<1>1. Posting \subseteq HoldsPlace /\ Claiming \subseteq HoldsFull
  BY DEF Posting, Claiming, PostPC, ClaimPC, HoldsPlace, HoldsFull
<1> QED
  BY <1>1, HoldersFinite, FS_Subset, FS_CardinalityType

\* A place that was waited for and not yet used is a free slot, and so is a slot
\* whose word was taken and whose place was not yet posted.
LEMMA RoomByCounting ==
  ASSUME TypeInv, SemAccounting, FullInv, main = "create",
         \/ \E p \in HoldsPlace : p \notin Posting
         \/ \E c \in HoldsFull : c \notin Claiming
  PROVE  Underway < Length
<1>1. /\ place + full + Cardinality(HoldsPlace) + Cardinality(HoldsFull) = Length
      /\ full + Cardinality(Posting) + Cardinality(Claiming) = Underway
      /\ place \in Nat /\ full \in Nat
      /\ Cardinality(HoldsPlace) \in Nat /\ Cardinality(HoldsFull) \in Nat
  BY HoldersFinite DEF SemAccounting, FullInv, TypeInv, TypeOK
<1>2. \/ Cardinality(Posting) < Cardinality(HoldsPlace)
      \/ Cardinality(Claiming) < Cardinality(HoldsFull)
  BY PostersFinite, HoldersFinite, FS_Subset
<1> QED
  BY <1>1, <1>2, PostersFinite

\* A consumer that waited for a word has one waiting for it.
LEMMA WordByCounting ==
  ASSUME TypeInv, FullInv, main = "create", Claiming # {}
  PROVE  Underway > 0
<1>1. /\ full + Cardinality(Posting) + Cardinality(Claiming) = Underway
      /\ full \in Nat
  BY DEF FullInv, TypeInv, TypeOK
<1>2. Cardinality(Claiming) # 0
  BY PostersFinite, FS_EmptySet
<1> QED
  BY <1>1, <1>2, PostersFinite

\* The slot "out" holds the next word to receive when a consumer copies from it.
LEMMA NextWord ==
  ASSUME TypeInv, MutexInv, ContentInv, NEW c \in Consumer, pc[c] = "take"
  PROVE  /\ buffer[out] = sent[Len(received) + 1] /\ buffer[out] \in Word
         /\ Len(received) < Len(sent)
<1>1. HalfTaken = 0
  BY DEF HalfTaken, MutexInv, MutualExclusion, InRing, Thread
<1>2. Underway > 0 /\ Underway \in Int /\ Len(sent) \in Nat /\ Len(received) \in Nat
  BY DEF ContentInv, RoomAndWord, Underway, TypeInv, TypeOK
<1>3. 0 \in 0 .. Underway - 1
  BY <1>2
<1>4. buffer[Wrap(out + HalfTaken + 0)] = sent[Len(received) + 1 + 0]
  BY <1>3 DEF ContentInv, SlotsAgree
<1>5. Wrap(out + HalfTaken + 0) = out
  BY <1>1, SemBufferAssumption DEF Wrap, TypeInv, TypeOK, Slot
<1>6. Len(received) + 1 + 0 \in 1 .. Len(sent) /\ Len(received) + 1 + 0 = Len(received) + 1
  BY <1>2 DEF Underway
<1> QED
  BY <1>2, <1>4, <1>5, <1>6 DEF TypeInv, TypeOK, Underway

\* The statements of a producer in the ring keep its content in order.
LEMMA ProducerContent ==
  ASSUME TypeInv, MutexInv, SemAccounting, FullInv, ContentInv,
         NEW p \in Producer, ProducerStep(p)
  PROVE  ContentInv'
<1> USE SemBufferAssumption DEF Thread
<1>1. CASE PutWord(p)
  <2>1. /\ pc[p] = "put" /\ pc' = [pc EXCEPT ![p] = "advance"]
        /\ buffer' = [buffer EXCEPT ![in] = produced[p]]
        /\ sent' = Append(sent, produced[p])
        /\ UNCHANGED <<in, out, received>>
    BY <1>1 DEF PutWord, Goto
  <2>2. /\ HalfPut = 0 /\ HalfTaken = 0 /\ HalfPut' = 1 /\ HalfTaken' = 0
        /\ \A u \in Thread : u # p => ~ InRing(u) /\ pc'[u] = pc[u]
        /\ pc'[p] = "advance"
    BY <2>1, AloneInRing DEF InRing
  <2>3. /\ Underway \in 0 .. Length - 1 /\ Underway' = Underway + 1
        /\ in = Wrap(out + Underway)
        /\ Len(sent) \in Nat /\ Len(received) \in Nat /\ Len(sent') = Len(sent) + 1
        /\ in \in 0 .. Length - 1 /\ out \in 0 .. Length - 1
        /\ produced[p] \in Word
    BY <2>1, <2>2
    DEF ContentInv, IndicesAgree, RoomAndWord, TypeInv, TypeOK, HasWord, Underway, Slot
  <2>4. IndicesAgree'
    <3>1. out + HalfTaken' + Underway' - HalfPut' = out + Underway
      BY <2>2, <2>3
    <3> QED
      BY <2>1, <2>2, <2>3, <3>1 DEF IndicesAgree
  <2>5. SlotsAgree'
    <3>1. ASSUME NEW j \in 0 .. Underway' - 1
          PROVE  buffer'[Wrap(out' + HalfTaken' + j)] = sent'[Len(received') + 1 + j]
      <4>1. out' + HalfTaken' + j = out + j /\ j \in 0 .. Underway
        BY <2>1, <2>2, <2>3
      <4>2. CASE j = Underway
        <5>1. Wrap(out' + HalfTaken' + j) = in /\ Len(received') + 1 + j = Len(sent) + 1
          BY <2>1, <2>3, <4>1, <4>2 DEF Underway
        <5>2. buffer'[in] = produced[p] /\ sent'[Len(sent) + 1] = produced[p]
          BY <2>1, <2>3 DEF TypeInv, TypeOK
        <5> QED
          BY <5>1, <5>2
      <4>3. CASE j < Underway
        <5>1. Wrap(out + j) \in Slot /\ Wrap(out + j) # in
          BY <2>3, <4>1, <4>3 DEF Wrap, Slot
        <5>2. buffer'[Wrap(out + j)] = buffer[Wrap(out + j)]
          BY <2>1, <5>1 DEF TypeInv, TypeOK
        <5>3. Len(received) + 1 + j \in 1 .. Len(sent)
          BY <2>3, <4>1, <4>3 DEF Underway
        <5>4. sent'[Len(received) + 1 + j] = sent[Len(received) + 1 + j]
          BY <2>1, <2>3, <5>3 DEF TypeInv, TypeOK
        <5>5. buffer[Wrap(out + HalfTaken + j)] = sent[Len(received) + 1 + j]
          <6>1. j \in 0 .. Underway - 1
            BY <2>3, <4>1, <4>3
          <6> QED
            BY <6>1 DEF ContentInv, SlotsAgree
        <5> QED
          BY <2>1, <2>2, <2>3, <4>1, <5>2, <5>4, <5>5
      <4> QED
        BY <2>3, <4>1, <4>2, <4>3
    <3>2. ASSUME NEW j \in HalfTaken' + Underway' .. Length - 1
          PROVE  buffer'[Wrap(out' + j)] = NULL
      <4>1. j \in Underway + 1 .. Length - 1
        BY <2>2, <2>3
      <4>2. Wrap(out + j) \in Slot /\ Wrap(out + j) # in
        BY <2>3, <4>1 DEF Wrap, Slot
      <4>3. buffer[Wrap(out + j)] = NULL
        <5>1. j \in HalfTaken + Underway .. Length - 1
          BY <2>2, <2>3, <4>1
        <5> QED
          BY <5>1 DEF ContentInv, SlotsAgree
      <4> QED
        BY <2>1, <4>2, <4>3 DEF TypeInv, TypeOK
    <3>3. \A c \in Consumer : pc'[c] # "advance"
      BY <2>2 DEF InRing
    <3> QED
      BY <3>1, <3>2, <3>3 DEF SlotsAgree
  <2>6. RoomAndWord'
    BY <2>2, <2>3 DEF RoomAndWord, InRing
  <2> QED
    BY <2>4, <2>5, <2>6 DEF ContentInv
<1>2. CASE AdvanceIn(p)
  <2>1. /\ pc[p] = "advance" /\ pc' = [pc EXCEPT ![p] = "postFull"]
        /\ in' = (in + 1) % Length
        /\ UNCHANGED <<buffer, out, sent, received>>
    BY <1>2 DEF AdvanceIn, Goto
  <2>2. /\ HalfPut = 1 /\ HalfTaken = 0 /\ HalfPut' = 0 /\ HalfTaken' = 0
        /\ \A u \in Thread : u # p => ~ InRing(u) /\ pc'[u] = pc[u]
        /\ pc'[p] = "postFull"
    BY <2>1, AloneInRing DEF InRing
  <2>3. Underway' = Underway
    BY <2>1 DEF Underway
  <2>4. IndicesAgree'
    <3>1. in' = Wrap(in + 1) /\ in \in 0 .. Length - 1 /\ out \in 0 .. Length - 1
      BY <2>1, NextSlot DEF TypeInv, TypeOK, Slot
    <3>2. in = Wrap(out + Underway - 1) /\ Underway \in 1 .. Length
      <4>1. Underway \in 1 .. Length
        BY <2>2 DEF ContentInv, IndicesAgree
      <4>2. out + HalfTaken + Underway - HalfPut = out + Underway - 1
        BY <2>2, <3>1, <4>1
      <4> QED
        BY <4>1, <4>2 DEF ContentInv, IndicesAgree
    <3> QED
      BY <2>1, <2>2, <2>3, <3>1, <3>2 DEF IndicesAgree, Wrap
  <2>5. SlotsAgree'
    BY <2>1, <2>2, <2>3 DEF ContentInv, SlotsAgree, InRing
  <2>6. RoomAndWord'
    BY <2>2 DEF RoomAndWord, InRing
  <2> QED
    BY <2>4, <2>5, <2>6 DEF ContentInv
<1>3. CASE WaitMutex(p)
  <2>1. /\ pc[p] = "waitMutex" /\ pc' = [pc EXCEPT ![p] = "put"]
        /\ UNCHANGED ring
    BY <1>3 DEF WaitMutex, Goto
  <2>2. /\ pc'[p] = "put" /\ \A u \in Thread : u # p => pc'[u] = pc[u]
    BY <2>1 DEF TypeInv, TypeOK
  <2>3. HalfPut' = HalfPut /\ HalfTaken' = HalfTaken /\ Underway' = Underway
    BY <2>1, <2>2 DEF HalfPut, HalfTaken, Underway, ring
  <2>4. IndicesAgree' /\ SlotsAgree'
    BY <2>1, <2>2, <2>3 DEF ContentInv, IndicesAgree, SlotsAgree, ring
  <2>5. Underway < Length
    <3>1. pc[p] # "none" /\ main # "gone" /\ main = "create"
      BY <1>3, StepperIsLive DEF WaitMutex, Goto
    <3>2. p \notin Posting /\ p \in HoldsPlace
      BY <2>1 DEF Posting, PostPC, HoldsPlace
    <3> QED
      BY <3>1, <3>2, RoomByCounting
  <2>6. RoomAndWord'
    BY <2>1, <2>2, <2>3, <2>5 DEF ContentInv, RoomAndWord
  <2> QED
    BY <2>4, <2>6 DEF ContentInv
<1>4. CASE \/ Read(p) \/ CheckEnd(p) \/ WaitPlace(p) \/ PostFull(p)
           \/ PostMutex(p) \/ Exit(p)
  <2>1. PICK to : /\ pc' = [pc EXCEPT ![p] = to]
                  /\ to \notin {"put", "take", "clear", "advance"}
    BY <1>4 DEF Read, CheckEnd, WaitPlace, PostFull, PostMutex, Exit, Goto
  <2>2. pc[p] \notin {"clear", "advance"} /\ UNCHANGED ring
    BY <1>4 DEF Read, CheckEnd, WaitPlace, PostFull, PostMutex, Exit, Goto
  <2> QED
    BY <2>1, <2>2, QuietContent
<1> QED
  BY <1>1, <1>2, <1>3, <1>4 DEF ProducerStep

\* The statements of a consumer in the ring keep its content in order.
LEMMA ConsumerContent ==
  ASSUME TypeInv, MutexInv, SemAccounting, FullInv, ContentInv,
         NEW c \in Consumer, ConsumerStep(c)
  PROVE  ContentInv'
<1> USE SemBufferAssumption DEF Thread
<1>1. CASE TakeWord(c)
  <2>1. /\ pc[c] = "take" /\ pc' = [pc EXCEPT ![c] = "clear"]
        /\ UNCHANGED <<buffer, in, out, sent>>
    BY <1>1 DEF TakeWord, Goto
  <2>2. /\ HalfPut = 0 /\ HalfTaken = 0 /\ HalfPut' = 0 /\ HalfTaken' = 1
        /\ \A u \in Thread : u # c => ~ InRing(u) /\ pc'[u] = pc[u]
        /\ pc'[c] = "clear"
    BY <2>1, AloneInRing DEF InRing
  <2>3. buffer[out] = sent[Len(received) + 1] /\ buffer[out] \in Word
    BY <2>1, NextWord
  <2>4. received' = Append(received, buffer[out])
    BY <1>1, <2>3 DEF TakeWord
  <2>5. /\ Underway \in 1 .. Length /\ Underway' = Underway - 1
        /\ Len(received) \in Nat /\ Len(received') = Len(received) + 1
        /\ out \in 0 .. Length - 1
    BY <2>1, <2>2, <2>3, <2>4
    DEF ContentInv, IndicesAgree, RoomAndWord, Underway, TypeInv, TypeOK, Slot
  <2>6. IndicesAgree'
    <3>1. out' + HalfTaken' + Underway' - HalfPut' = out + HalfTaken + Underway - HalfPut
      BY <2>1, <2>2, <2>5
    <3> QED
      BY <2>1, <2>2, <2>5, <3>1 DEF ContentInv, IndicesAgree
  <2>7. SlotsAgree'
    <3>1. ASSUME NEW j \in 0 .. Underway' - 1
          PROVE  buffer[Wrap(out + HalfTaken' + j)] = sent[Len(received') + 1 + j]
      <4>1. j + 1 \in 0 .. Underway - 1
        BY <2>5
      <4>2. buffer[Wrap(out + HalfTaken + (j + 1))] = sent[Len(received) + 1 + (j + 1)]
        BY <4>1 DEF ContentInv, SlotsAgree
      <4>3. /\ out + HalfTaken + (j + 1) = out + HalfTaken' + j
            /\ Len(received) + 1 + (j + 1) = Len(received') + 1 + j
        BY <2>2, <2>5
      <4> QED
        BY <4>2, <4>3
    <3>2. HalfTaken' + Underway' = HalfTaken + Underway
      BY <2>2, <2>5
    <3>3. \A d \in Consumer : pc'[d] # "advance"
      BY <2>2 DEF InRing
    <3> QED
      BY <2>1, <3>1, <3>2, <3>3 DEF ContentInv, SlotsAgree
  <2>8. RoomAndWord'
    BY <2>2 DEF RoomAndWord, InRing
  <2> QED
    BY <2>6, <2>7, <2>8 DEF ContentInv
<1>2. CASE ClearSlot(c)
  <2>1. /\ pc[c] = "clear" /\ pc' = [pc EXCEPT ![c] = "advance"]
        /\ buffer' = [buffer EXCEPT ![out] = NULL]
        /\ UNCHANGED <<in, out, sent, received>>
    BY <1>2 DEF ClearSlot, Goto
  <2>2. /\ HalfPut = 0 /\ HalfTaken = 1 /\ HalfPut' = 0 /\ HalfTaken' = 1
        /\ \A u \in Thread : u # c => ~ InRing(u) /\ pc'[u] = pc[u]
        /\ pc'[c] = "advance"
    BY <2>1, AloneInRing DEF InRing
  <2>3. /\ Underway' = Underway /\ Underway \in 0 .. Length - 1
        /\ out \in 0 .. Length - 1
    BY <2>1, <2>2 DEF Underway, ContentInv, IndicesAgree, TypeInv, TypeOK, Slot
  <2>4. IndicesAgree'
    BY <2>1, <2>2, <2>3 DEF ContentInv, IndicesAgree
  <2>5. SlotsAgree'
    <3>1. ASSUME NEW j \in 1 .. Length - 1
          PROVE  buffer'[Wrap(out + j)] = buffer[Wrap(out + j)]
      <4>1. Wrap(out + j) # out
        BY <2>3 DEF Wrap
      <4> QED
        BY <2>1, <4>1 DEF TypeInv, TypeOK
    <3>2. ASSUME NEW j \in 0 .. Underway - 1
          PROVE  buffer'[Wrap(out + HalfTaken + j)] = sent[Len(received) + 1 + j]
      <4>1. buffer[Wrap(out + HalfTaken + j)] = sent[Len(received) + 1 + j]
        BY DEF ContentInv, SlotsAgree
      <4>2. out + HalfTaken + j = out + (1 + j) /\ 1 + j \in 1 .. Length - 1
        BY <2>2, <2>3
      <4> QED
        BY <3>1, <4>1, <4>2
    <3>3. ASSUME NEW j \in HalfTaken + Underway .. Length - 1
          PROVE  buffer'[Wrap(out + j)] = NULL
      <4>1. buffer[Wrap(out + j)] = NULL
        BY DEF ContentInv, SlotsAgree
      <4>2. j \in 1 .. Length - 1
        BY <2>2, <2>3
      <4> QED
        BY <3>1, <4>1, <4>2
    <3>4. buffer'[out] = NULL
      BY <2>1, <2>3 DEF TypeInv, TypeOK, Slot
    <3> QED
      BY <2>1, <2>2, <2>3, <3>2, <3>3, <3>4 DEF SlotsAgree
  <2>6. RoomAndWord'
    BY <2>2 DEF RoomAndWord, InRing
  <2> QED
    BY <2>4, <2>5, <2>6 DEF ContentInv
<1>3. CASE AdvanceOut(c)
  <2>1. /\ pc[c] = "advance" /\ pc' = [pc EXCEPT ![c] = "postMutex"]
        /\ out' = (out + 1) % Length
        /\ UNCHANGED <<buffer, in, sent, received>>
    BY <1>3 DEF AdvanceOut, Goto
  <2>2. /\ HalfPut = 0 /\ HalfTaken = 1 /\ HalfPut' = 0 /\ HalfTaken' = 0
        /\ \A u \in Thread : u # c => ~ InRing(u) /\ pc'[u] = pc[u]
        /\ pc'[c] = "postMutex"
    BY <2>1, AloneInRing DEF InRing
  <2>3. /\ Underway' = Underway /\ Underway \in 0 .. Length - 1
        /\ out \in 0 .. Length - 1 /\ out' = Wrap(out + 1)
    BY <2>1, <2>2, NextSlot DEF Underway, ContentInv, IndicesAgree, TypeInv, TypeOK, Slot
  <2>4. \A j \in 0 .. Length - 1 : Wrap(out' + j) = Wrap(out + (1 + j)) \/ j = Length - 1
    BY <2>3 DEF Wrap
  <2>5. IndicesAgree'
    <3>1. in = Wrap(out + (1 + Underway))
      <4>1. out + HalfTaken + Underway - HalfPut = out + (1 + Underway)
        BY <2>2, <2>3
      <4> QED
        BY <4>1 DEF ContentInv, IndicesAgree
    <3>2. in = Wrap(out' + Underway)
      BY <2>3, <3>1 DEF Wrap
    <3>3. out' + HalfTaken' + Underway' - HalfPut' = out' + Underway
      BY <2>2, <2>3 DEF Wrap
    <3> QED
      BY <2>1, <2>2, <2>3, <3>2, <3>3 DEF IndicesAgree
  <2>6. SlotsAgree'
    <3>1. ASSUME NEW j \in 0 .. Underway - 1
          PROVE  buffer[Wrap(out' + HalfTaken' + j)] = sent[Len(received) + 1 + j]
      <4>1. buffer[Wrap(out + HalfTaken + j)] = sent[Len(received) + 1 + j]
        BY DEF ContentInv, SlotsAgree
      <4>2. Wrap(out' + HalfTaken' + j) = Wrap(out + HalfTaken + j)
        BY <2>2, <2>3 DEF Wrap
      <4> QED
        BY <4>1, <4>2
    <3>2. ASSUME NEW j \in Underway .. Length - 1
          PROVE  buffer[Wrap(out' + j)] = NULL
      <4>1. CASE j = Length - 1
        <5>1. Wrap(out' + j) = out
          BY <2>3, <4>1 DEF Wrap
        <5> QED
          BY <2>1, <5>1 DEF ContentInv, SlotsAgree
      <4>2. CASE j < Length - 1
        <5>1. Wrap(out' + j) = Wrap(out + (1 + j)) /\ 1 + j \in HalfTaken + Underway .. Length - 1
          BY <2>2, <2>3, <4>2 DEF Wrap
        <5> QED
          BY <5>1 DEF ContentInv, SlotsAgree
      <4> QED
        BY <2>3, <4>1, <4>2
    <3>3. \A d \in Consumer : pc'[d] # "advance"
      BY <2>2 DEF InRing
    <3>4. HalfTaken' + Underway' = Underway
      BY <2>2, <2>3
    <3> QED
      BY <2>1, <2>2, <2>3, <3>1, <3>2, <3>3, <3>4 DEF SlotsAgree
  <2>7. RoomAndWord'
    BY <2>2 DEF RoomAndWord, InRing
  <2> QED
    BY <2>5, <2>6, <2>7 DEF ContentInv
<1>4. CASE WaitMutex(c)
  <2>1. /\ pc[c] = "waitMutex" /\ pc' = [pc EXCEPT ![c] = "take"]
        /\ UNCHANGED ring
    BY <1>4 DEF WaitMutex, Goto
  <2>2. /\ pc'[c] = "take" /\ \A u \in Thread : u # c => pc'[u] = pc[u]
    BY <2>1 DEF TypeInv, TypeOK
  <2>3. HalfPut' = HalfPut /\ HalfTaken' = HalfTaken /\ Underway' = Underway
    BY <2>1, <2>2 DEF HalfPut, HalfTaken, Underway, ring
  <2>4. IndicesAgree' /\ SlotsAgree'
    BY <2>1, <2>2, <2>3 DEF ContentInv, IndicesAgree, SlotsAgree, ring
  <2>5. Underway > 0
    <3>1. pc[c] # "none" /\ main # "gone" /\ main = "create"
      BY <1>4, StepperIsLive DEF WaitMutex, Goto
    <3>2. c \in Claiming
      BY <2>1 DEF Claiming, ClaimPC
    <3> QED
      BY <3>1, <3>2, WordByCounting
  <2>6. RoomAndWord'
    BY <2>1, <2>2, <2>3, <2>5 DEF ContentInv, RoomAndWord
  <2> QED
    BY <2>4, <2>6 DEF ContentInv
<1>5. CASE CheckLoop(c) \/ WaitFull(c) \/ PostMutex(c) \/ PostPlace(c)
  <2>1. PICK to : /\ pc' = [pc EXCEPT ![c] = to]
                  /\ to \notin {"put", "take", "clear", "advance"}
    BY <1>5 DEF CheckLoop, WaitFull, PostMutex, PostPlace, Goto
  <2>2. pc[c] \notin {"clear", "advance"} /\ UNCHANGED ring
    BY <1>5 DEF CheckLoop, WaitFull, PostMutex, PostPlace, Goto
  <2> QED
    BY <2>1, <2>2, QuietContent
<1> QED
  BY <1>1, <1>2, <1>3, <1>4, <1>5 DEF ConsumerStep
-------------------------------------------------------------------------------
\* A producer's step only moves that producer in or out of Posting.
LEMMA PostingMove ==
  ASSUME TypeInv, NEW p \in Producer, NEW to, pc' = [pc EXCEPT ![p] = to]
  PROVE  /\ Claiming' = Claiming
         /\ p \in Posting <=> pc[p] \in PostPC
         /\ to \in PostPC => Posting' = Posting \cup {p}
         /\ to \notin PostPC => Posting' = Posting \ {p}
  BY SemBufferAssumption DEF TypeInv, TypeOK, Posting, Claiming, Thread

\* A consumer's step only moves that consumer in or out of Claiming.
LEMMA ClaimingMove ==
  ASSUME TypeInv, NEW c \in Consumer, NEW to, pc' = [pc EXCEPT ![c] = to]
  PROVE  /\ Posting' = Posting
         /\ c \in Claiming <=> pc[c] \in ClaimPC
         /\ to \in ClaimPC => Claiming' = Claiming \cup {c}
         /\ to \notin ClaimPC => Claiming' = Claiming \ {c}
  BY SemBufferAssumption DEF TypeInv, TypeOK, Posting, Claiming, Thread

LEMMA MainFull ==
  ASSUME TypeInv, MutexInv, ContentInv, FullInv,
         \/ MainStep \/ Kill \/ Rerun
         \/ \E t \in Thread \cup {Main} : Interrupt(t)
  PROVE  FullInv'
<1>1. CASE OpenSemaphores
  <2>1. Posting' = {} /\ Claiming' = {}
    BY <1>1 DEF OpenSemaphores, MutexInv, Posting, Claiming, PostPC, ClaimPC, Thread
  <2>2. main' = "create" /\ full' = 0 /\ Underway' = 0
    BY <1>1 DEF OpenSemaphores, MutexInv, FullInv, ring, Underway
  <2> QED
    BY <2>1, <2>2, FS_EmptySet DEF FullInv
<1>2. ASSUME NEW t \in Thread, CreateThread(t)
      PROVE  FullInv'
  <2>1. Posting' = Posting /\ Claiming' = Claiming
    BY <1>2, SemBufferAssumption
    DEF CreateThread, Posting, Claiming, PostPC, ClaimPC, Thread, TypeInv, TypeOK
  <2> QED
    BY <1>2, <2>1 DEF CreateThread, FullInv, Underway, proc, sems, ring
<1>3. ASSUME NEW t \in Thread \cup {Main}, Interrupt(t)
      PROVE  FullInv'
  BY <1>3 DEF Interrupt, FullInv, Posting, Claiming, Underway, sems, ring
<1>4. CASE Clean \/ Kill \/ Rerun
  BY <1>4 DEF Clean, Kill, Rerun, FullInv, ring
<1> QED
  BY <1>1, <1>2, <1>3, <1>4 DEF MainStep

LEMMA ProducerFull ==
  ASSUME TypeInv, MutexInv, FullInv, NEW p \in Producer, ProducerStep(p)
  PROVE  FullInv'
<1>1. main = "create" /\ main' \notin {"clean", "open"}
  <2>1. pc[p] # "none" /\ main # "gone" /\ main' \in {main, "gone"}
    BY DEF ProducerStep, WaitPlace, PostFull, Read, CheckEnd, WaitMutex, PutWord,
           AdvanceIn, PostMutex, Exit, Goto, proc
  <2> QED
    BY <2>1, StepperIsLive DEF Thread
<1>2. /\ full + Cardinality(Posting) + Cardinality(Claiming) = Underway
      /\ full \in Nat /\ Len(sent) \in Nat /\ Len(received) \in Nat
  BY <1>1 DEF FullInv, TypeInv, TypeOK
<1>3. CASE PutWord(p)
  <2>1. /\ pc[p] = "put" /\ pc' = [pc EXCEPT ![p] = "advance"]
        /\ full' = full /\ received' = received /\ sent' = Append(sent, produced[p])
    BY <1>3 DEF PutWord, Goto, sems
  <2>2. p \notin Posting /\ Posting' = Posting \cup {p} /\ Claiming' = Claiming
    BY <2>1, PostingMove DEF PostPC
  <2>3. Cardinality(Posting') = Cardinality(Posting) + 1
    BY <2>2, PostersFinite, CardinalityMove
  <2>4. Underway' = Underway + 1
    BY <1>2, <2>1 DEF Underway, TypeInv, TypeOK, HasWord
  <2> QED
    BY <1>1, <1>2, <2>1, <2>2, <2>3, <2>4, PostersFinite DEF FullInv
<1>4. CASE PostFull(p)
  <2>1. /\ pc[p] = "postFull" /\ pc' = [pc EXCEPT ![p] = "postMutex"]
        /\ full' = full + 1 /\ UNCHANGED ring
    BY <1>4 DEF PostFull, Goto, SemPost
  <2> DEFINE to == "postMutex"
  <2>0. pc[p] \in PostPC /\ to \notin PostPC /\ pc' = [pc EXCEPT ![p] = to]
    BY <2>1 DEF PostPC
  <2> HIDE DEF to
  <2>2. p \in Posting /\ Posting' = Posting \ {p} /\ Claiming' = Claiming
    BY <2>0, PostingMove
  <2>3. Cardinality(Posting') = Cardinality(Posting) - 1
    BY <2>2, PostersFinite, CardinalityMove
  <2>4. Underway' = Underway
    BY <2>1 DEF Underway, ring
  <2> QED
    BY <1>1, <1>2, <2>1, <2>2, <2>3, <2>4, PostersFinite DEF FullInv
<1>5. CASE \/ Read(p) \/ CheckEnd(p) \/ WaitPlace(p) \/ WaitMutex(p)
           \/ AdvanceIn(p) \/ PostMutex(p) \/ Exit(p)
  <2>1. PICK to : /\ pc' = [pc EXCEPT ![p] = to]
                  /\ to \in PostPC <=> pc[p] \in PostPC
    BY <1>5, SemBufferAssumption
    DEF Read, CheckEnd, WaitPlace, WaitMutex, AdvanceIn, PostMutex, Exit, Goto, PostPC
  <2>2. Posting' = Posting /\ Claiming' = Claiming
    BY <2>1, PostingMove
  <2>3. full' = full /\ sent' = sent /\ received' = received
    BY <1>5
    DEF Read, CheckEnd, WaitPlace, WaitMutex, AdvanceIn, PostMutex, Exit, sems, ring
  <2> QED
    BY <1>1, <1>2, <2>2, <2>3 DEF FullInv, Underway
<1> QED
  BY <1>3, <1>4, <1>5 DEF ProducerStep

LEMMA ConsumerFull ==
  ASSUME TypeInv, MutexInv, ContentInv, FullInv, NEW c \in Consumer, ConsumerStep(c)
  PROVE  FullInv'
<1>1. main = "create" /\ main' \notin {"clean", "open"}
  <2>1. pc[c] # "none" /\ main # "gone" /\ main' \in {main, "gone"}
    BY DEF ConsumerStep, WaitFull, PostPlace, CheckLoop, WaitMutex, TakeWord,
           ClearSlot, AdvanceOut, PostMutex, Goto, proc
  <2> QED
    BY <2>1, StepperIsLive DEF Thread
<1>2. /\ full + Cardinality(Posting) + Cardinality(Claiming) = Underway
      /\ full \in Nat /\ Len(sent) \in Nat /\ Len(received) \in Nat
  BY <1>1 DEF FullInv, TypeInv, TypeOK
<1>3. CASE WaitFull(c)
  <2>1. /\ pc[c] = "waitFull" /\ pc' = [pc EXCEPT ![c] = "waitMutex"]
        /\ full > 0 /\ full' = full - 1 /\ UNCHANGED ring
    BY <1>3 DEF WaitFull, Goto, SemWait
  <2>2. c \notin Claiming /\ Claiming' = Claiming \cup {c} /\ Posting' = Posting
    BY <2>1, ClaimingMove DEF ClaimPC
  <2>3. Cardinality(Claiming') = Cardinality(Claiming) + 1
    BY <2>2, PostersFinite, CardinalityMove
  <2>4. Underway' = Underway
    BY <2>1 DEF Underway, ring
  <2> QED
    BY <1>1, <1>2, <2>1, <2>2, <2>3, <2>4, PostersFinite DEF FullInv
<1>4. CASE TakeWord(c)
  <2>1. /\ pc[c] = "take" /\ pc' = [pc EXCEPT ![c] = "clear"]
        /\ full' = full /\ sent' = sent
    BY <1>4 DEF TakeWord, Goto, sems
  <2>2. buffer[out] \in Word /\ received' = Append(received, buffer[out])
    BY <1>4, <2>1, NextWord, SemBufferAssumption DEF TakeWord
  <2> DEFINE to == "clear"
  <2>0. pc[c] \in ClaimPC /\ to \notin ClaimPC /\ pc' = [pc EXCEPT ![c] = to]
    BY <2>1 DEF ClaimPC
  <2> HIDE DEF to
  <2>3. c \in Claiming /\ Claiming' = Claiming \ {c} /\ Posting' = Posting
    BY <2>0, ClaimingMove
  <2>4. Cardinality(Claiming') = Cardinality(Claiming) - 1
    BY <2>3, PostersFinite, CardinalityMove
  <2>5. Underway' = Underway - 1
    BY <1>2, <2>1, <2>2 DEF Underway, TypeInv, TypeOK
  <2> QED
    BY <1>1, <1>2, <2>1, <2>3, <2>4, <2>5, PostersFinite DEF FullInv
<1>5. CASE \/ CheckLoop(c) \/ WaitMutex(c) \/ ClearSlot(c) \/ AdvanceOut(c)
           \/ PostMutex(c) \/ PostPlace(c)
  <2>1. PICK to : /\ pc' = [pc EXCEPT ![c] = to]
                  /\ to \in ClaimPC <=> pc[c] \in ClaimPC
    BY <1>5, SemBufferAssumption
    DEF CheckLoop, WaitMutex, ClearSlot, AdvanceOut, PostMutex, PostPlace, Goto, ClaimPC
  <2>2. Posting' = Posting /\ Claiming' = Claiming
    BY <2>1, ClaimingMove
  <2>3. full' = full /\ sent' = sent /\ received' = received
    BY <1>5
    DEF CheckLoop, WaitMutex, ClearSlot, AdvanceOut, PostMutex, PostPlace, sems, ring
  <2> QED
    BY <1>1, <1>2, <2>2, <2>3 DEF FullInv, Underway
<1> QED
  BY <1>3, <1>4, <1>5 DEF ConsumerStep

(* From "out" on the slots hold the words sent and not yet received in their *)
(* order, the rest of the ring is empty and starts at "in", and whoever is   *)
(* about to write or read finds room or a word.                              *)
THEOREM RingHoldsWords == Spec => [](ContentInv /\ FullInv)
<1> DEFINE Inv == TypeInv /\ MutexInv /\ SemAccounting
<1>1. Init => ContentInv /\ FullInv
  <2>1. Init => Fresh
    BY DEF Init, Fresh
  <2>2. Init => FullInv
    BY DEF Init, FullInv
  <2> QED
    BY <2>1, <2>2, FreshContent
<1>2. Inv /\ ContentInv /\ FullInv /\ [Next]_vars => (ContentInv /\ FullInv)'
  <2> SUFFICES ASSUME Inv, ContentInv, FullInv, [Next]_vars
               PROVE  ContentInv' /\ FullInv'
    OBVIOUS
  <2>1. CASE Next
    BY <2>1, MainContent, ProducerContent, ConsumerContent, MainFull, ProducerFull,
       ConsumerFull
    DEF Next
  <2>2. CASE UNCHANGED vars
    <3>1. ContentInv'
      BY <2>2
      DEF vars, ring, ContentInv, IndicesAgree, SlotsAgree, RoomAndWord, Underway,
          HalfPut, HalfTaken
    <3>2. FullInv'
      BY <2>2 DEF vars, proc, sems, ring, FullInv, Posting, Claiming, Underway
    <3> QED
      BY <3>1, <3>2
  <2> QED
    BY <2>1, <2>2
<1>3. Spec => []Inv
  BY TypeCorrect, RingIsExclusive, SlotsAddUp, PTL
<1> QED
  BY <1>1, <1>2, <1>3, PTL DEF Spec

(* A producer never overwrites a word nobody has taken, and a consumer never *)
(* copies from an empty slot.                                                *)
THEOREM SlotDisciplineHolds == Spec => []SlotDiscipline
<1>1. TypeInv /\ MutexInv /\ ContentInv => SlotDiscipline
  <2> SUFFICES ASSUME TypeInv, MutexInv, ContentInv
               PROVE  SlotDiscipline
    OBVIOUS
  <2>1. ASSUME NEW p \in Producer, pc[p] = "put"
        PROVE  buffer[in] = NULL
    <3>1. HalfPut = 0 /\ HalfTaken = 0
      BY <2>1 DEF HalfPut, HalfTaken, MutexInv, MutualExclusion, InRing, Thread
    <3>2. Underway \in 0 .. Length - 1 /\ Length \in Nat /\ out \in Nat
      BY <2>1, <3>1, SemBufferAssumption
      DEF ContentInv, IndicesAgree, RoomAndWord, TypeInv, TypeOK, Slot
    <3>3. out + HalfTaken + Underway - HalfPut = out + Underway
      BY <3>1, <3>2
    <3>4. Underway \in HalfTaken + Underway .. Length - 1
      BY <3>1, <3>2
    <3> QED
      BY <3>3, <3>4 DEF ContentInv, IndicesAgree, SlotsAgree
  <2>2. ASSUME NEW c \in Consumer, pc[c] = "take"
        PROVE  buffer[out] # NULL
    BY <2>2, NextWord, SemBufferAssumption
  <2> QED
    BY <2>1, <2>2 DEF SlotDiscipline
<1> QED
  BY <1>1, TypeCorrect, RingIsExclusive, RingHoldsWords, PTL

(* Every step on the ring is a step of a bounded FIFO channel, or changes    *)
(* neither the words sent nor the words received: words leave in the order   *)
(* they came in, none is lost or doubled while the process lives, and never  *)
(* more than Length are underway.                                            *)
THEOREM ChannelImplemented == Spec => ImplementsChannel
<1> DEFINE Inv == TypeInv /\ MutexInv /\ ContentInv
<1>1. Init => Channel!Init
  BY DEF Init, Channel!Init
<1>2. Inv /\ [Next]_vars => [Channel!Next]_(Channel!vars)
  <2> SUFFICES ASSUME Inv, [Next]_vars
               PROVE  [Channel!Next]_(Channel!vars)
    OBVIOUS
  <2>1. ASSUME NEW p \in Producer, PutWord(p)
        PROVE  Channel!Next
    <3>1. pc[p] = "put" /\ sent' = Append(sent, produced[p]) /\ received' = received
      BY <2>1 DEF PutWord, Goto
    <3>2. produced[p] \in Word
      BY <3>1 DEF TypeInv, HasWord
    <3>3. Len(sent) - Len(received) < Length
      BY <3>1 DEF ContentInv, RoomAndWord, Underway
    <3> QED
      BY <3>1, <3>2, <3>3 DEF Channel!Next, Channel!Put
  <2>2. ASSUME NEW c \in Consumer, TakeWord(c)
        PROVE  Channel!Next
    <3>1. pc[c] = "take" /\ sent' = sent
      BY <2>2 DEF TakeWord, Goto
    <3>2. /\ buffer[out] = sent[Len(received) + 1] /\ buffer[out] # NULL
          /\ Len(received) < Len(sent)
      BY <3>1, NextWord, SemBufferAssumption
    <3>3. received' = Append(received, buffer[out])
      BY <2>2, <3>2 DEF TakeWord
    <3> QED
      BY <3>1, <3>2, <3>3 DEF Channel!Next, Channel!Get
  <2>3. CASE Rerun
    BY <2>3 DEF Rerun, Channel!Next, Channel!Rerun
  <2>4. CASE MainStep \/ Kill \/ \E t \in Thread \cup {Main} : Interrupt(t)
    BY <2>4 DEF MainStep, Clean, OpenSemaphores, CreateThread, Kill, Interrupt, ring,
                Channel!vars
  <2>5. ASSUME NEW p \in Producer, ProducerStep(p), ~ PutWord(p)
        PROVE  UNCHANGED Channel!vars
    BY <2>5 DEF ProducerStep, Read, CheckEnd, WaitPlace, WaitMutex, AdvanceIn,
                PostFull, PostMutex, Exit, ring, Channel!vars
  <2>6. ASSUME NEW c \in Consumer, ConsumerStep(c), ~ TakeWord(c)
        PROVE  UNCHANGED Channel!vars
    BY <2>6 DEF ConsumerStep, CheckLoop, WaitFull, WaitMutex, ClearSlot, AdvanceOut,
                PostMutex, PostPlace, ring, Channel!vars
  <2>7. CASE UNCHANGED vars
    BY <2>7 DEF vars, ring, Channel!vars
  <2> QED
    BY <2>1, <2>2, <2>3, <2>4, <2>5, <2>6, <2>7 DEF Next
<1>3. Spec => []Inv
  BY TypeCorrect, RingIsExclusive, RingHoldsWords, PTL
<1> QED
  BY <1>1, <1>2, <1>3, PTL DEF Spec, ImplementsChannel, Channel!Spec
-------------------------------------------------------------------------------
(* The words of the text: still in the file, or in the hands of a producer   *)
(* (which keeps the last one when it returned), or sent.                     *)
CarriedPC == {"check", "waitPlace", "waitMutex", "put", "returned"}
Carried == {p \in Producer : pc[p] \in CarriedPC}

TextInv ==
  /\ Len(Text) = Len(unread) + Len(sent) + Cardinality(Carried)
  /\ \A p \in Producer : pc[p] = "exit" => unread = <<>>

LEMMA CarriedFinite == IsFiniteSet(Carried) /\ Cardinality(Carried) \in Nat
<1>1. Carried \subseteq Producer
  BY DEF Carried
<1> QED
  BY <1>1, SemBufferAssumption, FS_Subset, FS_CardinalityType

\* A producer's step only moves that producer in or out of Carried.
LEMMA CarriedMove ==
  ASSUME TypeInv, NEW p \in Producer, NEW to, pc' = [pc EXCEPT ![p] = to]
  PROVE  /\ p \in Carried <=> pc[p] \in CarriedPC
         /\ to \in CarriedPC => Carried' = Carried \cup {p}
         /\ to \notin CarriedPC => Carried' = Carried \ {p}
  BY SemBufferAssumption DEF TypeInv, TypeOK, Carried, Thread

\* At the start of a run all of the text is in the file.
LEMMA FreshText == pc = NoThreads /\ unread = Text /\ sent = <<>> => TextInv
<1> SUFFICES ASSUME pc = NoThreads, unread = Text, sent = <<>> PROVE TextInv
  OBVIOUS
<1>1. Carried = {}
  BY FreshType DEF Carried, CarriedPC, Thread
<1>2. Len(Text) \in Nat
  BY FreshType
<1> QED
  BY <1>1, <1>2, FS_EmptySet, FreshType DEF TextInv, Thread

LEMMA MainText ==
  ASSUME TypeInv, TextInv,
         \/ MainStep \/ Kill \/ Rerun
         \/ \E t \in Thread \cup {Main} : Interrupt(t)
  PROVE  TextInv'
<1>1. ASSUME NEW t \in Thread, CreateThread(t)
      PROVE  TextInv'
  <2>1. Carried' = Carried /\ \A p \in Producer : pc'[p] = "exit" => pc[p] = "exit"
    BY <1>1, SemBufferAssumption
    DEF CreateThread, Carried, CarriedPC, Thread, TypeInv, TypeOK
  <2> QED
    BY <1>1, <2>1 DEF CreateThread, TextInv, ring
<1>2. CASE Rerun
  <2>1. (pc = NoThreads /\ unread = Text /\ sent = <<>> => TextInv)'
    BY FreshText, PTL
  <2> QED
    BY <1>2, <2>1 DEF Rerun
<1>3. CASE \/ Clean \/ OpenSemaphores \/ Kill
           \/ \E t \in Thread \cup {Main} : Interrupt(t)
  BY <1>3 DEF Clean, OpenSemaphores, Kill, Interrupt, TextInv, Carried, ring
<1> QED
  BY <1>1, <1>2, <1>3 DEF MainStep

LEMMA ProducerText ==
  ASSUME TypeInv, TextInv, NEW p \in Producer, ProducerStep(p)
  PROVE  TextInv'
<1>1. /\ Len(unread) \in Nat /\ Len(sent) \in Nat
      /\ Len(Text) = Len(unread) + Len(sent) + Cardinality(Carried)
  BY DEF TextInv, TypeInv, TypeOK
<1>2. \A q \in Producer : q # p => pc'[q] = pc[q]
  BY DEF ProducerStep, WaitPlace, PostFull, Read, CheckEnd, WaitMutex, PutWord,
         AdvanceIn, PostMutex, Exit, Goto, TypeInv, TypeOK, Thread
<1>3. CASE Read(p)
  <2>1. CASE unread = <<>>
    <3> DEFINE to == "exit"
    <3>1. /\ pc[p] \notin CarriedPC /\ to \notin CarriedPC /\ pc' = [pc EXCEPT ![p] = to]
          /\ unread' = unread /\ sent' = sent
      BY <1>3, <2>1 DEF Read, Goto, CarriedPC, ring
    <3> HIDE DEF to
    <3>2. Carried' = Carried
      BY <3>1, CarriedMove
    <3> QED
      BY <1>1, <2>1, <3>1, <3>2 DEF TextInv
  <2>2. CASE unread # <<>>
    <3>1. /\ pc[p] = "read" /\ pc' = [pc EXCEPT ![p] = "check"]
          /\ unread' = Tail(unread) /\ sent' = sent
      BY <1>3, <2>2 DEF Read, Goto, ring
    <3>2. p \notin Carried /\ Carried' = Carried \cup {p}
      BY <3>1, CarriedMove DEF CarriedPC
    <3>3. Cardinality(Carried') = Cardinality(Carried) + 1
      BY <3>2, CarriedFinite, CardinalityMove
    <3>4. Len(unread') = Len(unread) - 1 /\ Len(sent') = Len(sent)
      BY <2>2, <3>1 DEF TypeInv, TypeOK
    <3>5. pc'[p] # "exit"
      BY <3>1 DEF TypeInv, TypeOK
    <3>6. \A q \in Producer : pc'[q] # "exit"
      BY <1>2, <2>2, <3>5 DEF TextInv
    <3>7. Len(Text) = Len(unread') + Len(sent') + Cardinality(Carried')
      BY <1>1, <3>3, <3>4, CarriedFinite
    <3> QED
      BY <3>6, <3>7 DEF TextInv
  <2> QED
    BY <2>1, <2>2
<1>4. CASE PutWord(p)
  <2> DEFINE to == "advance"
  <2>1. /\ pc[p] \in CarriedPC /\ to \notin CarriedPC /\ pc' = [pc EXCEPT ![p] = to]
        /\ pc[p] = "put" /\ to # "exit"
        /\ unread' = unread /\ sent' = Append(sent, produced[p])
    BY <1>4 DEF PutWord, Goto, CarriedPC
  <2> HIDE DEF to
  <2>2. p \in Carried /\ Carried' = Carried \ {p}
    BY <2>1, CarriedMove
  <2>3. Cardinality(Carried') = Cardinality(Carried) - 1
    BY <2>2, CarriedFinite, CardinalityMove
  <2>4. Len(sent') = Len(sent) + 1
    BY <2>1 DEF TypeInv, TypeOK, HasWord
  <2>5. pc'[p] # "exit"
    BY <2>1 DEF TypeInv, TypeOK, Thread
  <2> QED
    BY <1>1, <1>2, <2>1, <2>3, <2>4, <2>5, CarriedFinite DEF TextInv
<1>5. CASE \/ CheckEnd(p) \/ WaitPlace(p) \/ WaitMutex(p) \/ AdvanceIn(p)
           \/ PostFull(p) \/ PostMutex(p) \/ Exit(p)
  <2>1. PICK to : /\ pc' = [pc EXCEPT ![p] = to]
                  /\ to \in CarriedPC <=> pc[p] \in CarriedPC
                  /\ to = "exit" => pc[p] = "exit"
    BY <1>5, SemBufferAssumption
    DEF CheckEnd, WaitPlace, WaitMutex, AdvanceIn, PostFull, PostMutex, Exit, Goto,
        CarriedPC
  <2>2. Carried' = Carried
    <3>1. to \in CarriedPC => p \in Carried /\ Carried' = Carried \cup {p}
      BY <2>1, CarriedMove
    <3>2. to \notin CarriedPC => p \notin Carried /\ Carried' = Carried \ {p}
      BY <2>1, CarriedMove
    <3> QED
      BY <3>1, <3>2
  <2>3. unread' = unread /\ sent' = sent
    BY <1>5
    DEF CheckEnd, WaitPlace, WaitMutex, AdvanceIn, PostFull, PostMutex, Exit, ring
  <2>4. pc'[p] = to
    BY <2>1 DEF TypeInv, TypeOK, Thread
  <2> QED
    BY <1>1, <1>2, <2>1, <2>2, <2>3, <2>4 DEF TextInv
<1> QED
  BY <1>3, <1>4, <1>5 DEF ProducerStep

LEMMA ConsumerText ==
  ASSUME TypeInv, TextInv, NEW c \in Consumer, ConsumerStep(c)
  PROVE  TextInv'
<1>1. unread' = unread /\ sent' = sent
  BY DEF ConsumerStep, WaitFull, PostPlace, CheckLoop, WaitMutex, TakeWord,
         ClearSlot, AdvanceOut, PostMutex, ring
<1>2. \A p \in Producer : pc'[p] = pc[p]
  BY SemBufferAssumption
  DEF ConsumerStep, WaitFull, PostPlace, CheckLoop, WaitMutex, TakeWord, ClearSlot,
      AdvanceOut, PostMutex, Goto, TypeInv, TypeOK, Thread
<1>3. Carried' = Carried
  BY <1>2 DEF Carried
<1> QED
  BY <1>1, <1>2, <1>3 DEF TextInv

(* No word of the text disappears before it is received, but the one each    *)
(* producer may hold: exit(1) at the end of the file loses at most a full    *)
(* ring and the words in the hands of the other producers.                   *)
THEOREM LossBoundHolds == Spec => []LossBound
<1>1. Init => TextInv
  BY FreshText DEF Init
<1>2. TypeInv /\ TextInv /\ [Next]_vars => TextInv'
  <2> SUFFICES ASSUME TypeInv, TextInv, [Next]_vars PROVE TextInv'
    OBVIOUS
  <2>1. CASE Next
    BY <2>1, MainText, ProducerText, ConsumerText DEF Next
  <2>2. CASE UNCHANGED vars
    BY <2>2 DEF vars, ring, TextInv, Carried
  <2> QED
    BY <2>1, <2>2
<1>3. TypeInv /\ ContentInv /\ TextInv => LossBound
  <2> SUFFICES ASSUME TypeInv, ContentInv, TextInv,
                      NEW p \in Producer, pc[p] = "exit"
               PROVE  Len(Text) - Len(received) <= Length + Cardinality(Producer) - 1
    BY DEF LossBound
  <2>1. /\ Len(Text) = Len(sent) + Cardinality(Carried)
        /\ Len(sent) \in Nat /\ Len(received) \in Nat
    BY CarriedFinite DEF TextInv, TypeInv, TypeOK
  <2>2. Cardinality(Carried) \in Nat /\ Cardinality(Carried) <= Cardinality(Producer) - 1
    <3>1. Carried \subseteq Producer \ {p}
      BY DEF Carried, CarriedPC
    <3>2. /\ IsFiniteSet(Producer \ {p})
          /\ Cardinality(Producer \ {p}) = Cardinality(Producer) - 1
      BY SemBufferAssumption, FS_RemoveElement
    <3> QED
      BY <3>1, <3>2, CarriedFinite, FS_Subset
  <2>3. Len(sent) - Len(received) <= Length
    BY SemBufferAssumption DEF ContentInv, IndicesAgree, Underway, HalfTaken
  <2> QED
    BY <2>1, <2>2, <2>3, SemBufferAssumption, FS_CardinalityType
<1> QED
  BY <1>1, <1>2, <1>3, TypeCorrect, RingHoldsWords, PTL DEF Spec
-------------------------------------------------------------------------------
(* A thread returns only after somebody has set "end", and whoever set it    *)
(* is still inside signalHandler.                                            *)
ReturnInv ==
  /\ end => handler # NULL
  /\ handler \in Thread => pc[handler] \notin {"none", "returned"}
  /\ \A t \in Thread : pc[t] = "returned" => end

(* With at least one thread, main() never gets past its pthread_joins: when  *)
(* all threads have returned, main() itself sits in signalHandler.           *)
THEOREM NeverJoinsAllHolds ==
  ASSUME Thread # {}
  PROVE  Spec => []NeverJoinsAll
<1>1. Init => ReturnInv
  BY FreshType, SemBufferAssumption DEF Init, ReturnInv
<1>2. TypeInv /\ ReturnInv /\ [Next]_vars => ReturnInv'
  <2> SUFFICES ASSUME TypeInv, ReturnInv, [Next]_vars PROVE ReturnInv'
    OBVIOUS
  <2> USE SemBufferAssumption DEF TypeInv, TypeOK, ReturnInv, Thread, proc
  <2>1. CASE Clean \/ OpenSemaphores \/ Kill \/ UNCHANGED vars
    BY <2>1 DEF Clean, OpenSemaphores, Kill, vars
  <2>2. ASSUME NEW t \in Thread, CreateThread(t) PROVE ReturnInv'
    BY <2>2 DEF CreateThread
  <2>3. ASSUME NEW t \in Thread \cup {Main}, Interrupt(t) PROVE ReturnInv'
    BY <2>3 DEF Interrupt
  <2>4. CASE Rerun
    BY <2>4, FreshType DEF Rerun
  <2>5. ASSUME NEW t \in Thread, NEW to,
               handler # t, pc[t] # "returned", to = "returned" => end, to # "none",
               pc' = [pc EXCEPT ![t] = to], UNCHANGED <<handler, end>>
        PROVE  ReturnInv'
    BY <2>5
  <2>6. ASSUME NEW p \in Producer, ProducerStep(p) PROVE ReturnInv'
    <3>1. PICK to : /\ handler # p /\ pc[p] # "returned" /\ pc' = [pc EXCEPT ![p] = to]
                    /\ (to = "returned" => end) /\ to # "none"
                    /\ UNCHANGED <<handler, end>>
      BY <2>6 DEF ProducerStep, Read, CheckEnd, WaitPlace, WaitMutex, PutWord, AdvanceIn,
                  PostFull, PostMutex, Exit, Goto
    <3> QED
      BY <2>5, <3>1
  <2>7. ASSUME NEW c \in Consumer, ConsumerStep(c) PROVE ReturnInv'
    <3>1. PICK to : /\ handler # c /\ pc[c] # "returned" /\ pc' = [pc EXCEPT ![c] = to]
                    /\ (to = "returned" => end) /\ to # "none"
                    /\ UNCHANGED <<handler, end>>
      BY <2>7 DEF ConsumerStep, CheckLoop, WaitFull, WaitMutex, TakeWord, ClearSlot,
                  AdvanceOut, PostMutex, PostPlace, Goto
    <3> QED
      BY <2>5, <3>1
  <2> QED
    BY <2>1, <2>2, <2>3, <2>4, <2>6, <2>7 DEF Next, MainStep
<1>3. TypeInv /\ ReturnInv => NeverJoinsAll
  BY DEF TypeInv, TypeOK, ReturnInv, NeverJoinsAll
<1> QED
  BY <1>1, <1>2, <1>3, TypeCorrect, PTL DEF Spec
===============================================================================
