--------------------------- MODULE CondBufferProofs ---------------------------
(***************************************************************************)
(* Theorems about CondBuffer, for every number of producers, consumers and *)
(* slots and for every text.                                               *)
(***************************************************************************)
EXTENDS CondBuffer, FiniteSetTheorems, TLAPS

(* What the type invariant needs to be inductive: the two kinds of thread    *)
(* keep to their own code, and a producer on its way to the ring has a word. *)
ProducerPC == PC \ {"loop", "take", "clear", "advanceOut", "decrement"}
ConsumerPC == PC \ {"read", "check", "exit", "put", "advanceIn", "increment"}
HandPC     == {"check", "lockGuard", "test", "wait", "asleep", "unlockGuard",
               "lockBuffer", "put"}

KindInv ==
  /\ \A p \in Producer : pc[p] \in ProducerPC
  /\ \A c \in Consumer : pc[c] \in ConsumerPC
  /\ \A p \in Producer : pc[p] \in HandPC => produced[p] \in Word

TypeInv == TypeOK /\ KindInv

(* Who holds which mutex.                                                    *)
GuardPC     == {"test", "wait", "unlockGuard"}
BufferPC    == {"put", "advanceIn", "increment", "take", "clear", "advanceOut",
                "decrement", "unlockBuffer"}
AnnouncedPC == {"broadcast", "unlockAnnounced"}

LockInv ==
  \A t \in Thread :
    /\ pc[t] \in GuardPC     => mutex[Guard(t)] = t
    /\ pc[t] \in BufferPC    => mutex["buffer"] = t
    /\ pc[t] \in AnnouncedPC => mutex[Announced(t)] = t
-------------------------------------------------------------------------------
LEMMA InitType == Init => TypeInv
<1> SUFFICES ASSUME Init PROVE TypeInv
  OBVIOUS
<1>1. TypeOK
  <2>1. /\ in \in Slot /\ out \in Slot /\ used \in Nat /\ unread \in Seq(Word)
        /\ sent \in Seq(Word) /\ received \in Seq(Word)
    BY CondBufferAssumption DEF Init, Slot
  <2>2. /\ mutex \in [Mutex -> Thread \cup {NULL}]
        /\ buffer \in [Slot -> Word \cup {NULL}]
        /\ pc \in [Thread -> PC]
        /\ produced \in [Producer -> Word \cup {NULL}]
        /\ handler \in BOOLEAN /\ end \in BOOLEAN
    BY DEF Init, PC
  <2> QED
    BY <2>1, <2>2 DEF Init, TypeOK
<1>2. KindInv
  BY DEF Init, KindInv, ProducerPC, ConsumerPC, HandPC, PC, Thread
<1> QED
  BY <1>1, <1>2 DEF TypeInv

\* The steps that move no thread, or one that is not in its code.
LEMMA OtherType ==
  ASSUME TypeInv,
         \/ \E t \in Thread : CreateThread(t) \/ SpuriousWakeup(t)
         \/ Interrupt \/ Kill \/ Ended
  PROVE  TypeInv'
<1> USE CondBufferAssumption
    DEF TypeInv, TypeOK, KindInv, Slot, Thread, ring, signal
<1>1. ASSUME NEW t \in Thread, CreateThread(t) PROVE TypeInv'
  BY <1>1 DEF CreateThread, ProducerPC, ConsumerPC, HandPC, PC
<1>2. ASSUME NEW t \in Thread, SpuriousWakeup(t) PROVE TypeInv'
  BY <1>2 DEF SpuriousWakeup, Goto, ProducerPC, ConsumerPC, HandPC, PC
<1>3. CASE Interrupt \/ Kill \/ Ended
  BY <1>3 DEF Interrupt, Kill, Ended, vars
<1> QED
  BY <1>1, <1>2, <1>3

\* The steps both kinds of thread have keep the types.
LEMMA SynchroniseType ==
  ASSUME TypeInv, NEW t \in Thread, Synchronise(t)
  PROVE  TypeInv'
<1> USE CondBufferAssumption
    DEF TypeInv, TypeOK, KindInv, Slot, Thread, ring, signal
<1>1. CASE Broadcast(t)
  <2>1. \A u \in Thread :
          /\ pc'[u] \in {pc[u], "unlockAnnounced", "lockGuard"}
          /\ pc'[u] = "lockGuard" => pc[u] \in {"lockGuard", "asleep"}
    BY <1>1 DEF Broadcast, Asleep
  <2>2. pc' \in [Thread -> PC]
    BY <1>1, <2>1 DEF Broadcast, PC
  <2>3. KindInv'
    BY <1>1, <2>1 DEF Broadcast, ProducerPC, ConsumerPC, HandPC, PC
  <2> QED
    BY <1>1, <2>2, <2>3 DEF Broadcast
<1>2. CASE ~ Broadcast(t)
  <2>1. /\ UNCHANGED <<proc, signal, ring, unread, produced>>
        /\ mutex' \in [Mutex -> Thread \cup {NULL}]
    BY <1>2
    DEF Synchronise, CheckEnd, LockGuard, Test, Wait, UnlockGuard, LockBuffer,
        UnlockBuffer, LockAnnounced, UnlockAnnounced, Lock, Unlock
  <2>2. PICK to \in PC :
          /\ pc' = [pc EXCEPT ![t] = to]
          /\ to \in HandPC => pc[t] \in HandPC \/ t \notin Producer
          /\ t \in Producer => to \in ProducerPC
          /\ t \in Consumer => to \in ConsumerPC
    BY <1>2
    DEF Synchronise, CheckEnd, LockGuard, Test, Wait, UnlockGuard, LockBuffer,
        UnlockBuffer, LockAnnounced, UnlockAnnounced, Goto, ProducerPC, ConsumerPC,
        HandPC, PC
  <2> QED
    BY <2>1, <2>2
<1> QED
  BY <1>1, <1>2

\* A producer's own steps keep the types.
LEMMA ProducerType ==
  ASSUME TypeInv, NEW p \in Producer,
         Read(p) \/ Exit(p) \/ PutWord(p) \/ AdvanceIn(p) \/ Increment(p)
  PROVE  TypeInv'
<1> USE CondBufferAssumption
    DEF TypeInv, TypeOK, KindInv, Slot, Thread, ring, signal, Goto
<1>1. CASE Read(p)
  <2>1. CASE unread = <<>>
    BY <1>1, <2>1 DEF Read, ProducerPC, ConsumerPC, HandPC, PC
  <2>2. CASE unread # <<>>
    <3>1. Head(unread) \in Word /\ Tail(unread) \in Seq(Word)
      BY <2>2
    <3>2. /\ unread' = Tail(unread)
          /\ produced' = [produced EXCEPT ![p] = Head(unread)]
          /\ pc' = [pc EXCEPT ![p] = "check"]
          /\ UNCHANGED <<proc, signal, mutex, ring>>
      BY <1>1, <2>2 DEF Read
    <3> QED
      BY <3>1, <3>2 DEF ProducerPC, ConsumerPC, HandPC, PC
  <2> QED
    BY <2>1, <2>2
<1>2. CASE Exit(p)
  BY <1>2 DEF Exit, ProducerPC, ConsumerPC, HandPC, PC
<1>3. CASE PutWord(p)
  <2>1. /\ pc[p] = "put" /\ produced[p] \in Word
        /\ pc' = [pc EXCEPT ![p] = "advanceIn"]
        /\ buffer' = [buffer EXCEPT ![in] = produced[p]]
        /\ sent' = Append(sent, produced[p])
        /\ UNCHANGED <<proc, signal, mutex, in, out, used, received, unread, produced>>
    BY <1>3 DEF PutWord, HandPC
  <2> QED
    BY <2>1 DEF ProducerPC, ConsumerPC, HandPC, PC
<1>4. CASE AdvanceIn(p)
  BY <1>4 DEF AdvanceIn, ProducerPC, ConsumerPC, HandPC, PC
<1>5. CASE Increment(p)
  BY <1>5 DEF Increment, ProducerPC, ConsumerPC, HandPC, PC
<1> QED
  BY <1>1, <1>2, <1>3, <1>4, <1>5

\* A consumer's own steps keep the types, as long as "used" does not fall below 0.
LEMMA ConsumerType ==
  ASSUME TypeInv, NEW c \in Consumer, used' \in Nat,
         TakeWord(c) \/ ClearSlot(c) \/ AdvanceOut(c) \/ Decrement(c)
  PROVE  TypeInv'
<1> USE CondBufferAssumption
    DEF TypeInv, TypeOK, KindInv, Slot, Thread, ring, signal, Goto
<1>1. CASE TakeWord(c)
  <2>1. received' \in Seq(Word)
    <3>1. CASE buffer[out] = NULL
      BY <1>1, <3>1 DEF TakeWord
    <3>2. CASE buffer[out] # NULL
      <4>1. buffer[out] \in Word /\ received' = Append(received, buffer[out])
        BY <1>1, <3>2 DEF TakeWord
      <4> QED
        BY <4>1
    <3> QED
      BY <3>1, <3>2
  <2>2. proc' \in {proc, "crashed"}
    BY <1>1 DEF TakeWord
  <2> QED
    BY <1>1, <2>1, <2>2 DEF TakeWord, ProducerPC, ConsumerPC, HandPC, PC
<1>2. CASE ClearSlot(c)
  BY <1>2 DEF ClearSlot, ProducerPC, ConsumerPC, HandPC, PC
<1>3. CASE AdvanceOut(c)
  BY <1>3 DEF AdvanceOut, ProducerPC, ConsumerPC, HandPC, PC
<1>4. CASE Decrement(c)
  BY <1>4 DEF Decrement, ProducerPC, ConsumerPC, HandPC, PC
<1> QED
  BY <1>1, <1>2, <1>3, <1>4
-------------------------------------------------------------------------------
(* Mutexes.                                                                  *)
LEMMA InitLock == Init => LockInv
  BY DEF Init, LockInv, GuardPC, BufferPC, AnnouncedPC

\* Whoever takes or gives back a mutex was, or is, the one who holds it.
LEMMA SynchroniseLock ==
  ASSUME TypeInv, LockInv, NEW t \in Thread, Synchronise(t)
  PROVE  LockInv'
<1> USE CondBufferAssumption
    DEF TypeInv, TypeOK, LockInv, Mutex, Guard, Announced, GuardPC, BufferPC,
        AnnouncedPC, Goto, Lock, Unlock
<1>1. CASE CheckEnd(t)
  BY <1>1 DEF CheckEnd
<1>2. CASE LockGuard(t)
  BY <1>2 DEF LockGuard
<1>3. CASE Test(t)
  BY <1>3 DEF Test
<1>4. CASE Wait(t)
  BY <1>4 DEF Wait
<1>5. CASE UnlockGuard(t)
  BY <1>5 DEF UnlockGuard
<1>6. CASE LockBuffer(t)
  BY <1>6 DEF LockBuffer
<1>7. CASE UnlockBuffer(t)
  BY <1>7 DEF UnlockBuffer
<1>8. CASE LockAnnounced(t)
  BY <1>8 DEF LockAnnounced
<1>9. CASE Broadcast(t)
  BY <1>9 DEF Broadcast, Asleep
<1>10. CASE UnlockAnnounced(t)
  BY <1>10 DEF UnlockAnnounced
<1> QED
  BY <1>1, <1>2, <1>3, <1>4, <1>5, <1>6, <1>7, <1>8, <1>9, <1>10 DEF Synchronise

\* All other steps leave the mutexes alone.
LEMMA OtherLock ==
  ASSUME TypeInv, LockInv,
         \/ \E t \in Thread : CreateThread(t) \/ SpuriousWakeup(t)
         \/ Interrupt \/ Kill \/ Ended
         \/ \E p \in Producer :
              Read(p) \/ Exit(p) \/ PutWord(p) \/ AdvanceIn(p) \/ Increment(p)
         \/ \E c \in Consumer :
              TakeWord(c) \/ ClearSlot(c) \/ AdvanceOut(c) \/ Decrement(c)
  PROVE  LockInv'
<1> USE DEF TypeInv, TypeOK, LockInv, GuardPC, BufferPC, AnnouncedPC, Goto
<1>1. CASE Interrupt \/ Kill \/ Ended
  BY <1>1 DEF Interrupt, Kill, Ended, vars
<1>2. ASSUME NEW t \in Thread, CreateThread(t) \/ SpuriousWakeup(t) PROVE LockInv'
  BY <1>2 DEF CreateThread, SpuriousWakeup
<1>3. ASSUME NEW p \in Producer,
             Read(p) \/ Exit(p) \/ PutWord(p) \/ AdvanceIn(p) \/ Increment(p)
      PROVE  LockInv'
  BY <1>3 DEF Read, Exit, PutWord, AdvanceIn, Increment, Thread
<1>4. ASSUME NEW c \in Consumer,
             TakeWord(c) \/ ClearSlot(c) \/ AdvanceOut(c) \/ Decrement(c)
      PROVE  LockInv'
  BY <1>4 DEF TakeWord, ClearSlot, AdvanceOut, Decrement, Thread
<1> QED
  BY <1>1, <1>2, <1>3, <1>4
-------------------------------------------------------------------------------
(* The counter and the indices.  Between the statements of a put or a take   *)
(* they are behind by one.                                                   *)
If(condition)    == IF condition THEN 1 ELSE 0
SomeAt(T, label) == If(\E t \in T : pc[t] \in label)

HalfIn    == SomeAt(Producer, {"advanceIn"})
HalfPut   == SomeAt(Producer, {"advanceIn", "increment"})
HalfClear == SomeAt(Consumer, {"clear"})
HalfOut   == SomeAt(Consumer, {"clear", "advanceOut"})
HalfTaken == SomeAt(Consumer, {"clear", "advanceOut", "decrement"})

Filled == {s \in Slot : buffer[s] # NULL}

CountersAgree ==
  /\ used = Len(sent) - HalfPut - (Len(received) - HalfTaken)
  /\ in = (Len(sent) - HalfIn) % Length
  /\ out = (Len(received) - HalfOut) % Length
  /\ HalfPut <= Len(sent) - Len(received) /\ HalfTaken <= Len(received)

\* A word is received only from a slot it filled, so there are never more words
\* received than sent, even when the ring is overrun.
FilledAgree ==
  /\ Cardinality(Filled) <= Len(sent) - Len(received) + HalfClear
  /\ \A c \in Consumer : pc[c] = "clear" => buffer[out] # NULL

\* A consumer that read an empty slot stays where it is, with bufferMutex.
CountersInv ==
  /\ proc # "crashed" => CountersAgree /\ FilledAgree
  /\ proc = "crashed" => \E c \in Consumer : pc[c] = "clear"

\* The index after n + 1 steps around the ring is the next of the one after n.
LEMMA NextIndex ==
  ASSUME NEW n \in Nat
  PROVE  (n + 1) % Length = ((n % Length) + 1) % Length
<1> DEFINE r == n % Length
           q == n \div Length
<1>1. Length \in Nat /\ Length > 0
  BY CondBufferAssumption
<1>2. n = Length * q + r /\ r \in 0 .. Length - 1 /\ q \in Nat
  BY <1>1
<1> HIDE DEF q, r
<1>3. (n + 1) % Length = (r + 1) % Length
  <2>1. CASE r + 1 < Length
    <3>1. n + 1 = Length * q + (r + 1)
      BY <1>1, <1>2
    <3> QED
      BY <1>1, <1>2, <2>1, <3>1
  <2>2. CASE r + 1 = Length
    <3>1. n + 1 = Length * (q + 1) + 0
      BY <1>1, <1>2, <2>2
    <3>2. (n + 1) % Length = 0 /\ (r + 1) % Length = 0
      BY <1>1, <1>2, <2>2, <3>1
    <3> QED
      BY <3>2
  <2> QED
    BY <1>1, <1>2, <2>1, <2>2
<1> QED
  BY <1>3 DEF r

LEMMA FilledFinite == IsFiniteSet(Filled) /\ Cardinality(Filled) \in Nat
<1>1. IsFiniteSet(Slot)
  BY CondBufferAssumption, FS_Interval DEF Slot
<1>2. Filled \subseteq Slot
  BY DEF Filled
<1> QED
  BY <1>1, <1>2, FS_Subset, FS_CardinalityType

\* A thread that holds bufferMutex is alone with the ring before and after its step.
LEMMA AloneInRing ==
  ASSUME TypeInv, LockInv, NEW t \in Thread, pc[t] \in BufferPC,
         NEW to, pc' = [pc EXCEPT ![t] = to]
  PROVE  /\ HalfIn    = If(t \in Producer /\ pc[t] \in {"advanceIn"})
         /\ HalfPut   = If(t \in Producer /\ pc[t] \in {"advanceIn", "increment"})
         /\ HalfClear = If(t \in Consumer /\ pc[t] \in {"clear"})
         /\ HalfOut   = If(t \in Consumer /\ pc[t] \in {"clear", "advanceOut"})
         /\ HalfTaken = If(t \in Consumer /\ pc[t] \in {"clear", "advanceOut", "decrement"})
         /\ HalfIn'    = If(t \in Producer /\ to \in {"advanceIn"})
         /\ HalfPut'   = If(t \in Producer /\ to \in {"advanceIn", "increment"})
         /\ HalfClear' = If(t \in Consumer /\ to \in {"clear"})
         /\ HalfOut'   = If(t \in Consumer /\ to \in {"clear", "advanceOut"})
         /\ HalfTaken' = If(t \in Consumer /\ to \in {"clear", "advanceOut", "decrement"})
         /\ \A u \in Thread : u # t => pc[u] \notin BufferPC /\ pc'[u] = pc[u]
         /\ pc'[t] = to
<1>1. \A u \in Thread : u # t => pc[u] \notin BufferPC /\ pc'[u] = pc[u]
  BY DEF LockInv, TypeInv, TypeOK
<1>2. pc'[t] = to
  BY DEF TypeInv, TypeOK
<1>3. \A u \in Thread : u # t => pc[u] \notin {"advanceIn", "increment", "clear", "advanceOut", "decrement"}
  BY <1>1 DEF BufferPC
<1> QED
  BY <1>1, <1>2, <1>3, CondBufferAssumption
  DEF HalfIn, HalfPut, HalfClear, HalfOut, HalfTaken, SomeAt, If, Thread

\* A step that is not between the statements of a put or a take.
HalfPC == {"advanceIn", "increment", "clear", "advanceOut", "decrement"}

LEMMA QuietCounters ==
  ASSUME CountersInv, UNCHANGED ring, (proc' = "crashed") <=> (proc = "crashed"),
         \A t \in Thread : pc[t] \in HalfPC \/ pc'[t] \in HalfPC => pc'[t] = pc[t]
  PROVE  CountersInv'
<1>1. /\ HalfIn' = HalfIn /\ HalfPut' = HalfPut /\ HalfClear' = HalfClear
      /\ HalfOut' = HalfOut /\ HalfTaken' = HalfTaken
  BY DEF HalfIn, HalfPut, HalfClear, HalfOut, HalfTaken, SomeAt, If, HalfPC, Thread
<1>2. \A c \in Consumer : pc'[c] = "clear" <=> pc[c] = "clear"
  BY DEF HalfPC, Thread
<1> QED
  BY <1>1, <1>2 DEF CountersInv, CountersAgree, FilledAgree, Filled, ring

LEMMA InitCounters == Init => CountersInv
<1> SUFFICES ASSUME Init PROVE CountersInv
  OBVIOUS
<1>1. /\ HalfIn = 0 /\ HalfPut = 0 /\ HalfClear = 0 /\ HalfOut = 0 /\ HalfTaken = 0
      /\ \A t \in Thread : pc[t] = "none"
  BY DEF Init, HalfIn, HalfPut, HalfClear, HalfOut, HalfTaken, SomeAt, If, Thread
<1>2. Filled = {}
  BY DEF Init, Filled
<1>3. Len(sent) = 0 /\ Len(received) = 0 /\ used = 0 /\ in = 0 /\ out = 0
  BY DEF Init
<1>4. CountersAgree
  BY <1>1, <1>3, CondBufferAssumption DEF CountersAgree
<1>5. FilledAgree
  BY <1>1, <1>2, <1>3, FS_EmptySet DEF FilledAgree, Thread
<1> QED
  BY <1>4, <1>5 DEF CountersInv, Init

LEMMA OtherCounters ==
  ASSUME TypeInv, CountersInv,
         \/ \E t \in Thread : CreateThread(t) \/ SpuriousWakeup(t) \/ Synchronise(t)
         \/ Interrupt \/ Kill \/ Ended
         \/ \E p \in Producer : Read(p) \/ Exit(p)
  PROVE  CountersInv'
<1> USE DEF TypeInv, TypeOK, HalfPC, Goto
<1>1. CASE Interrupt \/ Kill \/ Ended
  BY <1>1, QuietCounters DEF Interrupt, Kill, Ended, vars
<1>2. ASSUME NEW t \in Thread, CreateThread(t) \/ SpuriousWakeup(t)
      PROVE  CountersInv'
  BY <1>2, QuietCounters DEF CreateThread, SpuriousWakeup
<1>3. ASSUME NEW t \in Thread, Broadcast(t)
      PROVE  CountersInv'
  BY <1>3, QuietCounters DEF Broadcast, Asleep
<1>4. ASSUME NEW t \in Thread, Synchronise(t), ~ Broadcast(t)
      PROVE  CountersInv'
  <2>1. UNCHANGED <<proc, ring>>
    BY <1>4
    DEF Synchronise, CheckEnd, LockGuard, Test, Wait, UnlockGuard, LockBuffer,
        UnlockBuffer, LockAnnounced, UnlockAnnounced
  <2>2. PICK to : pc' = [pc EXCEPT ![t] = to] /\ pc[t] \notin HalfPC /\ to \notin HalfPC
    BY <1>4
    DEF Synchronise, CheckEnd, LockGuard, Test, Wait, UnlockGuard, LockBuffer,
        UnlockBuffer, LockAnnounced, UnlockAnnounced
  <2> QED
    BY <2>1, <2>2, QuietCounters
<1>5. ASSUME NEW p \in Producer, Read(p) \/ Exit(p)
      PROVE  CountersInv'
  BY <1>5, QuietCounters DEF Read, Exit, Thread
<1> QED
  BY <1>1, <1>2, <1>3, <1>4, <1>5

LEMMA ProducerCounters ==
  ASSUME TypeInv, LockInv, CountersInv, NEW p \in Producer,
         PutWord(p) \/ AdvanceIn(p) \/ Increment(p)
  PROVE  CountersInv'
<1> USE CondBufferAssumption DEF Thread
<1>1. /\ Len(sent) \in Nat /\ Len(received) \in Nat /\ proc = "running" /\ proc' = proc
      /\ CountersAgree /\ FilledAgree
  BY DEF TypeInv, TypeOK, CountersInv, PutWord, AdvanceIn, Increment, Goto
<1>2. CASE PutWord(p)
  <2>1. /\ pc[p] = "put" /\ pc' = [pc EXCEPT ![p] = "advanceIn"]
        /\ buffer' = [buffer EXCEPT ![in] = produced[p]]
        /\ sent' = Append(sent, produced[p])
        /\ UNCHANGED <<in, out, used, received>>
    BY <1>2 DEF PutWord, Goto
  <2>2. /\ HalfIn = 0 /\ HalfPut = 0 /\ HalfClear = 0 /\ HalfOut = 0 /\ HalfTaken = 0
        /\ HalfIn' = 1 /\ HalfPut' = 1 /\ HalfClear' = 0 /\ HalfOut' = 0 /\ HalfTaken' = 0
        /\ \A u \in Thread : u # p => pc[u] \notin BufferPC /\ pc'[u] = pc[u]
        /\ pc'[p] = "advanceIn"
    BY <2>1, AloneInRing DEF BufferPC, If
  <2>3. Len(sent') = Len(sent) + 1 /\ produced[p] \in Word
    BY <2>1 DEF TypeInv, TypeOK, KindInv, HandPC
  <2>4. CountersAgree'
    <3>1. in = Len(sent) % Length /\ Len(sent') - HalfIn' = Len(sent)
      BY <1>1, <2>2, <2>3 DEF CountersAgree
    <3> QED
      BY <1>1, <2>1, <2>2, <2>3, <3>1 DEF CountersAgree
  <2>5. FilledAgree'
    <3>1. Filled' = Filled \cup {in}
      BY <2>1, <2>3 DEF Filled, TypeInv, TypeOK
    <3>2. Cardinality(Filled \cup {in}) \in {Cardinality(Filled), Cardinality(Filled) + 1}
      <4>1. CASE in \in Filled
        <5>1. Filled \cup {in} = Filled
          BY <4>1
        <5> QED
          BY <5>1
      <4>2. CASE in \notin Filled
        BY <4>2, FilledFinite, FS_AddElement
      <4> QED
        BY <4>1, <4>2
    <3>3. \A c \in Consumer : pc'[c] # "clear"
      BY <2>2 DEF BufferPC
    <3>4. Cardinality(Filled') <= Len(sent') - Len(received') + HalfClear'
      BY <1>1, <2>1, <2>2, <2>3, <3>1, <3>2, FilledFinite DEF FilledAgree
    <3> QED
      BY <3>3, <3>4 DEF FilledAgree
  <2> QED
    BY <1>1, <2>4, <2>5 DEF CountersInv
<1>3. CASE AdvanceIn(p)
  <2>1. /\ pc[p] = "advanceIn" /\ pc' = [pc EXCEPT ![p] = "increment"]
        /\ in' = (in + 1) % Length
        /\ UNCHANGED <<buffer, out, used, sent, received>>
    BY <1>3 DEF AdvanceIn, Goto
  <2>2. /\ HalfIn = 1 /\ HalfPut = 1 /\ HalfClear = 0 /\ HalfOut = 0 /\ HalfTaken = 0
        /\ HalfIn' = 0 /\ HalfPut' = 1 /\ HalfClear' = 0 /\ HalfOut' = 0 /\ HalfTaken' = 0
        /\ \A u \in Thread : u # p => pc[u] \notin BufferPC /\ pc'[u] = pc[u]
        /\ pc'[p] = "increment"
    BY <2>1, AloneInRing DEF BufferPC, If
  <2>3. in' = Len(sent) % Length
    <3>1. Len(sent) - 1 \in Nat /\ in = (Len(sent) - 1) % Length
      BY <1>1, <2>2 DEF CountersAgree
    <3>2. ((Len(sent) - 1) + 1) % Length = (((Len(sent) - 1) % Length) + 1) % Length
      BY <3>1, NextIndex
    <3>3. (Len(sent) - 1) + 1 = Len(sent)
      BY <1>1
    <3> QED
      BY <2>1, <3>1, <3>2, <3>3
  <2>4. CountersAgree'
    <3>1. Len(sent') - HalfIn' = Len(sent)
      BY <1>1, <2>1, <2>2
    <3> QED
      BY <1>1, <2>1, <2>2, <2>3, <3>1 DEF CountersAgree
  <2>5. FilledAgree'
    <3>1. \A c \in Consumer : pc'[c] # "clear"
      BY <2>2 DEF BufferPC
    <3>2. Filled' = Filled
      BY <2>1 DEF Filled
    <3> QED
      BY <1>1, <2>1, <2>2, <3>1, <3>2 DEF FilledAgree
  <2> QED
    BY <1>1, <2>4, <2>5 DEF CountersInv
<1>4. CASE Increment(p)
  <2>1. /\ pc[p] = "increment" /\ pc' = [pc EXCEPT ![p] = "unlockBuffer"]
        /\ used' = used + 1
        /\ UNCHANGED <<buffer, in, out, sent, received>>
    BY <1>4 DEF Increment, Goto
  <2>2. /\ HalfIn = 0 /\ HalfPut = 1 /\ HalfClear = 0 /\ HalfOut = 0 /\ HalfTaken = 0
        /\ HalfIn' = 0 /\ HalfPut' = 0 /\ HalfClear' = 0 /\ HalfOut' = 0 /\ HalfTaken' = 0
        /\ \A u \in Thread : u # p => pc[u] \notin BufferPC /\ pc'[u] = pc[u]
        /\ pc'[p] = "unlockBuffer"
    BY <2>1, AloneInRing DEF BufferPC, If
  <2>3. CountersAgree'
    BY <1>1, <2>1, <2>2 DEF CountersAgree
  <2>4. FilledAgree'
    <3>1. \A c \in Consumer : pc'[c] # "clear"
      BY <2>2 DEF BufferPC
    <3>2. Filled' = Filled
      BY <2>1 DEF Filled
    <3> QED
      BY <1>1, <2>1, <2>2, <3>1, <3>2 DEF FilledAgree
  <2> QED
    BY <1>1, <2>3, <2>4 DEF CountersInv
<1> QED
  BY <1>2, <1>3, <1>4

LEMMA ConsumerCounters ==
  ASSUME TypeInv, LockInv, CountersInv, NEW c \in Consumer,
         TakeWord(c) \/ ClearSlot(c) \/ AdvanceOut(c) \/ Decrement(c)
  PROVE  CountersInv' /\ used' \in Nat
<1> USE CondBufferAssumption DEF Thread
<1>1. /\ Len(sent) \in Nat /\ Len(received) \in Nat /\ proc = "running"
      /\ CountersAgree /\ FilledAgree /\ used \in Nat
  BY DEF TypeInv, TypeOK, CountersInv, TakeWord, ClearSlot, AdvanceOut, Decrement, Goto
<1>2. CASE TakeWord(c)
  <2>1. /\ pc[c] = "take" /\ pc' = [pc EXCEPT ![c] = "clear"]
        /\ UNCHANGED <<buffer, in, out, used, sent>>
    BY <1>2 DEF TakeWord, Goto
  <2>2. /\ HalfIn = 0 /\ HalfPut = 0 /\ HalfClear = 0 /\ HalfOut = 0 /\ HalfTaken = 0
        /\ HalfIn' = 0 /\ HalfPut' = 0 /\ HalfClear' = 1 /\ HalfOut' = 1 /\ HalfTaken' = 1
        /\ \A u \in Thread : u # c => pc[u] \notin BufferPC /\ pc'[u] = pc[u]
        /\ pc'[c] = "clear"
    BY <2>1, AloneInRing DEF BufferPC, If
  <2>3. CASE buffer[out] = NULL
    <3>1. proc' = "crashed"
      BY <1>2, <2>3 DEF TakeWord
    <3> QED
      BY <1>1, <2>1, <2>2, <3>1 DEF CountersInv
  <2>4. CASE buffer[out] # NULL
    <3>1. received' = Append(received, buffer[out]) /\ buffer[out] \in Word
      BY <1>2, <2>4 DEF TakeWord, TypeInv, TypeOK
    <3>2. Len(received') = Len(received) + 1
      BY <3>1 DEF TypeInv, TypeOK
    <3>3. Filled' = Filled /\ Cardinality(Filled) > 0
      <4>1. out \in Filled
        BY <2>4 DEF Filled, TypeInv, TypeOK
      <4>2. Cardinality(Filled) # 0
        BY <4>1, FilledFinite, FS_EmptySet
      <4> QED
        BY <2>1, <4>2, FilledFinite DEF Filled
    <3>4. CountersAgree'
      <4>1. Len(received') - HalfOut' = Len(received) - HalfOut
        BY <1>1, <2>2, <3>2
      <4>2. Len(sent') - HalfIn' = Len(sent) - HalfIn
        BY <2>1, <2>2
      <4>3. /\ used' = Len(sent') - HalfPut' - (Len(received') - HalfTaken')
            /\ HalfPut' <= Len(sent') - Len(received') /\ HalfTaken' <= Len(received')
        BY <1>1, <2>1, <2>2, <3>2, <3>3, FilledFinite DEF CountersAgree, FilledAgree
      <4> QED
        BY <1>1, <2>1, <4>1, <4>2, <4>3 DEF CountersAgree
    <3>5. FilledAgree'
      <4>1. \A d \in Consumer : pc'[d] = "clear" => buffer'[out'] # NULL
        BY <2>1, <2>4
      <4>2. Cardinality(Filled') <= Len(sent') - Len(received') + HalfClear'
        BY <1>1, <2>1, <2>2, <3>2, <3>3, FilledFinite DEF FilledAgree
      <4> QED
        BY <4>1, <4>2 DEF FilledAgree
    <3>6. proc' = "running"
      BY <1>1, <1>2, <2>4 DEF TakeWord
    <3> QED
      BY <1>1, <2>1, <3>4, <3>5, <3>6 DEF CountersInv
  <2> QED
    BY <2>3, <2>4
<1>3. CASE ClearSlot(c)
  <2>1. /\ pc[c] = "clear" /\ pc' = [pc EXCEPT ![c] = "advanceOut"]
        /\ buffer' = [buffer EXCEPT ![out] = NULL]
        /\ UNCHANGED <<in, out, used, sent, received>>
    BY <1>3 DEF ClearSlot, Goto
  <2>2. /\ HalfIn = 0 /\ HalfPut = 0 /\ HalfClear = 1 /\ HalfOut = 1 /\ HalfTaken = 1
        /\ HalfIn' = 0 /\ HalfPut' = 0 /\ HalfClear' = 0 /\ HalfOut' = 1 /\ HalfTaken' = 1
        /\ \A u \in Thread : u # c => pc[u] \notin BufferPC /\ pc'[u] = pc[u]
        /\ pc'[c] = "advanceOut"
    BY <2>1, AloneInRing DEF BufferPC, If
  <2>3. CountersAgree'
    BY <1>1, <2>1, <2>2 DEF CountersAgree
  <2>4. FilledAgree'
    <3>1. out \in Filled /\ Filled' = Filled \ {out}
      BY <1>1, <2>1 DEF Filled, FilledAgree, TypeInv, TypeOK
    <3>2. Cardinality(Filled \ {out}) = Cardinality(Filled) - 1
      BY <3>1, FilledFinite, FS_RemoveElement
    <3>3. \A d \in Consumer : pc'[d] # "clear"
      BY <2>2 DEF BufferPC
    <3>4. Cardinality(Filled') <= Len(sent') - Len(received') + HalfClear'
      BY <1>1, <2>1, <2>2, <3>1, <3>2, FilledFinite DEF FilledAgree
    <3> QED
      BY <3>3, <3>4 DEF FilledAgree
  <2> QED
    BY <1>1, <1>3, <2>3, <2>4 DEF ClearSlot, CountersInv
<1>4. CASE AdvanceOut(c)
  <2>1. /\ pc[c] = "advanceOut" /\ pc' = [pc EXCEPT ![c] = "decrement"]
        /\ out' = (out + 1) % Length
        /\ UNCHANGED <<buffer, in, used, sent, received>>
    BY <1>4 DEF AdvanceOut, Goto
  <2>2. /\ HalfIn = 0 /\ HalfPut = 0 /\ HalfClear = 0 /\ HalfOut = 1 /\ HalfTaken = 1
        /\ HalfIn' = 0 /\ HalfPut' = 0 /\ HalfClear' = 0 /\ HalfOut' = 0 /\ HalfTaken' = 1
        /\ \A u \in Thread : u # c => pc[u] \notin BufferPC /\ pc'[u] = pc[u]
        /\ pc'[c] = "decrement"
    BY <2>1, AloneInRing DEF BufferPC, If
  <2>3. out' = Len(received) % Length
    <3>1. Len(received) - 1 \in Nat /\ out = (Len(received) - 1) % Length
      BY <1>1, <2>2 DEF CountersAgree
    <3>2. ((Len(received) - 1) + 1) % Length = (((Len(received) - 1) % Length) + 1) % Length
      BY <3>1, NextIndex
    <3>3. (Len(received) - 1) + 1 = Len(received)
      BY <1>1
    <3> QED
      BY <2>1, <3>1, <3>2, <3>3
  <2>4. CountersAgree'
    <3>1. Len(received') - HalfOut' = Len(received)
      BY <1>1, <2>1, <2>2
    <3> QED
      BY <1>1, <2>1, <2>2, <2>3, <3>1 DEF CountersAgree
  <2>5. FilledAgree'
    <3>1. \A d \in Consumer : pc'[d] # "clear"
      BY <2>2 DEF BufferPC
    <3>2. Filled' = Filled
      BY <2>1 DEF Filled
    <3> QED
      BY <1>1, <2>1, <2>2, <3>1, <3>2 DEF FilledAgree
  <2> QED
    BY <1>1, <1>4, <2>4, <2>5 DEF AdvanceOut, CountersInv
<1>5. CASE Decrement(c)
  <2>1. /\ pc[c] = "decrement" /\ pc' = [pc EXCEPT ![c] = "unlockBuffer"]
        /\ used' = used - 1
        /\ UNCHANGED <<buffer, in, out, sent, received>>
    BY <1>5 DEF Decrement, Goto
  <2>2. /\ HalfIn = 0 /\ HalfPut = 0 /\ HalfClear = 0 /\ HalfOut = 0 /\ HalfTaken = 1
        /\ HalfIn' = 0 /\ HalfPut' = 0 /\ HalfClear' = 0 /\ HalfOut' = 0 /\ HalfTaken' = 0
        /\ \A u \in Thread : u # c => pc[u] \notin BufferPC /\ pc'[u] = pc[u]
        /\ pc'[c] = "unlockBuffer"
    BY <2>1, AloneInRing DEF BufferPC, If
  <2>3. CountersAgree' /\ used' \in Nat
    BY <1>1, <2>1, <2>2 DEF CountersAgree
  <2>4. FilledAgree'
    <3>1. \A d \in Consumer : pc'[d] # "clear"
      BY <2>2 DEF BufferPC
    <3>2. Filled' = Filled
      BY <2>1 DEF Filled
    <3> QED
      BY <1>1, <2>1, <2>2, <3>1, <3>2 DEF FilledAgree
  <2> QED
    BY <1>1, <1>5, <2>3, <2>4 DEF Decrement, CountersInv
<1> QED
  BY <1>2, <1>3, <1>4, <1>5

(* The types are right, every mutex is held by the thread that took it, and  *)
(* "used", "in" and "out" agree with the words put and taken, up to the      *)
(* statements of a put or a take that is under way.                          *)
RingIInv == TypeInv /\ LockInv /\ CountersInv

THEOREM CountersCorrect == Spec => []RingIInv
<1>1. Init => RingIInv
  BY InitType, InitLock, InitCounters DEF RingIInv
<1>2. RingIInv /\ [Next]_vars => RingIInv'
  <2> SUFFICES ASSUME RingIInv, [Next]_vars PROVE RingIInv'
    OBVIOUS
  <2> USE DEF RingIInv
  <2>1. ASSUME NEW p \in Producer, ProducerStep(p)
        PROVE  RingIInv'
    BY <2>1, SynchroniseType, SynchroniseLock, OtherCounters, ProducerType, OtherLock,
       ProducerCounters
    DEF ProducerStep, Thread
  <2>2. ASSUME NEW c \in Consumer, ConsumerStep(c)
        PROVE  RingIInv'
    BY <2>2, SynchroniseType, SynchroniseLock, OtherCounters, ConsumerType, OtherLock,
       ConsumerCounters
    DEF ConsumerStep, Thread
  <2>3. ASSUME \/ \E t \in Thread : CreateThread(t) \/ SpuriousWakeup(t)
               \/ Interrupt \/ Kill \/ Ended
        PROVE  RingIInv'
    BY <2>3, OtherType, OtherLock, OtherCounters
  <2>4. CASE UNCHANGED vars
    <3>1. TypeInv'
      BY <2>4 DEF vars, ring, signal, TypeInv, TypeOK, KindInv
    <3>2. LockInv'
      BY <2>4 DEF vars, LockInv
    <3>3. CountersInv'
      BY <2>4, QuietCounters DEF vars
    <3> QED
      BY <3>1, <3>2, <3>3
  <2> QED
    BY <2>1, <2>2, <2>3, <2>4 DEF Next
<1> QED
  BY <1>1, <1>2, PTL DEF Spec

(* Whenever bufferMutex is free, "used" counts the words put but not taken   *)
(* and the indices stand where that many puts and takes lead, and the types  *)
(* are right: "used" is never negative, the indices stay inside the ring.    *)
THEOREM RingInvHolds == Spec => []RingInv
<1>1. RingIInv => RingInv
  <2> SUFFICES ASSUME RingIInv, mutex["buffer"] = NULL
               PROVE  /\ used = Len(sent) - Len(received)
                      /\ in = Len(sent) % Length
                      /\ out = Len(received) % Length
    BY DEF RingIInv, TypeInv, RingInv, RingAgrees
  <2>1. \A t \in Thread : pc[t] \notin BufferPC
    BY CondBufferAssumption DEF RingIInv, LockInv
  <2>2. /\ HalfIn = 0 /\ HalfPut = 0 /\ HalfOut = 0 /\ HalfTaken = 0
    BY <2>1 DEF HalfIn, HalfPut, HalfOut, HalfTaken, SomeAt, If, BufferPC, Thread
  <2>3. proc # "crashed"
    BY <2>1 DEF RingIInv, CountersInv, BufferPC, Thread
  <2>4. CountersAgree /\ Len(sent) \in Nat /\ Len(received) \in Nat
    BY <2>3 DEF RingIInv, CountersInv, TypeInv, TypeOK
  <2> QED
    BY <2>2, <2>4 DEF CountersAgree
<1> QED
  BY <1>1, CountersCorrect, PTL
-------------------------------------------------------------------------------
(* Wakeups.  A thread that is about to sleep is as good as asleep: it holds  *)
(* the mutex of its condition until it sleeps, so a broadcast cannot come in *)
(* between.                                                                  *)
WaitPC  == {"wait", "asleep"}
OnWayPC == {"unlockBuffer", "lockAnnounced", "broadcast"}

WakeupInv ==
  /\ (\E p \in Producer : pc[p] \in WaitPC) /\ used < Length => OnTheWay("full")
  /\ (\E c \in Consumer : pc[c] \in WaitPC) /\ used > 0 => OnTheWay("empty")

LEMMA InitWakeup == Init => WakeupInv
  BY DEF Init, WakeupInv, WaitPC, Thread

\* A step after which nobody more waits, and everybody is still on the way who was.
LEMMA QuietWakeup ==
  ASSUME WakeupInv, UNCHANGED used,
         \A t \in Thread : pc'[t] \in WaitPC => pc[t] \in WaitPC,
         \A t \in Thread : pc[t] \in OnWayPC => pc'[t] \in OnWayPC
  PROVE  WakeupInv'
<1>1. \A m : OnTheWay(m) => OnTheWay(m)'
  <2> SUFFICES ASSUME NEW m, NEW t \in Thread, Announced(t) = m, pc[t] \in OnWayPC
               PROVE  OnTheWay(m)'
    BY DEF OnTheWay, OnWayPC
  <2>1. pc'[t] \in OnWayPC
    OBVIOUS
  <2> QED
    BY <2>1 DEF OnTheWay, OnWayPC, Announced
<1>2. /\ (\E p \in Producer : pc'[p] \in WaitPC) => (\E p \in Producer : pc[p] \in WaitPC)
      /\ (\E c \in Consumer : pc'[c] \in WaitPC) => (\E c \in Consumer : pc[c] \in WaitPC)
  BY DEF Thread
<1> QED
  BY <1>1, <1>2 DEF WakeupInv

LEMMA OtherWakeup ==
  ASSUME TypeInv, WakeupInv,
         \/ \E t \in Thread : CreateThread(t) \/ SpuriousWakeup(t)
         \/ Interrupt \/ Kill \/ Ended
  PROVE  WakeupInv'
<1> USE DEF TypeInv, TypeOK, WaitPC, OnWayPC, Goto, ring
<1>1. CASE Interrupt \/ Kill \/ Ended
  BY <1>1, QuietWakeup DEF Interrupt, Kill, Ended, vars
<1>2. ASSUME NEW t \in Thread, CreateThread(t) \/ SpuriousWakeup(t)
      PROVE  WakeupInv'
  BY <1>2, QuietWakeup DEF CreateThread, SpuriousWakeup
<1> QED
  BY <1>1, <1>2

\* A thread starts to wait only when its condition does not hold.
LEMMA TestWakeup ==
  ASSUME TypeInv, WakeupInv, NEW t \in Thread, Test(t)
  PROVE  WakeupInv'
<1>1. /\ pc[t] = "test" /\ UNCHANGED used
      /\ \A u \in Thread : u # t => pc'[u] = pc[u]
      /\ pc'[t] = IF Blocked(t) THEN "wait" ELSE "unlockGuard"
  BY DEF Test, Goto, ring, TypeInv, TypeOK
<1>2. CASE ~ Blocked(t)
  BY <1>1, <1>2, QuietWakeup DEF WaitPC, OnWayPC
<1>3. CASE Blocked(t)
  <2>1. /\ OnTheWay("full") => OnTheWay("full")'
        /\ OnTheWay("empty") => OnTheWay("empty")'
    BY <1>1 DEF OnTheWay, Announced
  <2>2. CASE t \in Producer
    <3>1. used = Length /\ Length \in Nat /\ t \notin Consumer
      BY <1>3, <2>2, CondBufferAssumption DEF Blocked
    <3> QED
      BY <1>1, <2>1, <3>1 DEF WakeupInv, Thread
  <2>3. CASE t \in Consumer
    <3>1. used = 0 /\ t \notin Producer
      BY <1>3, <2>3, CondBufferAssumption DEF Blocked
    <3> QED
      BY <1>1, <2>1, <3>1 DEF WakeupInv, Thread
  <2> QED
    BY <2>2, <2>3 DEF Thread
<1> QED
  BY <1>2, <1>3

\* A broadcast leaves nobody waiting for its condition.
LEMMA BroadcastWakeup ==
  ASSUME TypeInv, LockInv, WakeupInv, NEW t \in Thread, Broadcast(t)
  PROVE  WakeupInv'
<1>1. /\ pc[t] = "broadcast" /\ UNCHANGED used
      /\ \A u \in Thread :
           pc'[u] = IF u = t THEN "unlockAnnounced"
                    ELSE IF pc[u] = "asleep" /\ Guard(u) = Announced(t) THEN "lockGuard"
                    ELSE pc[u]
  BY DEF Broadcast, Asleep, ring
<1>2. mutex[Announced(t)] = t
  BY <1>1 DEF LockInv, AnnouncedPC
<1>3. \A u \in Thread : Guard(u) = Announced(t) => pc'[u] \notin WaitPC
  <2> SUFFICES ASSUME NEW u \in Thread, Guard(u) = Announced(t), pc'[u] \in WaitPC
               PROVE  FALSE
    OBVIOUS
  <2>1. u # t /\ pc[u] = "wait"
    BY <1>1 DEF WaitPC
  <2>2. mutex[Guard(u)] = u
    BY <2>1 DEF LockInv, GuardPC
  <2> QED
    BY <1>2, <2>1, <2>2
<1>4. \A u \in Thread : pc'[u] \in WaitPC => pc[u] \in WaitPC
  BY <1>1 DEF WaitPC
<1>5. \A m : m # Announced(t) /\ OnTheWay(m) => OnTheWay(m)'
  BY <1>1 DEF OnTheWay, Announced
<1>6. CASE t \in Producer
  <2>1. Announced(t) = "empty" /\ \A c \in Consumer : Guard(c) = "empty"
    BY <1>6, CondBufferAssumption DEF Announced, Guard
  <2> QED
    BY <1>1, <1>3, <1>4, <1>5, <2>1 DEF WakeupInv, Thread
<1>7. CASE t \in Consumer
  <2>1. Announced(t) = "full" /\ \A p \in Producer : Guard(p) = "full"
    BY <1>7, CondBufferAssumption DEF Announced, Guard
  <2> QED
    BY <1>1, <1>3, <1>4, <1>5, <2>1 DEF WakeupInv, Thread
<1> QED
  BY <1>6, <1>7 DEF Thread

LEMMA SynchroniseWakeup ==
  ASSUME TypeInv, LockInv, WakeupInv, NEW t \in Thread, Synchronise(t)
  PROVE  WakeupInv'
<1>1. CASE Test(t) \/ Broadcast(t)
  BY <1>1, TestWakeup, BroadcastWakeup
<1>2. CASE ~ (Test(t) \/ Broadcast(t))
  <2>1. UNCHANGED used
    BY <1>2
    DEF Synchronise, CheckEnd, LockGuard, Wait, UnlockGuard, LockBuffer, UnlockBuffer,
        LockAnnounced, UnlockAnnounced, ring
  <2>2. PICK to : /\ pc' = [pc EXCEPT ![t] = to]
                  /\ to \in WaitPC => pc[t] \in WaitPC
                  /\ pc[t] \in OnWayPC => to \in OnWayPC
    BY <1>2
    DEF Synchronise, CheckEnd, LockGuard, Wait, UnlockGuard, LockBuffer, UnlockBuffer,
        LockAnnounced, UnlockAnnounced, Goto, WaitPC, OnWayPC
  <2>3. \A u \in Thread : pc'[u] = IF u = t THEN to ELSE pc[u]
    BY <2>2 DEF TypeInv, TypeOK
  <2> QED
    BY <2>1, <2>2, <2>3, QuietWakeup
<1> QED
  BY <1>1, <1>2

\* Whoever changes "used" is on the way to announce it.
LEMMA RingWakeup ==
  ASSUME TypeInv, WakeupInv,
         \/ \E p \in Producer :
              Read(p) \/ Exit(p) \/ PutWord(p) \/ AdvanceIn(p) \/ Increment(p)
         \/ \E c \in Consumer :
              TakeWord(c) \/ ClearSlot(c) \/ AdvanceOut(c) \/ Decrement(c)
  PROVE  WakeupInv'
<1> USE DEF TypeInv, TypeOK, Goto
<1>1. ASSUME NEW p \in Producer, Read(p) \/ Exit(p) \/ PutWord(p) \/ AdvanceIn(p)
      PROVE  WakeupInv'
  BY <1>1, QuietWakeup
  DEF Read, Exit, PutWord, AdvanceIn, Thread, WaitPC, OnWayPC, ring
<1>2. ASSUME NEW c \in Consumer, TakeWord(c) \/ ClearSlot(c) \/ AdvanceOut(c)
      PROVE  WakeupInv'
  BY <1>2, QuietWakeup
  DEF TakeWord, ClearSlot, AdvanceOut, Thread, WaitPC, OnWayPC, ring
<1>3. ASSUME NEW p \in Producer, Increment(p)
      PROVE  WakeupInv'
  <2>1. /\ pc[p] = "increment" /\ pc' = [pc EXCEPT ![p] = "unlockBuffer"]
        /\ used' = used + 1 /\ p \in Thread /\ Announced(p) = "empty"
    BY <1>3 DEF Increment, Thread, Announced
  <2>2. pc'[p] = "unlockBuffer" /\ \A u \in Thread : u # p => pc'[u] = pc[u]
    BY <2>1
  <2>3. OnTheWay("empty")'
    BY <2>1, <2>2 DEF OnTheWay, Announced
  <2>4. OnTheWay("full") => OnTheWay("full")'
    BY <2>1, <2>2 DEF OnTheWay, Announced
  <2>5. \A q \in Producer : pc'[q] \in WaitPC => pc[q] \in WaitPC
    BY <2>2 DEF WaitPC, Thread
  <2>6. used' < Length => used < Length
    BY <2>1, CondBufferAssumption
  <2> QED
    BY <2>3, <2>4, <2>5, <2>6 DEF WakeupInv
<1>4. ASSUME NEW c \in Consumer, Decrement(c)
      PROVE  WakeupInv'
  <2>1. /\ pc[c] = "decrement" /\ pc' = [pc EXCEPT ![c] = "unlockBuffer"]
        /\ used' = used - 1 /\ c \in Thread /\ Announced(c) = "full"
    BY <1>4, CondBufferAssumption DEF Decrement, Thread, Announced
  <2>2. pc'[c] = "unlockBuffer" /\ \A u \in Thread : u # c => pc'[u] = pc[u]
    BY <2>1
  <2>3. OnTheWay("full")'
    BY <2>1, <2>2 DEF OnTheWay, Announced
  <2>4. OnTheWay("empty") => OnTheWay("empty")'
    BY <2>1, <2>2 DEF OnTheWay, Announced
  <2>5. \A d \in Consumer : pc'[d] \in WaitPC => pc[d] \in WaitPC
    BY <2>2 DEF WaitPC, Thread
  <2>6. used' > 0 => used > 0
    BY <2>1
  <2> QED
    BY <2>3, <2>4, <2>5, <2>6 DEF WakeupInv
<1> QED
  BY <1>1, <1>2, <1>3, <1>4

(* A producer that sleeps with room in the ring, or a consumer that sleeps   *)
(* with words in it, will be woken: somebody is on its way to the broadcast. *)
THEOREM NoLostWakeupHolds == Spec => []NoLostWakeup
<1>1. Init => WakeupInv
  BY InitWakeup
<1>2. RingIInv /\ WakeupInv /\ [Next]_vars => WakeupInv'
  <2> SUFFICES ASSUME RingIInv, WakeupInv, [Next]_vars PROVE WakeupInv'
    OBVIOUS
  <2>1. CASE UNCHANGED vars
    BY <2>1, QuietWakeup DEF vars, ring
  <2> QED
    BY <2>1, OtherWakeup, SynchroniseWakeup, RingWakeup
    DEF RingIInv, Next, ProducerStep, ConsumerStep, Thread
<1>3. WakeupInv => NoLostWakeup
  BY CondBufferAssumption DEF WakeupInv, NoLostWakeup, Asleep, Guard, WaitPC, Thread
<1> QED
  BY <1>1, <1>2, <1>3, CountersCorrect, PTL DEF Spec
-------------------------------------------------------------------------------
(* Words.  When no word is twice in the text, a word is in one place only:   *)
(* in the file, in a producer's hand, in a slot, or received.  Only a slot   *)
(* that was copied and not cleared yet holds a word that is also received.   *)
InHand == {p \in Producer : pc[p] \in HandPC}

UnreadOnce == \A i, j \in 1 .. Len(unread) : unread[i] = unread[j] => i = j

HandOnce ==
  \A p \in InHand : /\ \A q \in InHand : produced[p] = produced[q] => p = q
                    /\ \A i \in 1 .. Len(unread) : produced[p] # unread[i]

SlotOnce ==
  \A s \in Filled : /\ \A r \in Filled : buffer[s] = buffer[r] => s = r
                    /\ \A i \in 1 .. Len(unread) : buffer[s] # unread[i]
                    /\ \A p \in InHand : buffer[s] # produced[p]

Copied(s) == s = out /\ \E c \in Consumer : pc[c] = "clear"

ReceivedOnce ==
  \A j \in 1 .. Len(received) :
    /\ \A i \in 1 .. Len(received) : received[j] = received[i] => i = j
    /\ \A i \in 1 .. Len(unread) : received[j] # unread[i]
    /\ \A p \in InHand : received[j] # produced[p]
    /\ \A s \in Filled : received[j] = buffer[s] => Copied(s)

OnceInv == UnreadOnce /\ HandOnce /\ SlotOnce /\ ReceivedOnce

TextOnce == \A i, j \in 1 .. Len(Text) : Text[i] = Text[j] => i = j

LEMMA InitOnce == TextOnce /\ Init => OnceInv
<1> SUFFICES ASSUME TextOnce, Init PROVE OnceInv
  OBVIOUS
<1>1. InHand = {} /\ Filled = {} /\ Len(received) = 0 /\ unread = Text
  BY DEF Init, InHand, Filled, HandPC, Thread
<1>2. UnreadOnce
  BY <1>1 DEF TextOnce, UnreadOnce
<1>3. HandOnce /\ SlotOnce /\ ReceivedOnce
  BY <1>1 DEF HandOnce, SlotOnce, ReceivedOnce
<1> QED
  BY <1>2, <1>3 DEF OnceInv

\* A step that moves no word.
LEMMA QuietOnce ==
  ASSUME OnceInv, UNCHANGED <<unread, produced, buffer, out, received>>,
         \A p \in Producer : pc'[p] \in HandPC => pc[p] \in HandPC,
         \A c \in Consumer : pc[c] = "clear" => pc'[c] = "clear"
  PROVE  OnceInv'
<1>1. InHand' \subseteq InHand /\ Filled' = Filled
  BY DEF InHand, Filled
<1>2. \A s : Copied(s) => Copied(s)'
  BY DEF Copied
<1>3. UnreadOnce'
  BY DEF OnceInv, UnreadOnce
<1>4. HandOnce'
  BY <1>1 DEF OnceInv, HandOnce
<1>5. SlotOnce'
  BY <1>1 DEF OnceInv, SlotOnce
<1>6. ReceivedOnce'
  BY <1>1, <1>2 DEF OnceInv, ReceivedOnce
<1> QED
  BY <1>3, <1>4, <1>5, <1>6 DEF OnceInv

LEMMA OtherOnce ==
  ASSUME TypeInv, OnceInv,
         \/ \E t \in Thread : CreateThread(t) \/ SpuriousWakeup(t) \/ Synchronise(t)
         \/ Interrupt \/ Kill \/ Ended
         \/ \E p \in Producer : Exit(p) \/ AdvanceIn(p) \/ Increment(p)
         \/ \E c \in Consumer : Decrement(c)
  PROVE  OnceInv'
<1> USE DEF TypeInv, TypeOK, HandPC, Goto, ring
<1>1. CASE Interrupt \/ Kill \/ Ended
  BY <1>1, QuietOnce DEF Interrupt, Kill, Ended, vars
<1>2. ASSUME NEW t \in Thread, CreateThread(t) \/ SpuriousWakeup(t)
      PROVE  OnceInv'
  BY <1>2, QuietOnce DEF CreateThread, SpuriousWakeup, Thread
<1>3. ASSUME NEW t \in Thread, Broadcast(t)
      PROVE  OnceInv'
  <2>1. /\ pc[t] = "broadcast" /\ UNCHANGED <<unread, produced, buffer, out, received>>
        /\ \A u \in Thread :
             /\ u # t => pc'[u] = pc[u] \/ (pc[u] = "asleep" /\ pc'[u] = "lockGuard")
             /\ u = t => pc'[u] = "unlockAnnounced"
    BY <1>3 DEF Broadcast, Asleep
  <2> QED
    BY <2>1, QuietOnce DEF Thread
<1>4. ASSUME NEW t \in Thread, Synchronise(t), ~ Broadcast(t)
      PROVE  OnceInv'
  <2>1. UNCHANGED <<unread, produced, buffer, out, received>>
    BY <1>4
    DEF Synchronise, CheckEnd, LockGuard, Test, Wait, UnlockGuard, LockBuffer,
        UnlockBuffer, LockAnnounced, UnlockAnnounced
  <2>2. PICK to : /\ pc' = [pc EXCEPT ![t] = to]
                  /\ pc[t] # "clear"
                  /\ to \in HandPC => pc[t] \in HandPC \/ t \notin Producer
    BY <1>4
    DEF Synchronise, CheckEnd, LockGuard, Test, Wait, UnlockGuard, LockBuffer,
        UnlockBuffer, LockAnnounced, UnlockAnnounced
  <2> QED
    BY <2>1, <2>2, QuietOnce DEF Thread
<1>5. ASSUME NEW p \in Producer, Exit(p) \/ AdvanceIn(p) \/ Increment(p)
      PROVE  OnceInv'
  BY <1>5, QuietOnce DEF Exit, AdvanceIn, Increment, Thread
<1>6. ASSUME NEW c \in Consumer, Decrement(c)
      PROVE  OnceInv'
  BY <1>6, QuietOnce, CondBufferAssumption DEF Decrement, Thread
<1> QED
  BY <1>1, <1>2, <1>3, <1>4, <1>5, <1>6

\* The word that is read leaves the file for the producer's hand.
LEMMA ReadOnce ==
  ASSUME TypeInv, OnceInv, NEW p \in Producer, Read(p)
  PROVE  OnceInv'
<1>1. CASE unread = <<>>
  BY <1>1, QuietOnce DEF TypeInv, TypeOK, Read, Goto, ring, HandPC, Thread
<1>2. CASE unread # <<>>
  <2>1. /\ pc[p] = "read" /\ pc' = [pc EXCEPT ![p] = "check"]
        /\ unread' = Tail(unread)
        /\ produced' = [produced EXCEPT ![p] = Head(unread)]
        /\ UNCHANGED <<buffer, out, received>>
    BY <1>2 DEF Read, Goto, ring
  <2>2. /\ unread \in Seq(Word) /\ Len(unread) \in Nat \ {0}
        /\ Len(unread') = Len(unread) - 1
        /\ \A i \in 1 .. Len(unread') : /\ i + 1 \in 1 .. Len(unread)
                                       /\ unread'[i] = unread[i + 1]
                                       /\ i + 1 # 1
        /\ Head(unread) = unread[1] /\ 1 \in 1 .. Len(unread)
    BY <1>2, <2>1 DEF TypeInv, TypeOK
  <2>3. /\ produced'[p] = unread[1]
        /\ \A q \in Producer : q # p => produced'[q] = produced[q]
    BY <2>1, <2>2 DEF TypeInv, TypeOK
  <2>4. \A q \in InHand' : q \in Producer /\ (q # p => q \in InHand)
    BY <2>1 DEF InHand, TypeInv, TypeOK, Thread
  <2>5. p \notin InHand /\ Filled' = Filled /\ \A s : Copied(s)' <=> Copied(s)
    <3>1. p \notin InHand /\ Filled' = Filled
      BY <2>1 DEF InHand, HandPC, Filled
    <3>2. \A c \in Consumer : pc'[c] = pc[c]
      BY <2>1, CondBufferAssumption DEF TypeInv, TypeOK, Thread
    <3> QED
      BY <2>1, <3>1, <3>2 DEF Copied
  <2>6. UnreadOnce'
    BY <2>2 DEF OnceInv, UnreadOnce
  <2>7. HandOnce'
    BY <2>2, <2>3, <2>4 DEF OnceInv, HandOnce, UnreadOnce
  <2>8. SlotOnce'
    BY <2>1, <2>2, <2>3, <2>4, <2>5 DEF OnceInv, SlotOnce
  <2>9. ReceivedOnce'
    BY <2>1, <2>2, <2>3, <2>4, <2>5 DEF OnceInv, ReceivedOnce
  <2> QED
    BY <2>6, <2>7, <2>8, <2>9 DEF OnceInv
<1> QED
  BY <1>1, <1>2

\* The word that is put leaves the producer's hand for a slot.
LEMMA PutOnce ==
  ASSUME TypeInv, LockInv, OnceInv, NEW p \in Producer, PutWord(p)
  PROVE  OnceInv'
<1>1. /\ pc[p] = "put" /\ pc' = [pc EXCEPT ![p] = "advanceIn"]
      /\ buffer' = [buffer EXCEPT ![in] = produced[p]]
      /\ UNCHANGED <<out, received, unread, produced>>
  BY DEF PutWord, Goto
<1>2. p \in InHand /\ InHand' = InHand \ {p}
  BY <1>1 DEF InHand, HandPC, TypeInv, TypeOK, Thread
<1>3. \A s \in Filled' : /\ s # in => s \in Filled /\ buffer'[s] = buffer[s]
                         /\ s = in => buffer'[s] = produced[p]
  BY <1>1 DEF Filled, TypeInv, TypeOK
<1>4. \A s : ~ Copied(s)
  <2>1. p \in Thread /\ pc[p] \in BufferPC
    BY <1>1 DEF BufferPC, Thread
  <2>2. \A c \in Consumer : pc[c] # "clear"
    BY <2>1, CondBufferAssumption DEF LockInv, BufferPC, Thread
  <2> QED
    BY <2>2 DEF Copied
<1>5. UnreadOnce'
  BY <1>1 DEF OnceInv, UnreadOnce
<1>6. HandOnce'
  BY <1>1, <1>2 DEF OnceInv, HandOnce
<1>7. SlotOnce'
  BY <1>1, <1>2, <1>3 DEF OnceInv, SlotOnce, HandOnce
<1>8. ReceivedOnce'
  BY <1>1, <1>2, <1>3, <1>4 DEF OnceInv, ReceivedOnce
<1> QED
  BY <1>5, <1>6, <1>7, <1>8 DEF OnceInv

\* The word that is taken is in its slot and received until the slot is cleared.
LEMMA TakeOnce ==
  ASSUME TypeInv, LockInv, OnceInv, NEW c \in Consumer, TakeWord(c)
  PROVE  OnceInv'
<1>1. /\ pc[c] = "take" /\ pc' = [pc EXCEPT ![c] = "clear"]
      /\ UNCHANGED <<out, buffer, unread, produced>>
  BY DEF TakeWord, Goto
<1>2. InHand' = InHand /\ Filled' = Filled /\ c \in Thread
  BY <1>1, CondBufferAssumption DEF InHand, Filled, TypeInv, TypeOK, Thread
<1>3. \A s : s = out => Copied(s)'
  BY <1>1, <1>2 DEF Copied, TypeInv, TypeOK
<1>4. \A s : ~ Copied(s)
  <2>1. pc[c] \in BufferPC
    BY <1>1 DEF BufferPC
  <2>2. \A d \in Consumer : pc[d] # "clear"
    BY <1>1, <1>2, <2>1 DEF LockInv, BufferPC, Thread
  <2> QED
    BY <2>2 DEF Copied
<1>5. UnreadOnce' /\ HandOnce' /\ SlotOnce'
  BY <1>1, <1>2 DEF OnceInv, UnreadOnce, HandOnce, SlotOnce
<1>6. ReceivedOnce'
  <2>1. CASE buffer[out] = NULL
    <3>1. received' = received
      BY <2>1 DEF TakeWord
    <3> QED
      BY <1>1, <1>2, <1>4, <3>1 DEF OnceInv, ReceivedOnce
  <2>2. CASE buffer[out] # NULL
    <3>1. received' = Append(received, buffer[out]) /\ out \in Filled
      BY <2>2 DEF TakeWord, Filled, TypeInv, TypeOK
    <3>2. /\ Len(received) \in Nat /\ Len(received') = Len(received) + 1
          /\ received'[Len(received')] = buffer[out]
          /\ \A j \in 1 .. Len(received') :
               j # Len(received') => j \in 1 .. Len(received) /\ received'[j] = received[j]
      BY <3>1 DEF TypeInv, TypeOK
    <3> DEFINE n == Len(received')
    <3> HIDE DEF n
    <3> SUFFICES ASSUME NEW j \in 1 .. n
                 PROVE  /\ \A i \in 1 .. n : received'[j] = received'[i] => i = j
                        /\ \A i \in 1 .. Len(unread) : received'[j] # unread[i]
                        /\ \A p \in InHand : received'[j] # produced[p]
                        /\ \A s \in Filled : received'[j] = buffer[s] => Copied(s)'
      BY <1>1, <1>2 DEF ReceivedOnce, n
    <3>3. /\ received'[n] = buffer[out]
          /\ \A i \in 1 .. n :
               i # n => i \in 1 .. Len(received) /\ received'[i] = received[i]
      BY <3>2 DEF n
    <3>4. \A i \in 1 .. Len(received) : received[i] # buffer[out]
      BY <1>4, <3>1 DEF OnceInv, ReceivedOnce
    <3>5. CASE j = n
      <4>1. received'[j] = buffer[out]
        BY <3>3, <3>5
      <4>2. \A i \in 1 .. n : received'[j] = received'[i] => i = j
        BY <3>3, <3>4, <3>5, <4>1
      <4>3. /\ \A s \in Filled : buffer[out] = buffer[s] => s = out
            /\ \A i \in 1 .. Len(unread) : buffer[out] # unread[i]
            /\ \A p \in InHand : buffer[out] # produced[p]
        BY <3>1 DEF OnceInv, SlotOnce
      <4> QED
        BY <1>3, <4>1, <4>2, <4>3
    <3>6. CASE j # n
      BY <1>4, <3>3, <3>4, <3>6 DEF OnceInv, ReceivedOnce
    <3> QED
      BY <3>5, <3>6
  <2> QED
    BY <2>1, <2>2
<1> QED
  BY <1>5, <1>6 DEF OnceInv

\* The slot a word was copied from is emptied before "out" moves on.
LEMMA ClearOnce ==
  ASSUME TypeInv, LockInv, OnceInv, NEW c \in Consumer, ClearSlot(c) \/ AdvanceOut(c)
  PROVE  OnceInv'
<1>1. PICK to \in {"advanceOut", "decrement"} : pc' = [pc EXCEPT ![c] = to]
  BY DEF ClearSlot, AdvanceOut, Goto
<1>2. UNCHANGED <<unread, produced, received>> /\ c \in Thread /\ InHand' = InHand
  BY <1>1, CondBufferAssumption
  DEF ClearSlot, AdvanceOut, InHand, TypeInv, TypeOK, Thread
<1>3. \A s \in Filled' : s \in Filled /\ buffer'[s] = buffer[s] /\ ~ Copied(s)
  <2>1. CASE ClearSlot(c)
    <3>1. buffer' = [buffer EXCEPT ![out] = NULL]
      BY <2>1 DEF ClearSlot
    <3> QED
      BY <3>1 DEF Filled, Copied, TypeInv, TypeOK
  <2>2. CASE AdvanceOut(c)
    <3>1. pc[c] = "advanceOut" /\ UNCHANGED buffer
      BY <2>2 DEF AdvanceOut, Goto
    <3>2. \A d \in Consumer : pc[d] # "clear"
      BY <1>2, <3>1 DEF LockInv, BufferPC, Thread
    <3> QED
      BY <3>1, <3>2 DEF Filled, Copied
  <2> QED
    BY <2>1, <2>2
<1>4. UnreadOnce' /\ HandOnce'
  BY <1>2 DEF OnceInv, UnreadOnce, HandOnce
<1>5. SlotOnce'
  BY <1>2, <1>3 DEF OnceInv, SlotOnce
<1>6. ReceivedOnce'
  BY <1>2, <1>3 DEF OnceInv, ReceivedOnce
<1> QED
  BY <1>4, <1>5, <1>6 DEF OnceInv

(* No word is received twice, when none is twice in the text: even with the  *)
(* ring overrun a slot is copied once for every time it was filled.          *)
THEOREM TakenOnceHolds == ASSUME TextOnce PROVE Spec => []TakenOnce
<1>1. Init => OnceInv
  BY InitOnce
<1>2. RingIInv /\ OnceInv /\ [Next]_vars => OnceInv'
  <2> SUFFICES ASSUME RingIInv, OnceInv, [Next]_vars PROVE OnceInv'
    OBVIOUS
  <2>1. CASE UNCHANGED vars
    BY <2>1, QuietOnce DEF vars, ring
  <2> QED
    BY <2>1, OtherOnce, ReadOnce, PutOnce, TakeOnce, ClearOnce
    DEF RingIInv, Next, ProducerStep, ConsumerStep, Thread
<1>3. OnceInv => TakenOnce
  BY DEF OnceInv, ReceivedOnce, TakenOnce
<1> QED
  BY <1>1, <1>2, <1>3, CountersCorrect, PTL DEF Spec
-------------------------------------------------------------------------------
(* One producer and one consumer.  Only then does a test still hold when its *)
(* thread gets to the ring, where the other one may only have helped.        *)
Pair ==
  /\ \A p, q \in Producer : p = q
  /\ \A c, d \in Consumer : c = d

\* The slot i places on from slot 0, for i below 2 * Length.
Wrap(i) == IF i < Length THEN i ELSE i - Length

Underway == Len(sent) - Len(received)

(* From "out" on the words underway, in their order, then empty slots, and   *)
(* "in" is where these begin; up to a put or a take that is not complete.    *)
IndicesAgree ==
  /\ Underway \in 0 .. Length - HalfTaken
  /\ HalfIn <= Underway
  /\ in = Wrap(out + HalfOut + Underway - HalfIn)

SlotsAgree ==
  /\ \A j \in 0 .. Underway - 1 :
       buffer[Wrap(out + HalfOut + j)] = sent[Len(received) + 1 + j]
  /\ \A j \in HalfOut + Underway .. Length - 1 : buffer[Wrap(out + j)] = NULL
  /\ \A c \in Consumer : pc[c] = "advanceOut" => buffer[out] = NULL

\* Who is past the test finds room, or a word.
PastTestPC == {"unlockGuard", "lockBuffer", "put", "take"}

RoomAndWord ==
  /\ \A p \in Producer : pc[p] \in PastTestPC => Underway < Length
  /\ \A c \in Consumer : pc[c] \in PastTestPC => Underway > 0

ContentInv == IndicesAgree /\ SlotsAgree /\ RoomAndWord

\* The code steps an index with a remainder, which wraps it around the ring.
LEMMA NextSlot ==
  ASSUME NEW i \in Slot
  PROVE  (i + 1) % Length = Wrap(i + 1) /\ Wrap(i + 1) \in Slot
<1>1. Length \in Nat /\ Length > 0 /\ i \in 0 .. Length - 1
  BY CondBufferAssumption DEF Slot
<1>2. CASE i + 1 = Length
  BY <1>1, <1>2 DEF Wrap, Slot
<1>3. CASE i + 1 < Length
  BY <1>1, <1>3 DEF Wrap, Slot
<1> QED
  BY <1>1, <1>2, <1>3

LEMMA InitContent == Init => ContentInv /\ proc # "crashed"
<1> SUFFICES ASSUME Init PROVE ContentInv /\ proc # "crashed"
  OBVIOUS
<1>1. Length \in Nat /\ Length > 0
  BY CondBufferAssumption
<1>2. \A t \in Thread : pc[t] = "none"
  BY DEF Init
<1>3. HalfIn = 0 /\ HalfOut = 0 /\ HalfTaken = 0 /\ Underway = 0 /\ in = 0 /\ out = 0
  BY <1>2 DEF Init, HalfIn, HalfOut, HalfTaken, SomeAt, If, Underway, Thread
<1>4. IndicesAgree
  BY <1>1, <1>3 DEF IndicesAgree, Wrap
<1>5. SlotsAgree
  BY <1>1, <1>2, <1>3 DEF Init, SlotsAgree, Wrap, Slot, Thread
<1>6. RoomAndWord
  BY <1>2 DEF RoomAndWord, PastTestPC, Thread
<1> QED
  BY <1>4, <1>5, <1>6 DEF ContentInv, Init

\* A step outside the ring after which nobody more is past the test.
LEMMA QuietContent ==
  ASSUME ContentInv, UNCHANGED <<buffer, in, out, sent, received>>,
         \A t \in Thread : pc[t] \in HalfPC \/ pc'[t] \in HalfPC => pc'[t] = pc[t],
         \A t \in Thread : pc'[t] \in PastTestPC => pc[t] \in PastTestPC
  PROVE  ContentInv'
<1>1. HalfIn' = HalfIn /\ HalfOut' = HalfOut /\ HalfTaken' = HalfTaken
  BY DEF HalfIn, HalfOut, HalfTaken, SomeAt, If, HalfPC, Thread
<1>2. Underway' = Underway
  BY DEF Underway
<1>3. IndicesAgree'
  BY <1>1, <1>2 DEF ContentInv, IndicesAgree
<1>4. SlotsAgree'
  <2>1. \A c \in Consumer : pc'[c] = "advanceOut" => pc[c] = "advanceOut"
    BY DEF HalfPC, Thread
  <2> QED
    BY <1>1, <1>2, <2>1 DEF ContentInv, SlotsAgree
<1>5. RoomAndWord'
  BY <1>2 DEF ContentInv, RoomAndWord, Thread
<1> QED
  BY <1>3, <1>4, <1>5 DEF ContentInv

LEMMA OtherContent ==
  ASSUME TypeInv, ContentInv,
         \/ \E t \in Thread : CreateThread(t) \/ SpuriousWakeup(t)
         \/ \E t \in Thread : Synchronise(t) /\ ~ Test(t)
         \/ Interrupt \/ Kill \/ Ended
         \/ \E p \in Producer : Read(p) \/ Exit(p)
  PROVE  ContentInv'
<1> USE DEF TypeInv, TypeOK, HalfPC, PastTestPC, Goto, ring
<1>1. CASE Interrupt \/ Kill \/ Ended
  BY <1>1, QuietContent DEF Interrupt, Kill, Ended, vars
<1>2. ASSUME NEW t \in Thread, CreateThread(t) \/ SpuriousWakeup(t)
      PROVE  ContentInv'
  BY <1>2, QuietContent DEF CreateThread, SpuriousWakeup
<1>3. ASSUME NEW t \in Thread, Broadcast(t)
      PROVE  ContentInv'
  BY <1>3, QuietContent DEF Broadcast, Asleep
<1>4. ASSUME NEW t \in Thread, Synchronise(t), ~ Test(t), ~ Broadcast(t)
      PROVE  ContentInv'
  <2>1. UNCHANGED <<buffer, in, out, sent, received>>
    BY <1>4
    DEF Synchronise, CheckEnd, LockGuard, Wait, UnlockGuard, LockBuffer, UnlockBuffer,
        LockAnnounced, UnlockAnnounced
  <2>2. PICK to : /\ pc' = [pc EXCEPT ![t] = to]
                  /\ pc[t] \notin HalfPC /\ to \notin HalfPC
                  /\ to \in PastTestPC => pc[t] \in PastTestPC
    BY <1>4
    DEF Synchronise, CheckEnd, LockGuard, Wait, UnlockGuard, LockBuffer, UnlockBuffer,
        LockAnnounced, UnlockAnnounced
  <2>3. \A u \in Thread : pc'[u] = IF u = t THEN to ELSE pc[u]
    BY <2>2
  <2> QED
    BY <2>1, <2>2, <2>3, QuietContent
<1>5. ASSUME NEW p \in Producer, Read(p) \/ Exit(p)
      PROVE  ContentInv'
  BY <1>5, QuietContent DEF Read, Exit, Thread
<1> QED
  BY <1>1, <1>2, <1>3, <1>4, <1>5

\* The only thread of its kind is not in the ring when it tests, so that "used"
\* is short of the words underway only by what makes its answer cautious.
LEMMA TestContent ==
  ASSUME Pair, TypeInv, CountersInv, ContentInv, NEW t \in Thread, Test(t)
  PROVE  ContentInv'
<1>1. /\ pc[t] = "test" /\ proc = "running" /\ UNCHANGED <<buffer, in, out, sent, received>>
      /\ \A u \in Thread : u # t => pc'[u] = pc[u]
      /\ pc'[t] = IF Blocked(t) THEN "wait" ELSE "unlockGuard"
  BY DEF Test, Goto, ring, TypeInv, TypeOK
<1>2. CASE Blocked(t)
  BY <1>1, <1>2, QuietContent DEF HalfPC, PastTestPC
<1>3. CASE ~ Blocked(t)
  <2>1. HalfIn' = HalfIn /\ HalfOut' = HalfOut /\ HalfTaken' = HalfTaken
    BY <1>1, <1>3 DEF HalfIn, HalfOut, HalfTaken, SomeAt, If, Thread
  <2>2. Underway' = Underway
    BY <1>1 DEF Underway
  <2>3. IndicesAgree'
    BY <1>1, <2>1, <2>2 DEF ContentInv, IndicesAgree
  <2>4. SlotsAgree'
    <3>1. \A c \in Consumer : pc'[c] = "advanceOut" => pc[c] = "advanceOut"
      BY <1>1, <1>3 DEF Thread
    <3> QED
      BY <1>1, <2>1, <2>2, <3>1 DEF ContentInv, SlotsAgree
  <2>5. /\ used = Underway - HalfPut + HalfTaken /\ used \in Nat
        /\ Underway \in 0 .. Length - HalfTaken /\ Length \in Nat
        /\ HalfPut \in {0, 1} /\ HalfTaken \in {0, 1}
    <3>1. HalfPut \in {0, 1} /\ HalfTaken \in {0, 1}
      BY DEF HalfPut, HalfTaken, SomeAt, If
    <3>2. used = Len(sent) - HalfPut - (Len(received) - HalfTaken)
      BY <1>1 DEF CountersInv, CountersAgree
    <3>3. Len(sent) \in Nat /\ Len(received) \in Nat /\ used \in Nat
      BY DEF TypeInv, TypeOK
    <3>4. Underway \in 0 .. Length - HalfTaken /\ Length \in Nat
      BY CondBufferAssumption DEF ContentInv, IndicesAgree
    <3> QED
      BY <3>1, <3>2, <3>3, <3>4 DEF Underway
  <2>6. CASE t \in Producer
    <3>1. used # Length /\ t \notin Consumer
      BY <1>3, <2>6, CondBufferAssumption DEF Blocked
    <3>2. HalfPut = 0
      BY <1>1, <2>6 DEF Pair, HalfPut, SomeAt, If
    <3>3. Underway < Length
      BY <2>5, <3>1, <3>2
    <3> QED
      BY <1>1, <2>2, <2>3, <2>4, <3>1, <3>3 DEF ContentInv, RoomAndWord, Thread
  <2>7. CASE t \in Consumer
    <3>1. used # 0 /\ t \notin Producer
      BY <1>3, <2>7, CondBufferAssumption DEF Blocked
    <3>2. HalfTaken = 0
      BY <1>1, <2>7 DEF Pair, HalfTaken, SomeAt, If
    <3>3. Underway > 0
      BY <2>5, <3>1, <3>2
    <3> QED
      BY <1>1, <2>2, <2>3, <2>4, <3>1, <3>3 DEF ContentInv, RoomAndWord, Thread
  <2> QED
    BY <2>6, <2>7 DEF Thread
<1> QED
  BY <1>2, <1>3

\* The slot "out" holds the next word to receive when a consumer copies from it.
LEMMA NextWord ==
  ASSUME TypeInv, LockInv, ContentInv, NEW c \in Consumer, pc[c] = "take"
  PROVE  /\ buffer[out] = sent[Len(received) + 1] /\ buffer[out] \in Word
         /\ Len(received) < Len(sent)
<1>1. HalfOut = 0
  <2>1. c \in Thread /\ pc[c] \in BufferPC
    BY DEF BufferPC, Thread
  <2>2. \A d \in Consumer : pc[d] \notin {"clear", "advanceOut"}
    BY <2>1 DEF LockInv, BufferPC, Thread
  <2> QED
    BY <2>2 DEF HalfOut, SomeAt, If
<1>2. Underway > 0 /\ Underway \in Int /\ Len(sent) \in Nat /\ Len(received) \in Nat
  BY DEF ContentInv, RoomAndWord, PastTestPC, Underway, TypeInv, TypeOK
<1>3. 0 \in 0 .. Underway - 1
  BY <1>2
<1>4. buffer[Wrap(out + HalfOut + 0)] = sent[Len(received) + 1 + 0]
  BY <1>3 DEF ContentInv, SlotsAgree
<1>5. Wrap(out + HalfOut + 0) = out
  BY <1>1, CondBufferAssumption DEF Wrap, TypeInv, TypeOK, Slot
<1>6. Len(received) + 1 + 0 \in 1 .. Len(sent) /\ Len(received) + 1 + 0 = Len(received) + 1
  BY <1>2 DEF Underway
<1> QED
  BY <1>2, <1>4, <1>5, <1>6 DEF TypeInv, TypeOK, Underway

\* The statements of a producer in the ring keep its content in order.
LEMMA ProducerContent ==
  ASSUME Pair, TypeInv, LockInv, ContentInv, NEW p \in Producer,
         PutWord(p) \/ AdvanceIn(p) \/ Increment(p)
  PROVE  ContentInv'
<1> USE CondBufferAssumption DEF Thread
<1>1. CASE PutWord(p)
  <2>1. /\ pc[p] = "put" /\ pc' = [pc EXCEPT ![p] = "advanceIn"]
        /\ buffer' = [buffer EXCEPT ![in] = produced[p]]
        /\ sent' = Append(sent, produced[p])
        /\ UNCHANGED <<in, out, received>>
    BY <1>1 DEF PutWord, Goto
  <2>2. /\ HalfIn = 0 /\ HalfOut = 0 /\ HalfTaken = 0
        /\ HalfIn' = 1 /\ HalfOut' = 0 /\ HalfTaken' = 0
        /\ \A u \in Thread : u # p => pc[u] \notin BufferPC /\ pc'[u] = pc[u]
        /\ pc'[p] = "advanceIn"
    BY <2>1, AloneInRing DEF BufferPC, If
  <2>3. /\ Underway \in 0 .. Length - 1 /\ Underway' = Underway + 1
        /\ in = Wrap(out + Underway)
        /\ Len(sent) \in Nat /\ Len(received) \in Nat /\ Len(sent') = Len(sent) + 1
        /\ in \in 0 .. Length - 1 /\ out \in 0 .. Length - 1
        /\ produced[p] \in Word
    <3>1. /\ Underway < Length /\ Underway \in 0 .. Length - HalfTaken
          /\ in = Wrap(out + HalfOut + Underway - HalfIn)
      BY <2>1 DEF ContentInv, IndicesAgree, RoomAndWord, PastTestPC
    <3>2. /\ in \in 0 .. Length - 1 /\ out \in 0 .. Length - 1
          /\ produced[p] \in Word /\ sent \in Seq(Word) /\ received \in Seq(Word)
      BY <2>1 DEF TypeInv, TypeOK, KindInv, HandPC, Slot
    <3>3. Underway' = Underway + 1
      BY <2>1, <3>2 DEF Underway
    <3>4. out + HalfOut + Underway - HalfIn = out + Underway
      BY <2>2, <3>1, <3>2
    <3> QED
      BY <2>1, <2>2, <3>1, <3>2, <3>3, <3>4
  <2>4. IndicesAgree'
    <3>1. out + HalfOut' + Underway' - HalfIn' = out + Underway
      BY <2>2, <2>3
    <3> QED
      BY <2>1, <2>2, <2>3, <3>1 DEF IndicesAgree
  <2>5. SlotsAgree'
    <3>1. ASSUME NEW j \in 0 .. Underway' - 1
          PROVE  buffer'[Wrap(out' + HalfOut' + j)] = sent'[Len(received') + 1 + j]
      <4>1. out' + HalfOut' + j = out + j /\ j \in 0 .. Underway
        BY <2>1, <2>2, <2>3
      <4>2. CASE j = Underway
        <5>1. Wrap(out' + HalfOut' + j) = in /\ Len(received') + 1 + j = Len(sent) + 1
          BY <2>1, <2>3, <4>1, <4>2 DEF Underway
        <5>2. buffer'[in] = produced[p] /\ sent'[Len(sent) + 1] = produced[p]
          BY <2>1, <2>3 DEF TypeInv, TypeOK
        <5> QED
          BY <5>1, <5>2
      <4>3. CASE j < Underway
        <5>1. Wrap(out + j) \in Slot /\ Wrap(out + j) # in
          BY <2>3, <4>1, <4>3 DEF Wrap, Slot
        <5>2. buffer'[Wrap(out + j)] = buffer[Wrap(out + j)]
          BY <2>1, <5>1 DEF TypeInv, TypeOK
        <5>3. Len(received) + 1 + j \in 1 .. Len(sent)
          BY <2>3, <4>1, <4>3 DEF Underway
        <5>4. sent'[Len(received) + 1 + j] = sent[Len(received) + 1 + j]
          BY <2>1, <2>3, <5>3 DEF TypeInv, TypeOK
        <5>5. buffer[Wrap(out + HalfOut + j)] = sent[Len(received) + 1 + j]
          <6>1. j \in 0 .. Underway - 1
            BY <2>3, <4>1, <4>3
          <6> QED
            BY <6>1 DEF ContentInv, SlotsAgree
        <5> QED
          BY <2>1, <2>2, <2>3, <4>1, <5>2, <5>4, <5>5
      <4> QED
        BY <2>3, <4>1, <4>2, <4>3
    <3>2. ASSUME NEW j \in HalfOut' + Underway' .. Length - 1
          PROVE  buffer'[Wrap(out' + j)] = NULL
      <4>1. j \in Underway + 1 .. Length - 1
        BY <2>2, <2>3
      <4>2. Wrap(out + j) \in Slot /\ Wrap(out + j) # in
        BY <2>3, <4>1 DEF Wrap, Slot
      <4>3. buffer[Wrap(out + j)] = NULL
        <5>1. j \in HalfOut + Underway .. Length - 1
          BY <2>2, <2>3, <4>1
        <5> QED
          BY <5>1 DEF ContentInv, SlotsAgree
      <4> QED
        BY <2>1, <4>2, <4>3 DEF TypeInv, TypeOK
    <3>3. \A c \in Consumer : pc'[c] # "advanceOut"
      BY <2>2 DEF BufferPC
    <3> QED
      BY <3>1, <3>2, <3>3 DEF SlotsAgree
  <2>6. RoomAndWord'
    <3>1. \A q \in Producer : pc'[q] \notin PastTestPC
      BY <2>2 DEF Pair, PastTestPC
    <3>2. \A c \in Consumer : Underway' > 0
      BY <2>3
    <3> QED
      BY <3>1, <3>2 DEF RoomAndWord
  <2> QED
    BY <2>4, <2>5, <2>6 DEF ContentInv
<1>2. CASE AdvanceIn(p)
  <2>1. /\ pc[p] = "advanceIn" /\ pc' = [pc EXCEPT ![p] = "increment"]
        /\ in' = (in + 1) % Length
        /\ UNCHANGED <<buffer, out, sent, received>>
    BY <1>2 DEF AdvanceIn, Goto
  <2>2. /\ HalfIn = 1 /\ HalfOut = 0 /\ HalfTaken = 0
        /\ HalfIn' = 0 /\ HalfOut' = 0 /\ HalfTaken' = 0
        /\ \A u \in Thread : u # p => pc[u] \notin BufferPC /\ pc'[u] = pc[u]
        /\ pc'[p] = "increment"
    BY <2>1, AloneInRing DEF BufferPC, If
  <2>3. Underway' = Underway
    BY <2>1 DEF Underway
  <2>4. IndicesAgree'
    <3>1. in' = Wrap(in + 1) /\ in \in 0 .. Length - 1 /\ out \in 0 .. Length - 1
      BY <2>1, NextSlot DEF TypeInv, TypeOK, Slot
    <3>2. in = Wrap(out + Underway - 1) /\ Underway \in 1 .. Length
      <4>1. Underway \in 1 .. Length
        BY <2>2 DEF ContentInv, IndicesAgree
      <4>2. out + HalfOut + Underway - HalfIn = out + Underway - 1
        BY <2>2, <3>1, <4>1
      <4> QED
        BY <4>1, <4>2 DEF ContentInv, IndicesAgree
    <3> QED
      BY <2>1, <2>2, <2>3, <3>1, <3>2 DEF IndicesAgree, Wrap
  <2>5. SlotsAgree'
    BY <2>1, <2>2, <2>3 DEF ContentInv, SlotsAgree, BufferPC
  <2>6. RoomAndWord'
    BY <2>2, <2>3 DEF ContentInv, RoomAndWord, PastTestPC
  <2> QED
    BY <2>4, <2>5, <2>6 DEF ContentInv
<1>3. CASE Increment(p)
  <2>1. /\ pc[p] = "increment" /\ pc' = [pc EXCEPT ![p] = "unlockBuffer"]
        /\ UNCHANGED <<buffer, in, out, sent, received>>
    BY <1>3 DEF Increment, Goto
  <2>2. /\ HalfIn = 0 /\ HalfOut = 0 /\ HalfTaken = 0
        /\ HalfIn' = 0 /\ HalfOut' = 0 /\ HalfTaken' = 0
        /\ \A u \in Thread : u # p => pc[u] \notin BufferPC /\ pc'[u] = pc[u]
        /\ pc'[p] = "unlockBuffer"
    BY <2>1, AloneInRing DEF BufferPC, If
  <2>3. Underway' = Underway
    BY <2>1 DEF Underway
  <2>4. IndicesAgree'
    BY <2>1, <2>2, <2>3 DEF ContentInv, IndicesAgree
  <2>5. SlotsAgree'
    BY <2>1, <2>2, <2>3 DEF ContentInv, SlotsAgree, BufferPC
  <2>6. RoomAndWord'
    BY <2>2, <2>3 DEF ContentInv, RoomAndWord, PastTestPC
  <2> QED
    BY <2>4, <2>5, <2>6 DEF ContentInv
<1> QED
  BY <1>1, <1>2, <1>3

\* The statements of a consumer in the ring keep its content in order.
LEMMA ConsumerContent ==
  ASSUME Pair, TypeInv, LockInv, ContentInv, NEW c \in Consumer,
         TakeWord(c) \/ ClearSlot(c) \/ AdvanceOut(c) \/ Decrement(c)
  PROVE  ContentInv'
<1> USE CondBufferAssumption DEF Thread
<1>1. CASE TakeWord(c)
  <2>1. /\ pc[c] = "take" /\ pc' = [pc EXCEPT ![c] = "clear"]
        /\ UNCHANGED <<buffer, in, out, sent>>
    BY <1>1 DEF TakeWord, Goto
  <2>2. /\ HalfIn = 0 /\ HalfOut = 0 /\ HalfTaken = 0
        /\ HalfIn' = 0 /\ HalfOut' = 1 /\ HalfTaken' = 1
        /\ \A u \in Thread : u # c => pc[u] \notin BufferPC /\ pc'[u] = pc[u]
        /\ pc'[c] = "clear"
    BY <2>1, AloneInRing DEF BufferPC, If
  <2>3. buffer[out] = sent[Len(received) + 1] /\ buffer[out] \in Word
    BY <2>1, NextWord
  <2>4. received' = Append(received, buffer[out])
    BY <1>1, <2>3 DEF TakeWord
  <2>5. /\ Underway \in 1 .. Length /\ Underway' = Underway - 1
        /\ Len(received) \in Nat /\ Len(received') = Len(received) + 1
        /\ out \in 0 .. Length - 1
    <3>1. Underway > 0 /\ Underway \in 0 .. Length - HalfTaken
      BY <2>1 DEF ContentInv, IndicesAgree, RoomAndWord, PastTestPC
    <3>2. /\ out \in 0 .. Length - 1 /\ sent \in Seq(Word) /\ received \in Seq(Word)
      BY DEF TypeInv, TypeOK, Slot
    <3> QED
      BY <2>1, <2>2, <2>3, <2>4, <3>1, <3>2 DEF Underway
  <2>6. IndicesAgree'
    <3>1. out' + HalfOut' + Underway' - HalfIn' = out + HalfOut + Underway - HalfIn
      BY <2>1, <2>2, <2>5
    <3> QED
      BY <2>1, <2>2, <2>5, <3>1 DEF ContentInv, IndicesAgree
  <2>7. SlotsAgree'
    <3>1. ASSUME NEW j \in 0 .. Underway' - 1
          PROVE  buffer[Wrap(out + HalfOut' + j)] = sent[Len(received') + 1 + j]
      <4>1. j + 1 \in 0 .. Underway - 1
        BY <2>5
      <4>2. buffer[Wrap(out + HalfOut + (j + 1))] = sent[Len(received) + 1 + (j + 1)]
        BY <4>1 DEF ContentInv, SlotsAgree
      <4>3. /\ out + HalfOut + (j + 1) = out + HalfOut' + j
            /\ Len(received) + 1 + (j + 1) = Len(received') + 1 + j
        BY <2>2, <2>5
      <4> QED
        BY <4>2, <4>3
    <3>2. HalfOut' + Underway' = HalfOut + Underway
      BY <2>2, <2>5
    <3>3. \A d \in Consumer : pc'[d] # "advanceOut"
      BY <2>2 DEF BufferPC
    <3> QED
      BY <2>1, <3>1, <3>2, <3>3 DEF ContentInv, SlotsAgree
  <2>8. RoomAndWord'
    <3>1. \A d \in Consumer : pc'[d] \notin PastTestPC
      BY <2>2 DEF Pair, PastTestPC
    <3>2. Underway' < Length
      BY <2>5
    <3> QED
      BY <3>1, <3>2 DEF RoomAndWord
  <2> QED
    BY <2>6, <2>7, <2>8 DEF ContentInv
<1>2. CASE ClearSlot(c)
  <2>1. /\ pc[c] = "clear" /\ pc' = [pc EXCEPT ![c] = "advanceOut"]
        /\ buffer' = [buffer EXCEPT ![out] = NULL]
        /\ UNCHANGED <<in, out, sent, received>>
    BY <1>2 DEF ClearSlot, Goto
  <2>2. /\ HalfIn = 0 /\ HalfOut = 1 /\ HalfTaken = 1
        /\ HalfIn' = 0 /\ HalfOut' = 1 /\ HalfTaken' = 1
        /\ \A u \in Thread : u # c => pc[u] \notin BufferPC /\ pc'[u] = pc[u]
        /\ pc'[c] = "advanceOut"
    BY <2>1, AloneInRing DEF BufferPC, If
  <2>3. /\ Underway' = Underway /\ Underway \in 0 .. Length - 1
        /\ out \in 0 .. Length - 1
    BY <2>1, <2>2 DEF Underway, ContentInv, IndicesAgree, TypeInv, TypeOK, Slot
  <2>4. IndicesAgree'
    BY <2>1, <2>2, <2>3 DEF ContentInv, IndicesAgree
  <2>5. SlotsAgree'
    <3>1. ASSUME NEW j \in 1 .. Length - 1
          PROVE  buffer'[Wrap(out + j)] = buffer[Wrap(out + j)]
      <4>1. Wrap(out + j) # out
        BY <2>3 DEF Wrap
      <4> QED
        BY <2>1, <4>1 DEF TypeInv, TypeOK
    <3>2. ASSUME NEW j \in 0 .. Underway - 1
          PROVE  buffer'[Wrap(out + HalfOut + j)] = sent[Len(received) + 1 + j]
      <4>1. buffer[Wrap(out + HalfOut + j)] = sent[Len(received) + 1 + j]
        BY DEF ContentInv, SlotsAgree
      <4>2. out + HalfOut + j = out + (1 + j) /\ 1 + j \in 1 .. Length - 1
        BY <2>2, <2>3
      <4> QED
        BY <3>1, <4>1, <4>2
    <3>3. ASSUME NEW j \in HalfOut + Underway .. Length - 1
          PROVE  buffer'[Wrap(out + j)] = NULL
      <4>1. buffer[Wrap(out + j)] = NULL
        BY DEF ContentInv, SlotsAgree
      <4>2. j \in 1 .. Length - 1
        BY <2>2, <2>3
      <4> QED
        BY <3>1, <4>1, <4>2
    <3>4. buffer'[out] = NULL
      BY <2>1, <2>3 DEF TypeInv, TypeOK, Slot
    <3> QED
      BY <2>1, <2>2, <2>3, <3>2, <3>3, <3>4 DEF SlotsAgree
  <2>6. RoomAndWord'
    BY <2>2, <2>3 DEF ContentInv, RoomAndWord, PastTestPC
  <2> QED
    BY <2>4, <2>5, <2>6 DEF ContentInv
<1>3. CASE AdvanceOut(c)
  <2>1. /\ pc[c] = "advanceOut" /\ pc' = [pc EXCEPT ![c] = "decrement"]
        /\ out' = (out + 1) % Length
        /\ UNCHANGED <<buffer, in, sent, received>>
    BY <1>3 DEF AdvanceOut, Goto
  <2>2. /\ HalfIn = 0 /\ HalfOut = 1 /\ HalfTaken = 1
        /\ HalfIn' = 0 /\ HalfOut' = 0 /\ HalfTaken' = 1
        /\ \A u \in Thread : u # c => pc[u] \notin BufferPC /\ pc'[u] = pc[u]
        /\ pc'[c] = "decrement"
    BY <2>1, AloneInRing DEF BufferPC, If
  <2>3. /\ Underway' = Underway /\ Underway \in 0 .. Length - 1
        /\ out \in 0 .. Length - 1 /\ out' = Wrap(out + 1)
    BY <2>1, <2>2, NextSlot DEF Underway, ContentInv, IndicesAgree, TypeInv, TypeOK, Slot
  <2>4. IndicesAgree'
    <3>1. in = Wrap(out + (1 + Underway))
      <4>1. out + HalfOut + Underway - HalfIn = out + (1 + Underway)
        BY <2>2, <2>3
      <4> QED
        BY <4>1 DEF ContentInv, IndicesAgree
    <3>2. in = Wrap(out' + Underway)
      BY <2>3, <3>1 DEF Wrap
    <3>3. out' + HalfOut' + Underway' - HalfIn' = out' + Underway
      BY <2>2, <2>3 DEF Wrap
    <3> QED
      BY <2>1, <2>2, <2>3, <3>2, <3>3 DEF IndicesAgree
  <2>5. SlotsAgree'
    <3>1. ASSUME NEW j \in 0 .. Underway - 1
          PROVE  buffer[Wrap(out' + HalfOut' + j)] = sent[Len(received) + 1 + j]
      <4>1. buffer[Wrap(out + HalfOut + j)] = sent[Len(received) + 1 + j]
        BY DEF ContentInv, SlotsAgree
      <4>2. Wrap(out' + HalfOut' + j) = Wrap(out + HalfOut + j)
        BY <2>2, <2>3 DEF Wrap
      <4> QED
        BY <4>1, <4>2
    <3>2. ASSUME NEW j \in Underway .. Length - 1
          PROVE  buffer[Wrap(out' + j)] = NULL
      <4>1. CASE j = Length - 1
        <5>1. Wrap(out' + j) = out
          BY <2>3, <4>1 DEF Wrap
        <5> QED
          BY <2>1, <5>1 DEF ContentInv, SlotsAgree
      <4>2. CASE j < Length - 1
        <5>1. Wrap(out' + j) = Wrap(out + (1 + j)) /\ 1 + j \in HalfOut + Underway .. Length - 1
          BY <2>2, <2>3, <4>2 DEF Wrap
        <5> QED
          BY <5>1 DEF ContentInv, SlotsAgree
      <4> QED
        BY <2>3, <4>1, <4>2
    <3>3. \A d \in Consumer : pc'[d] # "advanceOut"
      BY <2>2 DEF BufferPC
    <3>4. HalfOut' + Underway' = Underway
      BY <2>2, <2>3
    <3> QED
      BY <2>1, <2>2, <2>3, <3>1, <3>2, <3>3, <3>4 DEF SlotsAgree
  <2>6. RoomAndWord'
    BY <2>2, <2>3 DEF ContentInv, RoomAndWord, PastTestPC
  <2> QED
    BY <2>4, <2>5, <2>6 DEF ContentInv
<1>4. CASE Decrement(c)
  <2>1. /\ pc[c] = "decrement" /\ pc' = [pc EXCEPT ![c] = "unlockBuffer"]
        /\ UNCHANGED <<buffer, in, out, sent, received>>
    BY <1>4 DEF Decrement, Goto
  <2>2. /\ HalfIn = 0 /\ HalfOut = 0 /\ HalfTaken = 1
        /\ HalfIn' = 0 /\ HalfOut' = 0 /\ HalfTaken' = 0
        /\ \A u \in Thread : u # c => pc[u] \notin BufferPC /\ pc'[u] = pc[u]
        /\ pc'[c] = "unlockBuffer"
    BY <2>1, AloneInRing DEF BufferPC, If
  <2>3. Underway' = Underway
    BY <2>1 DEF Underway
  <2>4. IndicesAgree'
    <3>1. Underway' \in 0 .. Length - HalfTaken'
      BY <2>2, <2>3 DEF ContentInv, IndicesAgree
    <3> QED
      BY <2>1, <2>2, <2>3, <3>1 DEF ContentInv, IndicesAgree
  <2>5. SlotsAgree'
    BY <2>1, <2>2, <2>3 DEF ContentInv, SlotsAgree, BufferPC
  <2>6. RoomAndWord'
    BY <2>2, <2>3 DEF ContentInv, RoomAndWord, PastTestPC
  <2> QED
    BY <2>4, <2>5, <2>6 DEF ContentInv
<1> QED
  BY <1>1, <1>2, <1>3, <1>4

(* With one producer and one consumer the ring always holds the words sent   *)
(* and not received, in their order, and no consumer reads an empty slot.    *)
THEOREM PairHoldsWords == ASSUME Pair PROVE Spec => [](ContentInv /\ proc # "crashed")
<1>1. Init => ContentInv /\ proc # "crashed"
  BY InitContent
<1>2. RingIInv /\ ContentInv /\ proc # "crashed" /\ [Next]_vars
        => (ContentInv /\ proc # "crashed")'
  <2> SUFFICES ASSUME RingIInv, ContentInv, proc # "crashed", [Next]_vars
               PROVE  ContentInv' /\ proc' # "crashed"
    OBVIOUS
  <2> USE DEF RingIInv
  <2>1. CASE UNCHANGED vars
    BY <2>1, QuietContent DEF vars, ring
  <2>2. ASSUME NEW p \in Producer, ProducerStep(p)
        PROVE  ContentInv'
    BY <2>2, OtherContent, TestContent, ProducerContent DEF ProducerStep, Thread
  <2>3. ASSUME NEW c \in Consumer, ConsumerStep(c)
        PROVE  ContentInv'
    BY <2>3, OtherContent, TestContent, ConsumerContent DEF ConsumerStep, Thread
  <2>4. ASSUME \/ \E t \in Thread : CreateThread(t) \/ SpuriousWakeup(t)
               \/ Interrupt \/ Kill \/ Ended
        PROVE  ContentInv'
    BY <2>4, OtherContent
  <2>5. proc' # "crashed"
    <3>1. ASSUME NEW c \in Consumer, TakeWord(c)
          PROVE  proc' # "crashed"
      <4>1. pc[c] = "take"
        BY <3>1 DEF TakeWord, Goto
      <4>2. buffer[out] # NULL
        BY <4>1, NextWord, CondBufferAssumption
      <4> QED
        BY <3>1, <4>2 DEF TakeWord
    <3>2. CASE ~ \E c \in Consumer : TakeWord(c)
      BY <3>2
      DEF Next, ProducerStep, ConsumerStep, Synchronise, CreateThread, SpuriousWakeup,
          CheckEnd, LockGuard, Test, Wait, UnlockGuard, LockBuffer, UnlockBuffer,
          LockAnnounced, Broadcast, UnlockAnnounced, Read, Exit, PutWord, AdvanceIn,
          Increment, ClearSlot, AdvanceOut, Decrement, Interrupt, Kill, Ended, vars
    <3> QED
      BY <3>1, <3>2
  <2> QED
    BY <2>1, <2>2, <2>3, <2>4, <2>5 DEF Next
<1> QED
  BY <1>1, <1>2, CountersCorrect, PTL DEF Spec

(* With one producer and one consumer no consumer ever copies from an empty  *)
(* slot, which would be a null dereference.                                  *)
THEOREM NoNullReadHolds == ASSUME Pair PROVE Spec => []NoNullRead
<1>1. ContentInv /\ proc # "crashed" => NoNullRead
  BY DEF NoNullRead
<1> QED
  BY <1>1, PairHoldsWords, PTL

(* With one producer and one consumer every step on the ring is a step of a  *)
(* bounded FIFO channel, or changes neither the words sent nor the received. *)
THEOREM ChannelImplemented == ASSUME Pair PROVE Spec => ImplementsChannel
<1> DEFINE Inv == RingIInv /\ ContentInv
<1>1. Init => Channel!Init
  BY DEF Init, Channel!Init
<1>2. Inv /\ [Next]_vars => [Channel!Next]_(Channel!vars)
  <2> SUFFICES ASSUME Inv, [Next]_vars
               PROVE  [Channel!Next]_(Channel!vars)
    OBVIOUS
  <2> USE DEF RingIInv
  <2>1. ASSUME NEW p \in Producer, PutWord(p)
        PROVE  Channel!Next
    <3>1. pc[p] = "put" /\ sent' = Append(sent, produced[p]) /\ received' = received
      BY <2>1 DEF PutWord, Goto
    <3>2. produced[p] \in Word
      BY <3>1 DEF TypeInv, KindInv, HandPC
    <3>3. Len(sent) - Len(received) < Length
      BY <3>1 DEF ContentInv, RoomAndWord, PastTestPC, Underway
    <3> QED
      BY <3>1, <3>2, <3>3 DEF Channel!Next, Channel!Put
  <2>2. ASSUME NEW c \in Consumer, TakeWord(c)
        PROVE  Channel!Next
    <3>1. pc[c] = "take" /\ sent' = sent
      BY <2>2 DEF TakeWord, Goto
    <3>2. /\ buffer[out] = sent[Len(received) + 1] /\ buffer[out] # NULL
          /\ Len(received) < Len(sent)
      BY <3>1, NextWord, CondBufferAssumption
    <3>3. received' = Append(received, buffer[out])
      BY <2>2, <3>2 DEF TakeWord
    <3> QED
      BY <3>1, <3>2, <3>3 DEF Channel!Next, Channel!Get
  <2>3. CASE ~ ((\E p \in Producer : PutWord(p)) \/ (\E c \in Consumer : TakeWord(c)))
    BY <2>3
    DEF Next, ProducerStep, ConsumerStep, Synchronise, CreateThread, SpuriousWakeup,
        CheckEnd, LockGuard, Test, Wait, UnlockGuard, LockBuffer, UnlockBuffer,
        LockAnnounced, Broadcast, UnlockAnnounced, Read, Exit, AdvanceIn,
        Increment, ClearSlot, AdvanceOut, Decrement, Interrupt, Kill, Ended, vars, ring,
        Channel!vars
  <2> QED
    BY <2>1, <2>2, <2>3
<1>3. Spec => []Inv
  BY CountersCorrect, PairHoldsWords, PTL
<1> QED
  BY <1>1, <1>2, <1>3, PTL DEF Spec, ImplementsChannel, Channel!Spec
===============================================================================
