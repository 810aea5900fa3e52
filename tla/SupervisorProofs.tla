---------------------------- MODULE SupervisorProofs ----------------------------
(***************************************************************************)
(* Theorems about Supervisor, for every number of processes and of times   *)
(* Ctrl-Z is pressed, with and without the shell.                          *)
(***************************************************************************)
EXTENDS Supervisor, TLAPS

FrameSet == [pc : Statement, pid : Pid]

\* The two sets of values TypeOK is about are small; every leaf may look into them.
USE DEF Statement, Pid

(* The calls of startMain are a stack; a process number that was not given   *)
(* yet is nobody's, and no variable of the program holds it.                 *)
TypeInv == TypeOK /\ frames \in [Process -> Seq(FrameSet)]

Own(p, c) == c \in Process /\ parent[c] = p
There(c)  == Alive(c) \/ status[c] = "zombie"

PastInv ==
  /\ \A p \in Process : status[p] = "none" =>
       parent[p] = 0 /\ frames[p] = <<>> /\ \A c : ~ Own(p, c)
  /\ \A p \in Process \ {1} : status[p] # "none" => parent[p] \in Process
  /\ \A p \in Process : childPid[p] \in Process => status[childPid[p]] # "none"
  /\ \A p \in Process : \A i \in DOMAIN frames[p] :
       frames[p][i].pid \in Process => status[frames[p][i].pid] # "none"

LEMMA Numbers == 0 \notin Process /\ -1 \notin Process /\ 1 \in Process
<1>1. PICK n : Process = 1 .. n /\ 1 \in Process
  BY SupervisorAssumption
<1>2. 0 \notin 1 .. n /\ -1 \notin 1 .. n
  OBVIOUS
<1> QED
  BY <1>1, <1>2

LEMMA ExistsIs == \A c \in Process : Exists(c) <=> There(c)
  BY Numbers DEF Exists, There, Alive

\* A running process is of its own group.
LEMMA GroupExists == \A p \in Process : status[p] = "running" => Exists(0)
  BY DEF Exists, Alive
-------------------------------------------------------------------------------
\* The stack of p once its top is another frame, and without its top.
LEMMA TopChanges ==
  ASSUME TypeInv, NEW p \in Process, ~ Shell(p), NEW pc, NEW pid,
         Frame(pc, pid) \in FrameSet
  PROVE  /\ Goto(p, pc, pid) \in Seq(FrameSet)
         /\ Len(Goto(p, pc, pid)) = Len(frames[p]) /\ Len(frames[p]) \in Nat \ {0}
         /\ DOMAIN frames[p] = 1 .. Len(frames[p])
         /\ DOMAIN Goto(p, pc, pid) = 1 .. Len(frames[p])
         /\ \A i \in 1 .. Len(frames[p]) : i # Len(frames[p]) => Goto(p, pc, pid)[i] = frames[p][i]
         /\ Goto(p, pc, pid)[Len(frames[p])] = Frame(pc, pid)
<1>1. frames[p] \in Seq(FrameSet) /\ frames[p] # <<>>
  BY DEF TypeInv, Shell
<1>2. Len(frames[p]) \in Nat \ {0} /\ DOMAIN frames[p] = 1 .. Len(frames[p])
  BY <1>1
<1>3. Goto(p, pc, pid) \in Seq(FrameSet)
  BY <1>1 DEF Goto
<1>4. DOMAIN Goto(p, pc, pid) = DOMAIN frames[p]
  BY DEF Goto
<1>5. Len(Goto(p, pc, pid)) = Len(frames[p])
  BY <1>2, <1>3, <1>4
<1>6. /\ \A i \in 1 .. Len(frames[p]) : i # Len(frames[p]) => Goto(p, pc, pid)[i] = frames[p][i]
      /\ Goto(p, pc, pid)[Len(frames[p])] = Frame(pc, pid)
  BY <1>2 DEF Goto
<1> QED
  BY <1>2, <1>3, <1>4, <1>5, <1>6

LEMMA TopIs ==
  ASSUME TypeInv, NEW p \in Process, ~ Shell(p)
  PROVE  /\ Len(frames[p]) \in Nat \ {0} /\ DOMAIN frames[p] = 1 .. Len(frames[p])
         /\ Top(p) = frames[p][Len(frames[p])] /\ Top(p) \in FrameSet
<1>1. frames[p] \in Seq(FrameSet) /\ frames[p] # <<>>
  BY DEF TypeInv, Shell
<1>2. Len(frames[p]) \in Nat \ {0} /\ DOMAIN frames[p] = 1 .. Len(frames[p])
  BY <1>1
<1>3. Top(p) = frames[p][Len(frames[p])]
  BY DEF Top, Last
<1> QED
  BY <1>1, <1>2, <1>3

LEMMA FrontIs ==
  ASSUME TypeInv, NEW p \in Process, Len(frames[p]) # 1, ~ Shell(p)
  PROVE  /\ Front(frames[p]) \in Seq(FrameSet)
         /\ DOMAIN Front(frames[p]) = 1 .. Len(frames[p]) - 1
         /\ Len(Front(frames[p])) = Len(frames[p]) - 1
         /\ \A i \in 1 .. Len(frames[p]) - 1 : Front(frames[p])[i] = frames[p][i]
<1>0. Len(frames[p]) \in Nat \ {0}
  BY TopIs
<1>1. frames[p] \in Seq(FrameSet)
  BY DEF TypeInv
<1>2. Len(frames[p]) \in Nat /\ Len(frames[p]) > 1
  <2>1. \A n \in Nat \ {0} : n # 1 => n > 1
    OBVIOUS
  <2> QED
    BY <1>0, <2>1
<1> QED
  BY <1>1, <1>2 DEF Front

\* A handler wakes a call that sleeps, and may call startMain once more.
LEMMA WokenIs ==
  ASSUME TypeInv, NEW p \in Process, ~ Shell(p)
  PROVE  /\ Woken(p) \in Seq(FrameSet) /\ Len(Woken(p)) = Len(frames[p])
         /\ DOMAIN Woken(p) = 1 .. Len(frames[p])
         /\ \A i \in 1 .. Len(frames[p]) :
              \/ Woken(p)[i] = frames[p][i]
              \/ frames[p][i].pc = "sleep" /\ Woken(p)[i] = Frame("test", 0)
<1>1. CASE Top(p).pc = "sleep"
  <2>1. Frame("test", 0) \in FrameSet
    BY DEF Frame, FrameSet
  <2>2. Woken(p) = Goto(p, "test", 0)
    BY <1>1 DEF Woken
  <2> QED
    BY <1>1, <2>1, <2>2, TopIs, TopChanges
<1>2. CASE Top(p).pc # "sleep"
  BY <1>2, TopIs DEF Woken, TypeInv
<1> QED
  BY <1>1, <1>2

LEMMA CalledIs ==
  ASSUME TypeInv, NEW p \in Process, ~ Shell(p)
  PROVE  /\ Append(Woken(p), Frame("fork", 0)) \in Seq(FrameSet)
         /\ Len(Append(Woken(p), Frame("fork", 0))) = Len(frames[p]) + 1
         /\ DOMAIN Append(Woken(p), Frame("fork", 0)) = 1 .. Len(frames[p]) + 1
         /\ \A i \in 1 .. Len(frames[p]) :
              Append(Woken(p), Frame("fork", 0))[i] = Woken(p)[i]
         /\ Append(Woken(p), Frame("fork", 0))[Len(frames[p]) + 1] = Frame("fork", 0)
<1>1. Frame("fork", 0) \in FrameSet
  BY DEF Frame, FrameSet
<1> QED
  BY <1>1, WokenIs
-------------------------------------------------------------------------------
Statuses == {"none", "running", "stopped", "zombie", "gone"}

LEMMA TypeInit == Init => TypeInv
<1> SUFFICES ASSUME Init PROVE TypeInv
  OBVIOUS
<1>1. frames \in [Process -> Seq(FrameSet)]
  <2>1. Frame("fork", 0) \in FrameSet
    BY DEF Frame, FrameSet
  <2>2. <<Frame("fork", 0)>> \in Seq(FrameSet) /\ <<>> \in Seq(FrameSet)
    BY <2>1
  <2> QED
    BY <2>2 DEF Init
<1>2. noShell \in BOOLEAN /\ interrupted \in BOOLEAN
  BY DEF Init
<1>3. stops \in 0 .. MaxStops[noShell]
  <2>1. MaxStops[noShell] \in Nat
    BY <1>2, SupervisorAssumption
  <2> QED
    BY <2>1 DEF Init
<1>4. /\ status \in [Process -> Statuses] /\ parent \in [Process -> Process \cup {0}]
      /\ childPid \in [Process -> Pid]
      /\ pending \in [Process -> SUBSET {"TSTP", "INT"}]
  BY DEF Init, Statuses
<1>5. \A p \in Process : \A i \in DOMAIN frames[p] : frames[p][i] \in FrameSet
  BY <1>1
<1> QED
  BY <1>1, <1>2, <1>3, <1>4, <1>5 DEF TypeInv, TypeOK, FrameSet, Statuses

\* What is left of the types once the stacks are.
LEMMA TypeFrame ==
  ASSUME TypeInv, frames' \in [Process -> Seq(FrameSet)],
         status' \in [Process -> Statuses], parent' \in [Process -> Process \cup {0}],
         childPid' \in [Process -> Pid],
         pending' \in [Process -> SUBSET {"TSTP", "INT"}],
         UNCHANGED keyboard
  PROVE  TypeInv'
<1>1. \A p \in Process : \A i \in DOMAIN frames'[p] : frames'[p][i] \in FrameSet
  OBVIOUS
<1>2. /\ stops' \in 0 .. MaxStops[noShell'] /\ interrupted' \in BOOLEAN
      /\ noShell' \in BOOLEAN
  BY DEF keyboard, TypeInv, TypeOK
<1> QED
  BY <1>1, <1>2 DEF TypeInv, TypeOK, FrameSet, Statuses

LEMMA KillType ==
  ASSUME TypeInv, NEW p, NEW x, Kill(p, x)
  PROVE  status' \in [Process -> Statuses]
  BY DEF Kill, TypeInv, TypeOK, Statuses

\* The stack of a process changes at its top.
LEMMA TopType ==
  ASSUME TypeInv, NEW p \in Process, ~ Shell(p),
         NEW pc \in Statement,
         NEW pid \in Pid,
         frames' = [frames EXCEPT ![p] = Goto(p, pc, pid)]
  PROVE  frames' \in [Process -> Seq(FrameSet)]
<1>1. Frame(pc, pid) \in FrameSet
  BY DEF Frame, FrameSet
<1>2. Goto(p, pc, pid) \in Seq(FrameSet)
  BY <1>1, TopChanges
<1> QED
  BY <1>2 DEF TypeInv

\* The statement that follows the assignment of fork's result.
After(pid) == CASE pid = 0 -> "exec" [] pid = -1 -> "exit" [] OTHER -> "callWait"

\* What After is for a child, a failure and a parent, and that it is nothing else.
LEMMA AfterIs ==
  /\ After(0) = "exec" /\ After(-1) = "exit"
  /\ \A pid : pid \notin {0, -1} => After(pid) = "callWait"
  /\ \A pid : After(pid) \in {"exec", "exit", "callWait"}
  BY DEF After

LEMMA StepType == ASSUME TypeInv, NEW p \in Process, Step(p) PROVE TypeInv'
<1>0. /\ status \in [Process -> Statuses] /\ parent \in [Process -> Process \cup {0}]
      /\ childPid \in [Process -> Pid]
      /\ pending \in [Process -> SUBSET {"TSTP", "INT"}]
      /\ frames \in [Process -> Seq(FrameSet)]
  BY DEF TypeInv, TypeOK, Statuses
<1>1. ~ Shell(p) => Top(p).pid \in Pid
  BY TopIs DEF FrameSet
<1>2. CASE Fork(p)
  <2>1. PICK c \in Process :
          /\ status[c] = "none" /\ status[p] = "running" /\ ~ Shell(p)
          /\ status' = [status EXCEPT ![c] = "running"]
          /\ parent' = [parent EXCEPT ![c] = p]
          /\ childPid' = [childPid EXCEPT ![c] = childPid[p]]
          /\ frames' = [frames EXCEPT ![p] = Goto(p, "store", c), ![c] = Goto(p, "store", 0)]
          /\ UNCHANGED <<pending, keyboard>>
    BY <1>2 DEF Fork, At
  <2>2. Frame("store", c) \in FrameSet /\ Frame("store", 0) \in FrameSet
    BY DEF Frame, FrameSet
  <2>3. Goto(p, "store", c) \in Seq(FrameSet) /\ Goto(p, "store", 0) \in Seq(FrameSet)
    BY <2>1, <2>2, TopChanges
  <2>4. frames' \in [Process -> Seq(FrameSet)]
    BY <1>0, <2>1, <2>3
  <2>5. /\ status' \in [Process -> Statuses] /\ parent' \in [Process -> Process \cup {0}]
        /\ childPid' \in [Process -> Pid]
        /\ pending' \in [Process -> SUBSET {"TSTP", "INT"}] /\ UNCHANGED keyboard
    BY <1>0, <2>1 DEF Statuses
  <2> QED
    BY <2>4, <2>5, TypeFrame
<1>3. CASE Exit(p) \/ ShellEnds(p)
  <2>1. Kill(p, p) /\ UNCHANGED <<parent, childPid, frames, pending, keyboard>>
    BY <1>3 DEF Exit, ShellEnds, Ends
  <2> QED
    BY <1>0, <2>1, KillType, TypeFrame
<1>4. CASE Store(p)
  <2>1. /\ ~ Shell(p) /\ childPid' = [childPid EXCEPT ![p] = Top(p).pid]
        /\ frames' = [frames EXCEPT ![p] = Goto(p, After(Top(p).pid), 0)]
        /\ UNCHANGED <<status, parent, pending, keyboard>>
    BY <1>4 DEF Store, At, After
  <2>2. frames' \in [Process -> Seq(FrameSet)]
    BY <2>1, TopType, AfterIs
  <2>3. childPid' \in [Process -> Pid]
    BY <1>0, <1>1, <2>1
  <2> QED
    BY <1>0, <2>1, <2>2, <2>3, TypeFrame
<1>5. CASE Exec(p)
  <2>1. /\ ~ Shell(p) /\ UNCHANGED <<status, parent, childPid, pending, keyboard>>
        /\ \/ frames' = [frames EXCEPT ![p] = Goto(p, "sleep", 0)]
           \/ frames' = [frames EXCEPT ![p] = <<>>]
    BY <1>5 DEF Exec, At
  <2>2. frames' \in [Process -> Seq(FrameSet)]
    <3>1. CASE frames' = [frames EXCEPT ![p] = Goto(p, "sleep", 0)]
      BY <2>1, <3>1, TopType
    <3>2. CASE frames' = [frames EXCEPT ![p] = <<>>]
      BY <1>0, <3>2
    <3> QED
      BY <2>1, <3>1, <3>2
  <2> QED
    BY <1>0, <2>1, <2>2, TypeFrame
<1>6. CASE CallWait(p)
  <2>1. /\ ~ Shell(p) /\ UNCHANGED <<status, parent, childPid, pending, keyboard>>
        /\ frames' = [frames EXCEPT ![p] = Goto(p, "wait", childPid[p])]
    BY <1>6 DEF CallWait, At
  <2>2. frames' \in [Process -> Seq(FrameSet)]
    BY <1>0, <2>1, TopType
  <2> QED
    BY <1>0, <2>1, <2>2, TypeFrame
<1>7. CASE Wait(p)
  <2>1. /\ ~ Shell(p) /\ UNCHANGED <<parent, childPid, pending, keyboard>>
        /\ frames' = [frames EXCEPT ![p] = Goto(p, "sleep", 0)]
        /\ status' = [status EXCEPT ![Top(p).pid] = "gone"] \/ status' = status
    BY <1>7 DEF Wait, At
  <2>2. frames' \in [Process -> Seq(FrameSet)]
    BY <2>1, TopType
  <2>3. status' \in [Process -> Statuses]
    BY <1>0, <2>1 DEF Statuses
  <2> QED
    BY <1>0, <2>1, <2>2, <2>3, TypeFrame
<1>8. CASE Sleep(p) \/ Again(p) \/ ForkFails(p)
  <2>1. /\ ~ Shell(p) /\ UNCHANGED <<status, parent, childPid, pending, keyboard>>
        /\ \/ frames' = [frames EXCEPT ![p] = Goto(p, "test", 0)]
           \/ frames' = [frames EXCEPT ![p] = Goto(p, "fork", 0)]
           \/ frames' = [frames EXCEPT ![p] = Goto(p, "store", -1)]
    BY <1>8 DEF Sleep, Again, ForkFails, At
  <2>2. frames' \in [Process -> Seq(FrameSet)]
    BY <2>1, TopType
  <2> QED
    BY <1>0, <2>1, <2>2, TypeFrame
<1>9. CASE Return(p)
  <2>1. ~ Shell(p) /\ UNCHANGED <<parent, childPid, pending, keyboard>>
    BY <1>9 DEF Return, At
  <2>2. CASE Len(frames[p]) = 1
    <3>1. Kill(p, p) /\ UNCHANGED frames
      BY <1>9, <2>2 DEF Return, Ends
    <3> QED
      BY <1>0, <2>1, <3>1, KillType, TypeFrame
  <2>3. CASE Len(frames[p]) # 1
    <3>1. frames' = [frames EXCEPT ![p] = Front(frames[p])] /\ UNCHANGED status
      BY <1>9, <2>3 DEF Return
    <3>2. frames' \in [Process -> Seq(FrameSet)]
      BY <1>0, <2>1, <2>3, <3>1, FrontIs
    <3> QED
      BY <1>0, <2>1, <3>1, <3>2, TypeFrame
  <2> QED
    BY <2>2, <2>3
<1> QED
  BY <1>2, <1>3, <1>4, <1>5, <1>6, <1>7, <1>8, <1>9 DEF Step

LEMMA DeliverType == ASSUME TypeInv, NEW p \in Process, Deliver(p) PROVE TypeInv'
<1>0. /\ status \in [Process -> Statuses] /\ parent \in [Process -> Process \cup {0}]
      /\ childPid \in [Process -> Pid]
      /\ pending \in [Process -> SUBSET {"TSTP", "INT"}]
      /\ frames \in [Process -> Seq(FrameSet)]
  BY DEF TypeInv, TypeOK, Statuses
<1>1. /\ UNCHANGED <<parent, childPid, keyboard>>
      /\ pending' \in [Process -> SUBSET {"TSTP", "INT"}]
  BY <1>0 DEF Deliver, HandleSignalStp, HandleSignalInt, ShellSignal, Handles
<1>2. status' \in [Process -> Statuses]
  <2>1. CASE HandleSignalStp(p)
    <3>1. UNCHANGED status \/ Kill(p, childPid[p])
      BY <2>1 DEF HandleSignalStp, KillRunning
    <3> QED
      BY <1>0, <3>1, KillType
  <2>2. CASE HandleSignalInt(p)
    BY <1>0, <2>2 DEF HandleSignalInt, Statuses
  <2>3. CASE ShellSignal(p)
    <3>1. status' = [status EXCEPT ![p] = "stopped"] \/ Kill(p, p)
      BY <2>3 DEF ShellSignal, Ends
    <3> QED
      BY <1>0, <3>1, KillType DEF Statuses
  <2> QED
    BY <2>1, <2>2, <2>3 DEF Deliver
<1>3. frames' \in [Process -> Seq(FrameSet)]
  <2>1. CASE HandleSignalStp(p)
    <3>1. /\ ~ Shell(p)
          /\ \/ frames' = [frames EXCEPT ![p] = Woken(p)]
             \/ frames' = [frames EXCEPT ![p] = Append(Woken(p), Frame("fork", 0))]
      BY <2>1 DEF HandleSignalStp
    <3>2. Woken(p) \in Seq(FrameSet) /\ Append(Woken(p), Frame("fork", 0)) \in Seq(FrameSet)
      BY <3>1, WokenIs, CalledIs
    <3> QED
      BY <1>0, <3>1, <3>2
  <2>2. CASE HandleSignalInt(p) \/ ShellSignal(p)
    BY <1>0, <2>2 DEF HandleSignalInt, ShellSignal
  <2> QED
    BY <2>1, <2>2 DEF Deliver
<1> QED
  BY <1>0, <1>1, <1>2, <1>3, TypeFrame

LEMMA KeyType == ASSUME TypeInv, CtrlZ \/ CtrlC PROVE TypeInv'
<1>1. UNCHANGED <<status, parent, childPid, frames, noShell>>
  BY DEF CtrlZ, CtrlC
<1>2. pending' \in [Process -> SUBSET {"TSTP", "INT"}]
  <2>1. PICK s \in {"TSTP", "INT"} : Press(s)
    BY DEF CtrlZ, CtrlC
  <2>2. pending \in [Process -> SUBSET {"TSTP", "INT"}]
    BY DEF TypeInv, TypeOK
  <2>3. \A p \in Process : pending[p] \cup {s} \in SUBSET {"TSTP", "INT"}
    BY <2>2
  <2> QED
    BY <2>1, <2>2, <2>3 DEF Press
<1>3. stops' \in 0 .. MaxStops[noShell']
  <2>1. noShell \in BOOLEAN /\ stops \in 0 .. MaxStops[noShell]
    BY DEF TypeInv, TypeOK
  <2>2. MaxStops[noShell] \in Nat
    BY <2>1, SupervisorAssumption
  <2>3. CASE CtrlZ
    <3>1. stops < MaxStops[noShell] /\ stops' = stops + 1 /\ noShell' = noShell
      BY <2>3 DEF CtrlZ
    <3> QED
      BY <2>1, <2>2, <3>1
  <2>4. CASE CtrlC
    <3>1. stops' = stops /\ noShell' = noShell
      BY <2>4 DEF CtrlC
    <3> QED
      BY <2>1, <3>1
  <2> QED
    BY <2>3, <2>4
<1>4. interrupted' \in BOOLEAN
  BY DEF CtrlZ, CtrlC, TypeInv, TypeOK
<1> QED
  BY <1>1, <1>2, <1>3, <1>4 DEF TypeInv, TypeOK

\* Every process has a stack of calls of startMain, and childPid, parent and the
\* numbers on the stack are those of processes, or 0.
THEOREM TypeCorrect == Spec => []TypeInv
<1>1. TypeInv /\ [Next]_vars => TypeInv'
  <2>1. TypeInv /\ Next => TypeInv'
    BY StepType, DeliverType, KeyType DEF Next
  <2>2. TypeInv /\ UNCHANGED vars => TypeInv'
    BY DEF vars, keyboard, TypeInv, TypeOK
  <2> QED
    BY <2>1, <2>2
<1> QED
  BY TypeInit, <1>1, PTL DEF Spec
-------------------------------------------------------------------------------
(* What each process remembers of its children.  Waited: a child in childPid *)
(* that is still there is waited for, so nothing else is ever put there.     *)
(* Unreached: the stack that a child took over from its parent, below its    *)
(* own fork, holds no child of its own; executing the shell drops that.      *)
(* Once: a child is in one place.                                            *)
Stores(p, i, c) == frames[p][i] = Frame("store", c)
IsLoop(p)       == status[p] = "running" /\ ~ Shell(p)
IsChild(p, i)   == frames[p][i].pc = "exec" \/ Stores(p, i, 0)

Waited(p) ==
  \A c : Own(p, c) /\ There(c) /\ childPid[p] = c /\ IsLoop(p) =>
    Top(p).pc = "callWait" \/ Top(p) = Frame("wait", c)
Unreached(p) ==
  \A i, j \in DOMAIN frames[p] : j < i /\ IsChild(p, i) =>
    \A c : Own(p, c) => ~ Stores(p, j, c)
Once(p) ==
  \A c : Own(p, c) => \A i \in DOMAIN frames[p] : Stores(p, i, c) =>
    /\ childPid[p] # c
    /\ \A j \in DOMAIN frames[p] : Stores(p, j, c) => i = j
Remembers(p) ==
  \A c : Own(p, c) /\ Alive(c) =>
    childPid[p] = c \/ \E i \in DOMAIN frames[p] : Stores(p, i, c)

(* With the shell there, moreover, a call below the top is not about to wait *)
(* or to execute; what it stores later is a child that is still there, unless *)
(* the process is a child that executes the shell before it gets there; and  *)
(* who sleeps has no child.                                                  *)
Below(p) ==
  \A i \in DOMAIN frames[p] :
    frames[p][i].pc \in {"callWait", "wait", "exec"} => i = Len(frames[p])
WillStore(p) ==
  \A i \in DOMAIN frames[p] : \A c \in Process : Stores(p, i, c) =>
    \/ Own(p, c) /\ There(c)
    \/ \E k \in DOMAIN frames[p] : k > i /\ IsChild(p, k)
AtTop(p) ==
  /\ At(p, "callWait") => Own(p, childPid[p]) /\ There(childPid[p])
  /\ At(p, "wait") => Top(p).pid = childPid[p] /\ Own(p, childPid[p]) /\ There(childPid[p])
  /\ At(p, "exec") => childPid[p] = 0
  /\ At(p, "sleep") \/ At(p, "test") => ~ Exists(childPid[p])

Care(p) ==
  /\ Waited(p) /\ Unreached(p) /\ Once(p) /\ Remembers(p)
  /\ noShell \/ (Below(p) /\ WillStore(p) /\ AtTop(p))
CareInv == PastInv /\ \A p \in Process : Care(p)

LEMMA CareInit == Init => CareInv
<1> SUFFICES ASSUME Init PROVE CareInv
  OBVIOUS
<1>1. \A p, c : p \in Process => ~ Own(p, c)
  BY Numbers DEF Init, Own
<1>2. PastInv
  <2>1. /\ \A p \in Process \ {1} : status[p] = "none" /\ frames[p] = <<>>
        /\ \A p \in Process : parent[p] = 0
    BY DEF Init
  <2>2. status[1] = "running"
    BY Numbers DEF Init
  <2>3. \A p \in Process : childPid[p] = 0
    BY DEF Init
  <2>4. \A p \in Process : \A i \in DOMAIN frames[p] : frames[p][i].pid = 0
    <3>1. \A p \in Process : frames[p] = <<Frame("fork", 0)>> \/ frames[p] = <<>>
      BY DEF Init
    <3>2. Frame("fork", 0).pid = 0
      BY DEF Frame
    <3> QED
      BY <3>1, <3>2
  <2> QED
    BY <1>1, <2>1, <2>2, <2>3, <2>4, Numbers DEF PastInv
<1>3. ASSUME NEW p \in Process PROVE Care(p)
  <2>1. \/ frames[p] = <<>>
        \/ /\ frames[p] = <<Frame("fork", 0)>> /\ Len(frames[p]) = 1 /\ DOMAIN frames[p] = {1}
           /\ frames[p][1] = Frame("fork", 0) /\ Top(p) = Frame("fork", 0)
    BY DEF Init, Top, Last
  <2>2. \A i \in DOMAIN frames[p] : frames[p][i].pc = "fork"
    BY <2>1 DEF Frame
  <2>3. ~ Shell(p) => Top(p).pc = "fork"
    BY <2>1 DEF Shell, Frame
  <2>4. Waited(p) /\ Unreached(p) /\ Once(p) /\ Remembers(p)
    BY <1>1 DEF Waited, Unreached, Once, Remembers
  <2>5. Below(p) /\ WillStore(p)
    BY <2>2 DEF Below, WillStore, Stores, Frame
  <2>6. AtTop(p)
    BY <2>3 DEF AtTop, At
  <2> QED
    BY <2>4, <2>5, <2>6 DEF Care
<1> QED
  BY <1>2, <1>3 DEF CareInv
-------------------------------------------------------------------------------
\* What can happen to a process between two states: it is forked, it is stopped
\* or killed, it is waited for.
Lives(c) ==
  \/ status'[c] = status[c]
  \/ Alive(c) /\ status'[c] \in {"zombie", "stopped"}
  \/ status[c] = "zombie" /\ status'[c] = "gone"
  \/ status[c] = "none" /\ status'[c] = "running"

\* A process that has no part in a step, or only loses children.
LEMMA CareOther ==
  ASSUME TypeInv, TypeInv', PastInv, NEW q \in Process, Care(q),
         UNCHANGED <<frames[q], childPid[q], noShell>>,
         \A c : Own(q, c)' <=> Own(q, c),
         \A c \in Process : Lives(c),
         \A c : Own(q, c) /\ There(c) => There(c)',
         status'[q] = "running" => status[q] = "running"
  PROVE  Care(q)'
<1>1. \A c : Own(q, c) => c \in Process /\ status[c] # "none"
  BY Numbers DEF Own, PastInv
<1>2. \A c : Own(q, c) => (Alive(c)' => Alive(c)) /\ (There(c)' => There(c))
  BY <1>1 DEF Lives, Alive, There
<1>3. /\ \A i, c : Stores(q, i, c)' <=> Stores(q, i, c)
      /\ \A i : IsChild(q, i)' <=> IsChild(q, i)
      /\ Top(q)' = Top(q) /\ (IsLoop(q)' => IsLoop(q)) /\ (Shell(q)' <=> Shell(q))
  BY DEF Stores, IsChild, Top, IsLoop, Shell, Frame
<1>4. Waited(q)'
  BY <1>1, <1>2, <1>3 DEF Care, Waited, Frame
<1>5. Unreached(q)' /\ Once(q)'
  BY <1>3 DEF Care, Unreached, Once
<1>6. Remembers(q)'
  <2> SUFFICES ASSUME NEW c, Own(q, c)', Alive(c)'
               PROVE  childPid'[q] = c \/ \E i \in DOMAIN frames'[q] : Stores(q, i, c)'
    BY DEF Remembers
  <2>1. childPid[q] = c \/ \E i \in DOMAIN frames[q] : Stores(q, i, c)
    BY <1>2 DEF Care, Remembers
  <2> QED
    BY <1>3, <2>1
<1>7. ASSUME ~ noShell PROVE Below(q)' /\ WillStore(q)' /\ AtTop(q)'
  <2>1. Below(q)'
    BY <1>7 DEF Care, Below
  <2>2. WillStore(q)'
    BY <1>3, <1>7 DEF Care, WillStore
  <2>3. \A pc : At(q, pc)' => At(q, pc)
    BY <1>3 DEF At
  <2>4. ASSUME At(q, "sleep") \/ At(q, "test"), Exists(childPid[q])' PROVE FALSE
    <3>1. ~ Exists(childPid[q]) /\ status[q] = "running"
      BY <1>7, <2>4 DEF Care, AtTop, At
    <3>2. childPid[q] \in Process
      BY <3>1, GroupExists DEF TypeInv, TypeOK, Exists
    <3>3. status[childPid[q]] # "none" /\ ~ There(childPid[q]) /\ Lives(childPid[q])
      BY <3>1, <3>2, ExistsIs DEF PastInv
    <3>4. ~ There(childPid[q])'
      BY <3>3 DEF Lives, There, Alive
    <3>5. (\A c \in Process : Exists(c) <=> There(c))'
      BY ExistsIs, PTL
    <3> QED
      BY <2>4, <3>2, <3>4, <3>5
  <2>5. AtTop(q)'
    BY <1>3, <1>7, <2>3, <2>4 DEF Care, AtTop
  <2> QED
    BY <2>1, <2>2, <2>5
<1> QED
  BY <1>4, <1>5, <1>6, <1>7 DEF Care

\* The frames of p in the next state, where only the top changes.
LEMMA NextTop ==
  ASSUME TypeInv, NEW p \in Process, ~ Shell(p),
         NEW pc \in Statement,
         NEW pid \in Pid, frames'[p] = Goto(p, pc, pid)
  PROVE  /\ Len(frames[p]) \in Nat \ {0} /\ Len(frames'[p]) = Len(frames[p])
         /\ DOMAIN frames[p] = 1 .. Len(frames[p]) /\ DOMAIN frames'[p] = 1 .. Len(frames[p])
         /\ \A i \in 1 .. Len(frames[p]) : i # Len(frames[p]) => frames'[p][i] = frames[p][i]
         /\ frames'[p][Len(frames[p])] = Frame(pc, pid)
         /\ Top(p) = frames[p][Len(frames[p])] /\ Top(p)' = Frame(pc, pid)
         /\ ~ Shell(p)'
<1>1. Frame(pc, pid) \in FrameSet
  BY DEF Frame, FrameSet
<1>2. /\ Len(frames[p]) \in Nat \ {0} /\ Len(frames'[p]) = Len(frames[p])
      /\ DOMAIN frames[p] = 1 .. Len(frames[p]) /\ DOMAIN frames'[p] = 1 .. Len(frames[p])
      /\ \A i \in 1 .. Len(frames[p]) : i # Len(frames[p]) => frames'[p][i] = frames[p][i]
      /\ frames'[p][Len(frames[p])] = Frame(pc, pid)
  BY <1>1, TopChanges
<1>3. Top(p) = frames[p][Len(frames[p])] /\ Top(p)' = Frame(pc, pid)
  BY <1>2 DEF Top, Last
<1>4. 1 \in DOMAIN frames'[p]
  BY <1>2
<1>5. ~ Shell(p)'
  BY <1>4 DEF Shell
<1> QED
  BY <1>2, <1>3, <1>5

\* A step to another statement of the innermost call of startMain that stores no
\* process.
LEMMA CareTop ==
  ASSUME TypeInv, NEW p \in Process, Care(p), ~ Shell(p), Top(p).pc # "store",
         NEW pc \in {"fork", "store", "callWait", "wait", "sleep", "test"},
         NEW pid \in Pid, pc = "store" => pid = -1, frames'[p] = Goto(p, pc, pid),
         UNCHANGED <<childPid[p], noShell>>,
         \A c : Own(p, c)' <=> Own(p, c),
         \A c : Own(p, c) => (Alive(c)' => Alive(c)) /\ (There(c)' => There(c)),
         noShell \/ \A c : Own(p, c) /\ There(c) /\ childPid[p] # c => There(c)',
         \A c : Own(p, c) /\ There(c)' /\ childPid[p] = c /\ status'[p] = "running" =>
           pc = "callWait" \/ (pc = "wait" /\ pid = c),
         noShell \/ (Top(p).pc # "exec" /\ AtTop(p)')
  PROVE  Care(p)'
<1>0. PICK n : n = Len(frames[p])
  OBVIOUS
<1>1. /\ n \in Nat \ {0} /\ Len(frames'[p]) = n
      /\ DOMAIN frames[p] = 1 .. n /\ DOMAIN frames'[p] = 1 .. n
      /\ \A i \in 1 .. n : i # n => frames'[p][i] = frames[p][i]
      /\ frames'[p][n] = Frame(pc, pid)
      /\ Top(p) = frames[p][n] /\ Top(p)' = Frame(pc, pid) /\ ~ Shell(p)'
  BY <1>0, NextTop
<1>2. /\ Frame(pc, pid).pc = pc /\ \A c : Frame("store", c).pc = "store"
  BY DEF Frame
<1>3. \A i \in 1 .. n : \A c \in Process \cup {0} : Stores(p, i, c)' <=> Stores(p, i, c)
  <2>1. \A c : ~ Stores(p, n, c)
    BY <1>1, <1>2 DEF Stores
  <2>2. \A c \in Process \cup {0} : ~ Stores(p, n, c)'
    BY <1>1, <1>2, Numbers DEF Stores, Frame
  <2>3. \A i \in 1 .. n : i # n => \A c : Stores(p, i, c)' <=> Stores(p, i, c)
    BY <1>1 DEF Stores, Frame
  <2> QED
    BY <2>1, <2>2, <2>3
<1>4. \A i \in 1 .. n : IsChild(p, i)' => IsChild(p, i) /\ i # n
  BY <1>1, <1>2 DEF IsChild, Stores, Frame
<1>5. Waited(p)'
  BY <1>1 DEF Waited, IsLoop, Frame
<1>6. Unreached(p)' /\ Once(p)'
  BY <1>1, <1>3, <1>4 DEF Care, Unreached, Once, Own
<1>7. Remembers(p)'
  BY <1>1, <1>3 DEF Care, Remembers, Own
<1>8. ASSUME ~ noShell PROVE Below(p)' /\ WillStore(p)'
  <2>1. Below(p)'
    BY <1>1, <1>8 DEF Care, Below
  <2>2. \A i \in 1 .. n : IsChild(p, i) => IsChild(p, i)'
    <3>1. ~ IsChild(p, n)
      BY <1>1, <1>2, <1>8 DEF IsChild, Stores
    <3> QED
      BY <1>1, <3>1 DEF IsChild, Stores, Frame
  <2>3. WillStore(p)'
    BY <1>1, <1>3, <1>8, <2>2 DEF Care, WillStore, Once
  <2> QED
    BY <2>1, <2>3
<1> QED
  BY <1>5, <1>6, <1>7, <1>8 DEF Care

\* A child that is stored is waited for next; a child itself stores 0.
LEMMA CareStore ==
  ASSUME TypeInv, NEW p \in Process, Care(p), Store(p)
  PROVE  Care(p)'
<1>0. PICK n, x : n = Len(frames[p]) /\ x = Top(p).pid
  OBVIOUS
<1>1. /\ status[p] = "running" /\ ~ Shell(p) /\ Top(p).pc = "store"
      /\ UNCHANGED <<status, parent, noShell>>
  BY DEF Store, At, keyboard
<1>2. Top(p) \in FrameSet /\ Top(p) = Frame("store", x) /\ x \in Pid
  <2>1. Top(p) \in FrameSet
    BY <1>1, TopIs
  <2> QED
    BY <1>0, <1>1, <2>1 DEF FrameSet, Frame
<1> DEFINE pc == After(x)
<1>3. childPid'[p] = x /\ frames'[p] = Goto(p, pc, 0)
  BY <1>0 DEF Store, TypeInv, TypeOK, After
<1>4. pc \in Statement
  BY AfterIs
<1> HIDE DEF pc
<1>5. /\ n \in Nat \ {0} /\ Len(frames'[p]) = n
      /\ DOMAIN frames[p] = 1 .. n /\ DOMAIN frames'[p] = 1 .. n
      /\ \A i \in 1 .. n : i # n => frames'[p][i] = frames[p][i]
      /\ frames'[p][n] = Frame(pc, 0)
      /\ Top(p) = frames[p][n] /\ Top(p)' = Frame(pc, 0) /\ ~ Shell(p)'
  BY <1>0, <1>1, <1>3, <1>4, NextTop
<1>6. /\ Frame(pc, 0).pc = pc /\ \A c : Frame("store", c).pc = "store"
      /\ \A c, d : Frame("store", c) = Frame("store", d) => c = d
      /\ pc = "exec" <=> x = 0
      /\ pc = "callWait" <=> x \in Process
      /\ pc \in {"exec", "exit", "callWait"}
  BY <1>2, AfterIs, Numbers DEF Frame, pc
<1>7. /\ \A c : ~ Stores(p, n, c)'
      /\ \A c : Stores(p, n, c) <=> c = x
      /\ \A i \in 1 .. n : i # n => \A c : Stores(p, i, c)' <=> Stores(p, i, c)
  BY <1>2, <1>5, <1>6 DEF Stores, Frame
<1>8. /\ IsChild(p, n)' <=> x = 0
      /\ IsChild(p, n) <=> x = 0
      /\ \A i \in 1 .. n : i # n => (IsChild(p, i)' <=> IsChild(p, i))
  BY <1>2, <1>5, <1>6, <1>7 DEF IsChild, Stores, Frame
<1>9. \A c : /\ Own(p, c)' <=> Own(p, c)
             /\ There(c)' <=> There(c)
             /\ Alive(c)' <=> Alive(c)
  BY <1>1 DEF Own, There, Alive
<1>10. Waited(p)'
  <2>1. \A c : Own(p, c) => c \in Process
    BY DEF Own
  <2> QED
    BY <1>3, <1>5, <1>6, <1>9, <2>1 DEF Waited
<1>11. Unreached(p)'
  BY <1>5, <1>7, <1>8, <1>9 DEF Care, Unreached
<1>12. Once(p)'
  <2> SUFFICES ASSUME NEW c, Own(p, c), NEW i \in 1 .. n, Stores(p, i, c)'
               PROVE  /\ x # c
                      /\ \A j \in 1 .. n : Stores(p, j, c)' => i = j
    BY <1>3, <1>5, <1>9 DEF Once
  <2>1. i # n /\ Stores(p, i, c)
    BY <1>7
  <2>2. \A j \in 1 .. n : Stores(p, j, c) => i = j
    BY <1>5, <2>1 DEF Care, Once
  <2>3. n \in 1 .. n
    BY <1>5
  <2> QED
    BY <1>7, <2>1, <2>2, <2>3
<1>13. Remembers(p)'
  <2> SUFFICES ASSUME NEW c, Own(p, c), Alive(c)
               PROVE  childPid'[p] = c \/ \E i \in 1 .. n : Stores(p, i, c)'
    BY <1>5, <1>9 DEF Remembers
  <2>1. childPid[p] # c
    <3>1. IsLoop(p) /\ There(c)
      BY <1>1 DEF IsLoop, There
    <3>2. Top(p) # Frame("wait", c)
      BY <1>1 DEF Frame
    <3> QED
      BY <1>1, <3>1, <3>2 DEF Care, Waited
  <2>2. \E i \in 1 .. n : Stores(p, i, c)
    BY <1>5, <2>1 DEF Care, Remembers
  <2> QED
    BY <1>3, <1>7, <2>2
<1>14. ASSUME ~ noShell PROVE Below(p)' /\ WillStore(p)' /\ AtTop(p)'
  <2>1. Below(p)'
    BY <1>5, <1>14 DEF Care, Below
  <2>2. WillStore(p)'
    BY <1>5, <1>7, <1>8, <1>9, <1>14 DEF Care, WillStore
  <2>3. x \in Process => Own(p, x) /\ There(x)
    <3>1. \A k \in 1 .. n : ~ (k > n)
      BY <1>5
    <3>2. n \in 1 .. n
      BY <1>5
    <3> QED
      BY <1>2, <1>5, <1>7, <1>14, <3>1, <3>2 DEF Care, WillStore
  <2>4. AtTop(p)'
    BY <1>3, <1>5, <1>6, <1>9, <2>3 DEF AtTop, At
  <2> QED
    BY <2>1, <2>2, <2>4
<1> QED
  BY <1>1, <1>10, <1>11, <1>12, <1>13, <1>14 DEF Care

\* The child that executes the shell had no child; the other returns.
LEMMA CareExec ==
  ASSUME TypeInv, TypeInv', NEW p \in Process, Care(p), Exec(p)
  PROVE  Care(p)'
<1>1. /\ status[p] = "running" /\ ~ Shell(p) /\ Top(p).pc = "exec"
      /\ UNCHANGED <<status, parent, childPid, noShell>>
  BY DEF Exec, At, keyboard
<1>2. \A c : /\ Own(p, c)' <=> Own(p, c)
             /\ There(c)' <=> There(c)
             /\ Alive(c)' <=> Alive(c)
  BY <1>1 DEF Own, There, Alive
<1>3. \A c : Own(p, c) /\ There(c) => childPid[p] # c
  BY <1>1 DEF Care, Waited, IsLoop, Frame
<1>4. CASE noShell
  <2>1. frames'[p] = Goto(p, "sleep", 0)
    BY <1>4 DEF Exec, TypeInv
  <2> QED
    BY <1>1, <1>2, <1>3, <1>4, <2>1, CareTop
<1>5. CASE ~ noShell
  <2>1. frames'[p] = <<>>
    BY <1>5 DEF Exec, TypeInv
  <2>2. DOMAIN frames'[p] = {} /\ Shell(p)'
    BY <2>1 DEF Shell
  <2>3. Waited(p)' /\ Unreached(p)' /\ Once(p)'
    BY <2>2 DEF Waited, IsLoop, Unreached, Once
  <2>4. Below(p)' /\ WillStore(p)' /\ AtTop(p)'
    BY <2>2 DEF Below, WillStore, AtTop, At
  <2>5. Remembers(p)'
    <3> SUFFICES ASSUME NEW c, Own(p, c), Alive(c) PROVE childPid[p] = c
      BY <1>1, <1>2 DEF Remembers
    <3>0. PICK n : n = Len(frames[p])
      OBVIOUS
    <3>1. n \in Nat \ {0} /\ DOMAIN frames[p] = 1 .. n /\ Top(p) = frames[p][n]
      BY <1>1, <3>0, TopIs
    <3>2. IsChild(p, n) /\ n \in 1 .. n /\ \A d : ~ Stores(p, n, d)
      BY <1>1, <3>1 DEF IsChild, Stores, Frame
    <3>3. \A i \in 1 .. n : i < n \/ i = n
      BY <3>1
    <3>4. \A i \in 1 .. n : ~ Stores(p, i, c)
      BY <3>1, <3>2, <3>3 DEF Care, Unreached
    <3> QED
      BY <3>1, <3>4 DEF Care, Remembers
  <2> QED
    BY <2>3, <2>4, <2>5 DEF Care
<1> QED
  BY <1>4, <1>5

\* A fork: the parent is about to store the child, the child is about to store 0
\* and takes over the rest of its parent's calls.
LEMMA CareFork ==
  ASSUME TypeInv, TypeInv', PastInv, NEW p \in Process, NEW c \in Process, Care(p),
         status[p] = "running", ~ Shell(p), Top(p).pc = "fork", status[c] = "none",
         status' = [status EXCEPT ![c] = "running"],
         parent' = [parent EXCEPT ![c] = p],
         childPid' = [childPid EXCEPT ![c] = childPid[p]],
         frames' = [frames EXCEPT ![p] = Goto(p, "store", c), ![c] = Goto(p, "store", 0)],
         UNCHANGED noShell
  PROVE  Care(p)' /\ Care(c)'
<1>0. PICK n : n = Len(frames[p])
  OBVIOUS
<1>1. /\ c # p /\ frames'[p] = Goto(p, "store", c) /\ frames'[c] = Goto(p, "store", 0)
      /\ childPid'[p] = childPid[p] /\ childPid'[c] = childPid[p]
  BY DEF TypeInv, TypeOK
<1>2. /\ n \in Nat \ {0} /\ Len(frames'[p]) = n
      /\ DOMAIN frames[p] = 1 .. n /\ DOMAIN frames'[p] = 1 .. n
      /\ \A i \in 1 .. n : i # n => frames'[p][i] = frames[p][i]
      /\ frames'[p][n] = Frame("store", c)
      /\ Top(p) = frames[p][n] /\ Top(p)' = Frame("store", c) /\ ~ Shell(p)'
  <2>1. /\ c \in Pid /\ frames'[p] = Goto(p, "store", c)
        /\ "store" \in Statement
    BY <1>1
  <2> QED
    BY ONLY TypeInv, p \in Process, ~ Shell(p), <1>0, <2>1, NextTop
<1>3. /\ Len(frames'[c]) = n /\ DOMAIN frames'[c] = 1 .. n
      /\ \A i \in 1 .. n : i # n => frames'[c][i] = frames[p][i]
      /\ frames'[c][n] = Frame("store", 0)
      /\ Top(c)' = Frame("store", 0)
  <2>1. Frame("store", 0) \in FrameSet
    BY DEF Frame, FrameSet
  <2>2. /\ Len(frames'[c]) = n /\ DOMAIN frames'[c] = 1 .. n
        /\ \A i \in 1 .. n : i # n => frames'[c][i] = frames[p][i]
        /\ frames'[c][n] = Frame("store", 0)
    BY ONLY TypeInv, p \in Process, ~ Shell(p), <1>0, <1>1, <2>1, TopChanges
  <2> QED
    BY <2>2 DEF Top, Last
<1>4. /\ \A d : Frame("store", d).pc = "store" /\ Frame("store", d).pid = d
      /\ \A d, e : Frame("store", d) = Frame("store", e) => d = e
  BY DEF Frame
<1>5. c # 0 /\ p # 0
  BY Numbers
<1>6. \A d : /\ Own(p, d)' <=> Own(p, d) \/ d = c
             /\ ~ Own(c, d)' /\ ~ Own(p, c)
  <2>1. parent[c] = 0 /\ \A d : ~ Own(c, d)
    BY DEF PastInv
  <2>2. \A d \in Process : parent'[d] = IF d = c THEN p ELSE parent[d]
    BY DEF TypeInv, TypeOK
  <2> QED
    BY <1>1, <1>5, <2>1, <2>2 DEF Own
<1>7. /\ There(c)' /\ Alive(c)'
      /\ \A d \in Process : d # c => (There(d)' <=> There(d)) /\ (Alive(d)' <=> Alive(d))
  BY DEF There, Alive, TypeInv, TypeOK
<1>8. childPid[p] # c /\ \A i \in 1 .. n : frames[p][i] # Frame("store", c)
  <2>1. childPid[p] # c
    BY <1>5 DEF PastInv
  <2>2. \A i \in 1 .. n : frames[p][i].pid # c
    BY <1>2, <1>5 DEF PastInv
  <2> QED
    BY <1>4, <2>1, <2>2
<1>9. /\ \A i, d : Stores(p, i, d)' <=> frames'[p][i] = Frame("store", d)
      /\ \A i, d : Stores(c, i, d)' <=> frames'[c][i] = Frame("store", d)
      /\ \A i : IsChild(p, i)' <=>
           frames'[p][i].pc = "exec" \/ frames'[p][i] = Frame("store", 0)
      /\ \A i : IsChild(c, i)' <=>
           frames'[c][i].pc = "exec" \/ frames'[c][i] = Frame("store", 0)
  BY DEF Stores, IsChild, Frame
<1>10. /\ \A d : Stores(p, n, d)' <=> d = c
       /\ \A d : ~ Stores(p, n, d)
       /\ \A i \in 1 .. n : i # n => \A d : Stores(p, i, d)' <=> Stores(p, i, d)
  <2>1. \A d : Stores(p, n, d)' <=> d = c
    <3>1. frames'[p][n] = [pc |-> "store", pid |-> c]
      BY <1>2 DEF Frame
    <3>2. \A d : [pc |-> "store", pid |-> c] = [pc |-> "store", pid |-> d] => d = c
      OBVIOUS
    <3> QED
      BY <3>1, <3>2 DEF Stores, Frame
  <2>2. \A i, d : Stores(p, i, d) <=> frames[p][i] = Frame("store", d)
    BY DEF Stores
  <2>3. \A d : ~ Stores(p, n, d)
    BY <1>2, <1>4, <2>2
  <2>4. \A i \in 1 .. n : i # n => \A d : Stores(p, i, d)' <=> Stores(p, i, d)
    BY <1>2 DEF Stores, Frame
  <2> QED
    BY <2>1, <2>3, <2>4
<1>11. \A i \in 1 .. n : i # n => (IsChild(p, i)' <=> IsChild(p, i))
  BY <1>2, <1>9 DEF IsChild, Stores
<1>12. ~ IsChild(p, n)' /\ ~ IsChild(p, n)
  BY <1>2, <1>4, <1>5, <1>9 DEF IsChild, Stores
<1>13. \A d : Own(p, d) => d \in Process /\ d # c
  BY <1>6 DEF Own
<1>14. Waited(p)' /\ Unreached(p)' /\ Once(p)' /\ Remembers(p)'
  <2>1. \A d : Own(p, d) /\ There(d) => childPid[p] # d
    BY DEF Care, Waited, IsLoop, Frame
  <2>2. Waited(p)'
    BY <1>1, <1>6, <1>7, <1>8, <1>13, <2>1 DEF Waited
  <2>3. Unreached(p)'
    <3> SUFFICES ASSUME NEW i \in 1 .. n, NEW j \in 1 .. n, j < i, IsChild(p, i)', NEW d,
                        Own(p, d)', Stores(p, j, d)'
                 PROVE  FALSE
      BY <1>2 DEF Unreached
    <3>1. i # n /\ IsChild(p, i)
      BY <1>11, <1>12
    <3>2. j # n /\ Stores(p, j, d)
      BY <1>2, <1>10, <3>1
    <3>3. d # c
      BY <1>8, <3>2 DEF Stores
    <3> QED
      BY <1>2, <1>6, <3>1, <3>2, <3>3 DEF Care, Unreached
  <2>4. Once(p)'
    <3> SUFFICES ASSUME NEW d, Own(p, d)', NEW i \in 1 .. n, Stores(p, i, d)'
                 PROVE  /\ childPid[p] # d
                        /\ \A j \in 1 .. n : Stores(p, j, d)' => i = j
      BY <1>1, <1>2 DEF Once
    <3>1. CASE d = c
      <4>1. \A j \in 1 .. n : Stores(p, j, c)' => j = n
        BY <1>8, <1>10 DEF Stores
      <4> QED
        BY <1>8, <3>1, <4>1
    <3>2. CASE d # c
      <4>1. Own(p, d) /\ \A j \in 1 .. n : Stores(p, j, d)' => Stores(p, j, d)
        BY <1>6, <1>10, <3>2
      <4> QED
        BY <1>2, <4>1 DEF Care, Once
    <3> QED
      BY <3>1, <3>2
  <2>5. Remembers(p)'
    <3> SUFFICES ASSUME NEW d, Own(p, d)', Alive(d)'
                 PROVE  childPid[p] = d \/ \E i \in 1 .. n : Stores(p, i, d)'
      BY <1>1, <1>2 DEF Remembers
    <3>1. CASE d = c
      BY <1>2, <1>10, <3>1
    <3>2. CASE d # c
      <4>1. Own(p, d) /\ Alive(d)
        BY <1>6, <1>7, <1>13, <3>2
      <4>2. childPid[p] = d \/ \E i \in 1 .. n : Stores(p, i, d)
        BY <1>2, <4>1 DEF Care, Remembers
      <4> QED
        BY <1>10, <4>2
    <3> QED
      BY <3>1, <3>2
  <2> QED
    BY <2>2, <2>3, <2>4, <2>5
<1>15. ASSUME ~ noShell
       PROVE  Below(p)' /\ WillStore(p)' /\ AtTop(p)'
  <2>1. Below(p)'
    <3>1. \A i \in 1 .. n : frames[p][i].pc \in {"callWait", "wait", "exec"} => i = n
      BY <1>0, <1>2, <1>15 DEF Care, Below
    <3>2. \A i \in 1 .. n : frames'[p][i].pc \in {"callWait", "wait", "exec"} => i = n
      BY <1>2, <3>1
    <3> QED
      BY <1>2, <3>2 DEF Below
  <2>2. WillStore(p)'
    <3> SUFFICES ASSUME NEW i \in 1 .. n, NEW d \in Process, Stores(p, i, d)'
                 PROVE  \/ Own(p, d)' /\ There(d)'
                        \/ \E k \in 1 .. n : k > i /\ IsChild(p, k)'
      BY <1>2 DEF WillStore
    <3>1. CASE i = n
      BY <1>6, <1>7, <1>10, <3>1
    <3>2. CASE i # n
      <4>1. Stores(p, i, d)
        BY <1>10, <3>2
      <4>2. \/ Own(p, d) /\ There(d)
            \/ \E k \in 1 .. n : k > i /\ IsChild(p, k)
        BY <1>2, <1>15, <4>1 DEF Care, WillStore
      <4> QED
        BY <1>6, <1>7, <1>11, <1>12, <1>13, <4>2
    <3> QED
      BY <3>1, <3>2
  <2>3. AtTop(p)'
    BY <1>2, <1>4 DEF AtTop, At
  <2> QED
    BY <2>1, <2>2, <2>3
<1>16. Waited(c)' /\ Unreached(c)' /\ Once(c)' /\ Remembers(c)'
  BY <1>6 DEF Waited, Unreached, Once, Remembers
<1>17. ASSUME ~ noShell
       PROVE  Below(c)' /\ WillStore(c)' /\ AtTop(c)'
  <2>1. Below(c)'
    <3>1. \A i \in 1 .. n : frames[p][i].pc \in {"callWait", "wait", "exec"} => i = n
      BY <1>0, <1>2, <1>17 DEF Care, Below
    <3>2. \A i \in 1 .. n : frames'[c][i].pc \in {"callWait", "wait", "exec"} => i = n
      BY <1>3, <3>1
    <3> QED
      BY <1>3, <3>2 DEF Below
  <2>2. WillStore(c)'
    <3>1. IsChild(c, n)' /\ n \in 1 .. n
      <4>1. frames'[c][n] = Frame("store", 0)
        BY <1>3
      <4>2. IsChild(c, n)'
        BY <1>9, <4>1
      <4> QED
        BY <1>2, <4>2
    <3>2. \A d \in Process : ~ Stores(c, n, d)'
      <4>1. \A d \in Process : Frame("store", 0) # Frame("store", d)
        BY <1>4, Numbers
      <4> QED
        BY <1>3, <4>1 DEF Stores, Frame
    <3>3. \A i \in 1 .. n : i = n \/ n > i
      BY <1>2
    <3> QED
      BY <1>3, <3>1, <3>2, <3>3 DEF WillStore
  <2>3. AtTop(c)'
    BY <1>3, <1>4 DEF AtTop, At
  <2> QED
    BY <2>1, <2>2, <2>3
<1> QED
  BY <1>14, <1>15, <1>16, <1>17 DEF Care

\* A call of startMain returns to the one it interrupted.
LEMMA CareReturn ==
  ASSUME TypeInv, NEW p \in Process, Care(p), Return(p), Len(frames[p]) # 1
  PROVE  Care(p)'
<1>0. PICK n : n = Len(frames[p])
  OBVIOUS
<1>1. /\ status[p] = "running" /\ ~ Shell(p) /\ Top(p).pc = "test" /\ ~ Exists(childPid[p])
      /\ UNCHANGED <<status, parent, childPid, noShell>>
      /\ frames'[p] = Front(frames[p])
  BY DEF Return, At, keyboard, TypeInv
<1>2. /\ n \in Nat \ {0} /\ n # 1 /\ DOMAIN frames[p] = 1 .. n /\ frames[p][n].pc = "test"
  BY <1>0, <1>1, TopIs
<1>3. /\ DOMAIN frames'[p] = 1 .. n - 1 /\ Len(frames'[p]) = n - 1
      /\ \A i \in 1 .. n - 1 : frames'[p][i] = frames[p][i]
  BY <1>0, <1>1, FrontIs
<1>4. \A i \in 1 .. n - 1 : i \in 1 .. n /\ i # n
  BY <1>2
<1>5. \A c : ~ Stores(p, n, c) /\ ~ IsChild(p, n)
  BY <1>2 DEF Stores, IsChild, Frame
<1>6. \A i \in 1 .. n : i # n => i \in 1 .. n - 1
  BY <1>2
<1>7. /\ \A i \in 1 .. n - 1 : \A c : Stores(p, i, c)' <=> Stores(p, i, c)
      /\ \A i \in 1 .. n - 1 : IsChild(p, i)' <=> IsChild(p, i)
  BY <1>3 DEF Stores, IsChild, Frame
<1>8. \A c : /\ Own(p, c)' <=> Own(p, c)
             /\ There(c)' <=> There(c)
             /\ Alive(c)' <=> Alive(c)
  BY <1>1 DEF Own, There, Alive
<1>9. \A c : Own(p, c) /\ There(c) => childPid[p] # c
  BY <1>1, ExistsIs DEF Own
<1>10. Waited(p)'
  BY <1>1, <1>8, <1>9 DEF Waited
<1>11. Unreached(p)' /\ Once(p)'
  BY <1>1, <1>2, <1>3, <1>4, <1>7, <1>8 DEF Care, Unreached, Once
<1>12. Remembers(p)'
  <2> SUFFICES ASSUME NEW c, Own(p, c), Alive(c)
               PROVE  childPid[p] = c \/ \E i \in 1 .. n - 1 : Stores(p, i, c)'
    BY <1>1, <1>3, <1>8 DEF Remembers
  <2>1. childPid[p] = c \/ \E i \in 1 .. n : Stores(p, i, c)
    BY <1>2 DEF Care, Remembers
  <2> QED
    BY <1>5, <1>6, <1>7, <2>1
<1>13. ASSUME ~ noShell PROVE Below(p)' /\ WillStore(p)' /\ AtTop(p)'
  <2>1. \A i \in 1 .. n - 1 : frames[p][i].pc \notin {"callWait", "wait", "exec"}
    BY <1>0, <1>2, <1>4, <1>13 DEF Care, Below
  <2>2. \A i \in 1 .. n - 1 : frames'[p][i].pc \notin {"callWait", "wait", "exec"}
    BY <1>3, <2>1
  <2>3. Below(p)'
    BY <1>3, <2>2 DEF Below
  <2>4. WillStore(p)'
    <3> SUFFICES ASSUME NEW i \in 1 .. n - 1, NEW d \in Process, Stores(p, i, d)'
                 PROVE  \/ Own(p, d)' /\ There(d)'
                        \/ \E k \in 1 .. n - 1 : k > i /\ IsChild(p, k)'
      BY <1>3 DEF WillStore
    <3>1. i \in 1 .. n /\ Stores(p, i, d)
      BY <1>4, <1>7
    <3>2. (Own(p, d) /\ There(d)) \/ \E k \in 1 .. n : k > i /\ IsChild(p, k)
      BY <1>2, <1>13, <3>1 DEF Care, WillStore
    <3> QED
      BY <1>5, <1>6, <1>7, <1>8, <3>2
  <2>5. AtTop(p)'
    <3>1. n - 1 \in 1 .. n - 1
      BY <1>2
    <3>2. Top(p)' = frames'[p][n - 1]
      BY <1>3 DEF Top, Last
    <3>3. Top(p)'.pc \notin {"callWait", "wait", "exec"}
      BY <2>2, <3>1, <3>2
    <3>4. ~ Exists(childPid[p])'
      BY <1>1 DEF Exists, Alive
    <3> QED
      BY <3>3, <3>4 DEF AtTop, At
  <2> QED
    BY <2>3, <2>4, <2>5
<1> QED
  BY <1>1, <1>10, <1>11, <1>12, <1>13 DEF Care

\* A killed process is a zombie until it is waited for.
LEMMA KillLives ==
  ASSUME TypeInv, NEW p, NEW x, Kill(p, x)
  PROVE  /\ \A c \in Process : Lives(c)
         /\ \A c \in Process : There(c) => There(c)'
         /\ \A c \in Process : There(c)' => There(c)
         /\ \A c \in Process : Alive(c)' => Alive(c)
         /\ \A c \in Process : status'[c] = "running" => status[c] = "running"
  BY DEF Kill, TypeInv, TypeOK, Lives, There, Alive

\* Ctrl-Z kills the shell that is still there, and it will be waited for by
\* whoever waits now; or it calls startMain once more, on top.
LEMMA CareHandler ==
  ASSUME TypeInv, TypeInv', PastInv, NEW p \in Process, Care(p), HandleSignalStp(p)
  PROVE  Care(p)'
<1>0. PICK n : n = Len(frames[p])
  OBVIOUS
<1>1. /\ status[p] = "running" /\ ~ Shell(p) /\ UNCHANGED <<parent, childPid, noShell>>
      /\ \A c : Own(p, c)' <=> Own(p, c)
  BY DEF HandleSignalStp, Handles, keyboard, Own
<1>2. /\ n \in Nat \ {0} /\ DOMAIN frames[p] = 1 .. n /\ Top(p) = frames[p][n]
  BY <1>0, <1>1, TopIs
<1>3. CASE Exists(childPid[p])
  <2>1. Kill(p, childPid[p]) /\ frames'[p] = Woken(p)
    BY <1>3 DEF HandleSignalStp, KillRunning, TypeInv
  <2>2. CASE Top(p).pc = "sleep"
    <3>1. frames'[p] = Goto(p, "test", 0)
      BY <2>1, <2>2 DEF Woken
    <3>2. noShell
      BY <1>1, <1>3, <2>2 DEF Care, AtTop, At
    <3>3. \A c : Own(p, c) /\ There(c) => childPid[p] # c
      BY <1>1, <2>2 DEF Care, Waited, IsLoop, Frame
    <3>4. \A c : Own(p, c) => (Alive(c)' => Alive(c)) /\ (There(c)' => There(c))
      BY <2>1, KillLives DEF Own
    <3>5. \A c : Own(p, c) /\ There(c)' /\ childPid[p] = c /\ status'[p] = "running" => FALSE
      BY <3>3, <3>4
    <3>6. UNCHANGED <<childPid[p], noShell>>
      BY <1>1
    <3> QED
      BY ONLY TypeInv, p \in Process, Care(p), <1>1, <2>2, <3>1, <3>2, <3>4, <3>5, <3>6, CareTop
  <2>3. CASE Top(p).pc # "sleep"
    <3>1. UNCHANGED <<frames[p], childPid[p], noShell>>
      BY <1>1, <2>1, <2>3 DEF Woken
    <3>2. /\ \A c \in Process : Lives(c)
          /\ \A c : Own(p, c) /\ There(c) => There(c)'
          /\ status'[p] = "running" => status[p] = "running"
      BY <1>1, <2>1, KillLives DEF Own
    <3> QED
      BY <1>1, <3>1, <3>2, CareOther
  <2> QED
    BY <2>2, <2>3
<1>4. CASE ~ Exists(childPid[p])
  <2>1. UNCHANGED status /\ frames'[p] = Append(Woken(p), Frame("fork", 0))
    BY <1>4 DEF HandleSignalStp, KillRunning, TypeInv
  <2>2. /\ DOMAIN frames'[p] = 1 .. n + 1 /\ Len(frames'[p]) = n + 1
        /\ frames'[p][n + 1] = Frame("fork", 0)
        /\ \A i \in 1 .. n : frames'[p][i] = Woken(p)[i]
    BY <1>0, <1>1, <2>1, CalledIs
  <2>3. \A i \in 1 .. n : \/ frames'[p][i] = frames[p][i]
                          \/ frames[p][i].pc = "sleep" /\ frames'[p][i] = Frame("test", 0)
    BY <1>0, <1>1, <2>2, WokenIs
  <2>4. /\ \A i \in 1 .. n : \A c : Stores(p, i, c)' <=> Stores(p, i, c)
        /\ \A i \in 1 .. n : IsChild(p, i)' <=> IsChild(p, i)
    BY <2>3 DEF Stores, IsChild, Frame
  <2>5. /\ \A c : ~ Stores(p, n + 1, c)'
        /\ ~ IsChild(p, n + 1)'
    BY <2>2 DEF Stores, IsChild, Frame
  <2>6. \A i \in 1 .. n + 1 : i \in 1 .. n \/ i = n + 1
    BY <1>2
  <2>7. \A i \in 1 .. n : i \in 1 .. n + 1
    BY <1>2
  <2>8. \A c : /\ There(c)' <=> There(c)
               /\ Alive(c)' <=> Alive(c)
    BY <2>1 DEF There, Alive
  <2>9. \A c : Own(p, c) /\ There(c) => childPid[p] # c
    BY <1>4, ExistsIs DEF Own
  <2>10. Waited(p)'
    BY <1>1, <2>8, <2>9 DEF Waited
  <2>11. Unreached(p)'
    <3> SUFFICES ASSUME NEW i \in 1 .. n + 1, NEW j \in 1 .. n + 1, j < i, IsChild(p, i)', NEW c,
                        Own(p, c), Stores(p, j, c)'
                 PROVE  FALSE
      BY <1>1, <2>2 DEF Unreached
    <3>1. i \in 1 .. n /\ j \in 1 .. n
      BY <2>5, <2>6
    <3> QED
      BY <1>2, <2>4, <3>1 DEF Care, Unreached
  <2>12. Once(p)'
    <3> SUFFICES ASSUME NEW c, Own(p, c), NEW i \in 1 .. n + 1, Stores(p, i, c)'
                 PROVE  /\ childPid[p] # c
                        /\ \A j \in 1 .. n + 1 : Stores(p, j, c)' => i = j
      BY <1>1, <2>2 DEF Once
    <3>1. i \in 1 .. n /\ \A j \in 1 .. n + 1 : Stores(p, j, c)' => j \in 1 .. n
      BY <2>5, <2>6
    <3> QED
      BY <1>2, <2>4, <3>1 DEF Care, Once
  <2>13. Remembers(p)'
    <3> SUFFICES ASSUME NEW c, Own(p, c), Alive(c)
                 PROVE  childPid[p] = c \/ \E i \in 1 .. n + 1 : Stores(p, i, c)'
      BY <1>1, <2>2, <2>8 DEF Remembers
    <3>1. childPid[p] = c \/ \E i \in 1 .. n : Stores(p, i, c)
      BY <1>2 DEF Care, Remembers
    <3> QED
      BY <2>4, <2>7, <3>1
  <2>14. ASSUME ~ noShell PROVE Below(p)' /\ WillStore(p)' /\ AtTop(p)'
    <3>1. Exists(0)
      BY <1>1, GroupExists
    <3>2. Top(p).pc \notin {"callWait", "wait", "exec"}
      BY <1>1, <1>4, <2>14, <3>1, ExistsIs DEF Care, AtTop, At, Own
    <3>3. \A i \in 1 .. n : frames[p][i].pc \notin {"callWait", "wait", "exec"}
      BY <1>0, <1>2, <2>14, <3>2 DEF Care, Below
    <3>4. \A i \in 1 .. n + 1 : frames'[p][i].pc \notin {"callWait", "wait", "exec"}
      BY <2>2, <2>3, <2>6, <3>3 DEF Frame
    <3>5. Below(p)'
      BY <2>2, <3>4 DEF Below
    <3>6. WillStore(p)'
      <4> SUFFICES ASSUME NEW i \in 1 .. n + 1, NEW d \in Process, Stores(p, i, d)'
                   PROVE  \/ Own(p, d) /\ There(d)
                          \/ \E k \in 1 .. n + 1 : k > i /\ IsChild(p, k)'
        BY <1>1, <2>2, <2>8 DEF WillStore
      <4>1. i \in 1 .. n /\ Stores(p, i, d)
        BY <2>4, <2>5, <2>6
      <4>2. (Own(p, d) /\ There(d)) \/ \E k \in 1 .. n : k > i /\ IsChild(p, k)
        BY <1>2, <2>14, <4>1 DEF Care, WillStore
      <4> QED
        BY <2>4, <2>7, <4>2
    <3>7. Top(p)' = Frame("fork", 0)
      BY <2>2 DEF Top, Last
    <3>8. AtTop(p)'
      BY <3>7 DEF AtTop, At, Frame
    <3> QED
      BY <3>5, <3>6, <3>8
  <2> QED
    BY <1>1, <2>10, <2>11, <2>12, <2>13, <2>14 DEF Care
<1> QED
  BY <1>3, <1>4
-------------------------------------------------------------------------------
\* A step that forks nothing.
LEMMA PastStep ==
  ASSUME TypeInv, TypeInv', PastInv, UNCHANGED parent,
         \A q \in Process : status'[q] = "none" <=> status[q] = "none",
         \A q \in Process : status[q] = "none" => frames'[q] = <<>>,
         \A q \in Process : childPid'[q] \in Process => status[childPid'[q]] # "none",
         \A q \in Process : \A i \in DOMAIN frames'[q] :
           frames'[q][i].pid \in Process => status[frames'[q][i].pid] # "none"
  PROVE  PastInv'
<1>1. \A p \in Process : status'[p] = "none" =>
        parent'[p] = 0 /\ frames'[p] = <<>> /\ \A c : ~ Own(p, c)
  BY DEF PastInv
<1>2. \A p \in Process : status'[p] = "none" =>
        parent'[p] = 0 /\ frames'[p] = <<>> /\ \A c : ~ Own(p, c)'
  BY <1>1 DEF Own
<1>3. \A p \in Process \ {1} : status'[p] # "none" => parent'[p] \in Process
  BY DEF PastInv
<1>4. \A p \in Process : childPid'[p] \in Process => status'[childPid'[p]] # "none"
  BY DEF TypeInv, TypeOK
<1>5. \A p \in Process : \A i \in DOMAIN frames'[p] :
        frames'[p][i].pid \in Process => status'[frames'[p][i].pid] # "none"
  <2> SUFFICES ASSUME NEW p \in Process, NEW i \in DOMAIN frames'[p], frames'[p][i].pid \in Process
               PROVE  status'[frames'[p][i].pid] # "none"
    OBVIOUS
  <2>1. frames'[p] \in Seq(FrameSet)
    BY DEF TypeInv
  <2>2. frames'[p][i] \in FrameSet
    BY <2>1
  <2>3. frames'[p][i].pid \in Process
    BY <2>2 DEF FrameSet
  <2> QED
    BY <2>3
<1> QED
  BY <1>2, <1>3, <1>4, <1>5 DEF PastInv

\* The same where the calls of one process only change at the top.
LEMMA PastTop ==
  ASSUME TypeInv, TypeInv', PastInv, UNCHANGED parent, NEW p \in Process,
         status[p] = "running", ~ Shell(p),
         \A q \in Process : status'[q] = "none" <=> status[q] = "none",
         \A q \in Process : childPid'[q] \in Process => status[childPid'[q]] # "none",
         NEW pc \in Statement,
         NEW pid \in Pid, pid \in Process => status[pid] # "none",
         frames' = [frames EXCEPT ![p] = Goto(p, pc, pid)]
  PROVE  PastInv'
<1>0. PICK n : n = Len(frames[p])
  OBVIOUS
<1>1. frames'[p] = Goto(p, pc, pid) /\ \A q \in Process : q # p => frames'[q] = frames[q]
  BY DEF TypeInv
<1>2. /\ DOMAIN frames[p] = 1 .. n /\ DOMAIN frames'[p] = 1 .. n
      /\ \A i \in 1 .. n : i # n => frames'[p][i] = frames[p][i]
      /\ frames'[p][n] = Frame(pc, pid)
  BY ONLY TypeInv, p \in Process, ~ Shell(p), <1>0, <1>1, NextTop,
          pc \in Statement,
          pid \in Pid
<1>3. \A q \in Process : \A i \in DOMAIN frames'[q] :
        frames'[q][i].pid \in Process => status[frames'[q][i].pid] # "none"
  <2> SUFFICES ASSUME NEW q \in Process, NEW i \in DOMAIN frames'[q],
                      frames'[q][i].pid \in Process
               PROVE  status[frames'[q][i].pid] # "none"
    OBVIOUS
  <2>1. CASE q = p /\ i = n
    BY <1>2, <2>1 DEF Frame
  <2>2. CASE q = p /\ i # n
    <3>1. i \in DOMAIN frames[p] /\ frames'[q][i] = frames[p][i]
      BY <1>2, <2>2
    <3>2. frames[p][i].pid \in Process => status[frames[p][i].pid] # "none"
      BY <3>1 DEF PastInv
    <3> QED
      BY <3>1, <3>2
  <2>3. CASE q # p
    BY <1>1, <2>3 DEF PastInv
  <2> QED
    BY <2>1, <2>2, <2>3
<1>4. \A q \in Process : status[q] = "none" => frames'[q] = <<>>
  BY <1>1 DEF PastInv
<1> QED
  BY ONLY TypeInv, TypeInv', PastInv, UNCHANGED parent,
          \A q \in Process : status'[q] = "none" <=> status[q] = "none",
          \A q \in Process : childPid'[q] \in Process => status[childPid'[q]] # "none",
          <1>3, <1>4, PastStep

\* Every process that has no part in a step keeps what it remembers.
LEMMA CareRest ==
  ASSUME TypeInv, TypeInv', CareInv, NEW p \in Process,
         UNCHANGED <<parent, noShell>>,
         \A q \in Process \ {p} : UNCHANGED <<frames[q], childPid[q]>>,
         \A c \in Process : Lives(c),
         \A c \in Process : parent[c] # p /\ There(c) => There(c)',
         \A q \in Process : status'[q] = "running" => status[q] = "running"
  PROVE  \A q \in Process \ {p} : Care(q)'
<1> SUFFICES ASSUME NEW q \in Process \ {p} PROVE Care(q)'
  OBVIOUS
<1>1. \A c : Own(q, c)' <=> Own(q, c)
  BY DEF Own
<1>2. \A c : Own(q, c) /\ There(c) => There(c)'
  BY DEF Own
<1>3. PastInv /\ Care(q)
  BY DEF CareInv
<1> QED
  BY <1>1, <1>2, <1>3, CareOther

\* A step that kills: nobody's calls change, nobody's children are waited for.
LEMMA CareKill ==
  ASSUME TypeInv, TypeInv', CareInv, NEW p \in Process,
         UNCHANGED <<parent, childPid, frames, noShell>>,
         \A c \in Process : \/ status'[c] = status[c]
                            \/ Alive(c) /\ status'[c] \in {"zombie", "stopped"}
  PROVE  CareInv'
<1>1. PastInv /\ Care(p)
  BY DEF CareInv
<1>2. \A c \in Process : Lives(c)
  BY DEF Lives
<1>3. /\ \A c \in Process : There(c) => There(c)'
      /\ \A q \in Process : status'[q] = "running" => status[q] = "running"
      /\ \A q \in Process : status'[q] = "none" <=> status[q] = "none"
  BY DEF There, Alive
<1>4. PastInv'
  <2>1. \A q \in Process : status[q] = "none" => frames'[q] = <<>>
    BY <1>1 DEF PastInv
  <2>2. \A q \in Process : childPid'[q] \in Process => status[childPid'[q]] # "none"
    BY <1>1 DEF PastInv
  <2>3. \A q \in Process : \A i \in DOMAIN frames'[q] :
          frames'[q][i].pid \in Process => status[frames'[q][i].pid] # "none"
    BY <1>1 DEF PastInv
  <2> QED
    BY <1>1, <1>3, <2>1, <2>2, <2>3, PastStep
<1>5. \A q \in Process : Care(q)'
  <2> SUFFICES ASSUME NEW q \in Process PROVE Care(q)'
    OBVIOUS
  <2>1. \A c : Own(q, c)' <=> Own(q, c)
    BY DEF Own
  <2>2. \A c : Own(q, c) /\ There(c) => There(c)'
    BY <1>3 DEF Own
  <2>3. Care(q) /\ UNCHANGED <<frames[q], childPid[q], noShell>>
    BY DEF CareInv
  <2> QED
    BY <1>1, <1>2, <1>3, <2>1, <2>2, <2>3, CareOther
<1> QED
  BY <1>4, <1>5 DEF CareInv

LEMMA KillsOnly ==
  ASSUME TypeInv, NEW p, NEW x, Kill(p, x)
  PROVE  \A c \in Process : \/ status'[c] = status[c]
                            \/ Alive(c) /\ status'[c] \in {"zombie", "stopped"}
  BY DEF Kill

\* A step of the innermost call in which nobody changes but, perhaps, a child
\* that is waited for.
LEMMA CareMove ==
  ASSUME TypeInv, TypeInv', CareInv, NEW p \in Process,
         status[p] = "running", ~ Shell(p), Top(p).pc # "store",
         UNCHANGED <<parent, childPid, noShell>>,
         NEW pc \in {"fork", "store", "callWait", "wait", "sleep", "test"},
         NEW pid \in Pid, pid \in Process => status[pid] # "none", pc = "store" => pid = -1,
         frames' = [frames EXCEPT ![p] = Goto(p, pc, pid)],
         \A c \in Process : \/ status'[c] = status[c]
                            \/ parent[c] = p /\ status[c] = "zombie" /\ status'[c] = "gone",
         noShell \/ \A c : Own(p, c) /\ There(c) /\ childPid[p] # c => There(c)',
         \A c : Own(p, c) /\ There(c)' /\ childPid[p] = c /\ status'[p] = "running" =>
           pc = "callWait" \/ (pc = "wait" /\ pid = c),
         noShell \/ (Top(p).pc # "exec" /\ AtTop(p)')
  PROVE  CareInv'
<1>1. PastInv /\ Care(p) /\ UNCHANGED <<childPid[p], noShell>>
  BY DEF CareInv
<1>2. /\ \A c \in Process : Lives(c)
      /\ \A q \in Process : status'[q] = "running" => status[q] = "running"
      /\ \A q \in Process : status'[q] = "none" <=> status[q] = "none"
  BY DEF Lives
<1>3. /\ \A c \in Process : parent[c] # p /\ There(c) => There(c)'
      /\ \A c \in Process : (There(c)' => There(c)) /\ (Alive(c)' => Alive(c))
  BY DEF There, Alive
<1>4. frames'[p] = Goto(p, pc, pid) /\ \A q \in Process \ {p} : frames'[q] = frames[q]
  BY DEF TypeInv
<1>5. PastInv'
  <2>1. \A q \in Process : childPid'[q] \in Process => status[childPid'[q]] # "none"
    BY <1>1 DEF PastInv
  <2>2. pc \in Statement
    OBVIOUS
  <2> QED
    BY ONLY TypeInv, TypeInv', <1>1, <1>2, <2>1, <2>2, p \in Process, UNCHANGED parent,
            status[p] = "running", ~ Shell(p), pid \in Pid,
            pid \in Process => status[pid] # "none",
            frames' = [frames EXCEPT ![p] = Goto(p, pc, pid)], PastTop
<1>6. \A q \in Process \ {p} : Care(q)'
  BY <1>2, <1>3, <1>4, CareRest
<1>7. Care(p)'
  <2>1. \A c : Own(p, c)' <=> Own(p, c)
    BY DEF Own
  <2>2. \A c : Own(p, c) => (Alive(c)' => Alive(c)) /\ (There(c)' => There(c))
    BY <1>3 DEF Own
  <2> QED
    BY <1>1, <1>4, <2>1, <2>2, CareTop
<1>8. \A q \in Process : Care(q)'
  BY <1>6, <1>7
<1> QED
  BY <1>5, <1>8 DEF CareInv
-------------------------------------------------------------------------------
LEMMA StepFork ==
  ASSUME TypeInv, TypeInv', CareInv, NEW p \in Process, Fork(p)
  PROVE  CareInv'
<1>1. PICK c \in Process :
        /\ status[c] = "none" /\ status[p] = "running" /\ ~ Shell(p) /\ Top(p).pc = "fork"
        /\ status' = [status EXCEPT ![c] = "running"]
        /\ parent' = [parent EXCEPT ![c] = p]
        /\ childPid' = [childPid EXCEPT ![c] = childPid[p]]
        /\ frames' = [frames EXCEPT ![p] = Goto(p, "store", c), ![c] = Goto(p, "store", 0)]
        /\ UNCHANGED noShell
  BY DEF Fork, At, keyboard
<1>2. PastInv /\ Care(p)
  BY DEF CareInv
<1>3. Care(p)' /\ Care(c)'
  BY <1>1, <1>2, CareFork
<1>4. /\ \A d \in Process : d # c =>
           /\ status'[d] = status[d] /\ parent'[d] = parent[d] /\ childPid'[d] = childPid[d]
      /\ \A d \in Process : d # c /\ d # p => frames'[d] = frames[d]
      /\ status'[c] = "running" /\ parent'[c] = p /\ childPid'[c] = childPid[p] /\ p # c
      /\ parent[c] = 0 /\ frames'[p] = Goto(p, "store", c) /\ frames'[c] = Goto(p, "store", 0)
  BY <1>1, <1>2 DEF TypeInv, TypeOK, PastInv
<1>5. ASSUME NEW q \in Process, q # p, q # c PROVE Care(q)'
  <2>1. \A d : Own(q, d)' <=> Own(q, d)
    BY <1>4, <1>5, Numbers DEF Own
  <2>2. \A d \in Process : Lives(d)
    BY <1>1, <1>4 DEF Lives
  <2>3. \A d : Own(q, d) /\ There(d) => There(d)'
    BY <1>1, <1>4 DEF Own, There, Alive
  <2>4. /\ UNCHANGED <<frames[q], childPid[q], noShell>>
        /\ status'[q] = "running" => status[q] = "running"
    BY <1>1, <1>4, <1>5
  <2>5. Care(q)
    BY DEF CareInv
  <2> QED
    BY <1>2, <2>1, <2>2, <2>3, <2>4, <2>5, CareOther
<1>6. PastInv'
  <2>0. c # 0 /\ p # 0
    BY Numbers
  <2>1. \A q \in Process : status'[q] = "none" =>
          q # c /\ q # p /\ parent'[q] = 0 /\ frames'[q] = <<>>
    <3> SUFFICES ASSUME NEW q \in Process, status'[q] = "none"
                 PROVE  q # c /\ q # p /\ parent'[q] = 0 /\ frames'[q] = <<>>
      OBVIOUS
    <3>1. q # c /\ status[q] = "none"
      BY <1>4
    <3>2. q # p
      BY <1>1, <3>1
    <3>3. parent[q] = 0 /\ frames[q] = <<>>
      BY <1>2, <3>1 DEF PastInv
    <3> QED
      BY <1>4, <3>1, <3>2, <3>3
  <2>2. \A q \in Process : status'[q] = "none" => \A d : ~ Own(q, d)'
    <3> SUFFICES ASSUME NEW q \in Process, status'[q] = "none", NEW d, Own(q, d)'
                 PROVE  FALSE
      OBVIOUS
    <3>1. d \in Process /\ parent'[d] = q
      BY DEF Own
    <3>2. q # c /\ q # p /\ status[q] = "none"
      BY <1>4, <2>1
    <3>3. parent[d] = q
      BY <1>4, <3>1, <3>2
    <3> QED
      BY <1>2, <3>1, <3>2, <3>3 DEF PastInv, Own
  <2>3. \A q \in Process \ {1} : status'[q] # "none" => parent'[q] \in Process
    BY <1>2, <1>4 DEF PastInv
  <2>4. \A x : x \in Process /\ status[x] # "none" => status'[x] # "none"
    BY <1>4
  <2>5. \A q \in Process : childPid'[q] \in Process => status'[childPid'[q]] # "none"
    <3>1. \A q \in Process : childPid[q] \in Pid /\
            (childPid[q] \in Process => status[childPid[q]] # "none")
      BY <1>2 DEF PastInv, TypeInv, TypeOK
    <3>2. \A q \in Process : childPid'[q] = childPid[q] \/ childPid'[q] = childPid[p]
      BY <1>4
    <3>3. \A q \in Process : childPid[q] \in Process => status'[childPid[q]] # "none"
      BY <2>4, <3>1
    <3> QED
      BY <3>2, <3>3
  <2>6. \A q \in Process : \A i \in DOMAIN frames[q] :
          frames[q][i].pid \in Process => status'[frames[q][i].pid] # "none"
    <3>1. \A q \in Process : \A i \in DOMAIN frames[q] : frames[q][i].pid \in Pid
      BY DEF TypeInv, TypeOK
    <3> QED
      BY <1>2, <2>4, <3>1 DEF PastInv
  <2>7. \A q \in Process : \A i \in DOMAIN frames'[q] :
          frames'[q][i].pid \in Process => status'[frames'[q][i].pid] # "none"
    <3>0. PICK n : n = Len(frames[p])
      OBVIOUS
    <3>1. ASSUME NEW x \in Pid
          PROVE  /\ DOMAIN Goto(p, "store", x) = 1 .. n /\ DOMAIN frames[p] = 1 .. n
                 /\ \A i \in 1 .. n : i # n => Goto(p, "store", x)[i] = frames[p][i]
                 /\ Goto(p, "store", x)[n] = Frame("store", x)
      <4>1. Frame("store", x) \in FrameSet
        BY DEF Frame, FrameSet
      <4> QED
        BY ONLY TypeInv, p \in Process, <1>1, <3>0, <4>1, TopChanges
    <3>2. ASSUME NEW x \in Pid, x \in Process => status'[x] # "none",
                 NEW i \in DOMAIN Goto(p, "store", x), Goto(p, "store", x)[i].pid \in Process
          PROVE  status'[Goto(p, "store", x)[i].pid] # "none"
      <4>1. CASE i = n
        <5>1. Goto(p, "store", x)[i] = Frame("store", x)
          BY <3>1, <4>1
        <5>2. Goto(p, "store", x)[i].pid = x
          BY <5>1 DEF Frame
        <5> QED
          BY <3>2, <5>2
      <4>2. CASE i # n
        <5>1. i \in DOMAIN frames[p] /\ Goto(p, "store", x)[i] = frames[p][i]
          BY <3>1, <4>2
        <5>2. frames[p][i].pid \in Process => status'[frames[p][i].pid] # "none"
          BY <2>6, <5>1
        <5> QED
          BY <3>2, <5>1, <5>2
      <4> QED
        BY <4>1, <4>2
    <3> SUFFICES ASSUME NEW q \in Process, NEW i \in DOMAIN frames'[q], frames'[q][i].pid \in Process
                 PROVE  status'[frames'[q][i].pid] # "none"
      OBVIOUS
    <3>3. CASE q = p
      <4>1. frames'[q] = Goto(p, "store", c) /\ c \in Pid /\ status'[c] # "none"
        BY <1>4, <3>3
      <4> QED
        BY <3>2, <4>1
    <3>4. CASE q = c
      <4>1. frames'[q] = Goto(p, "store", 0) /\ 0 \in Pid
        BY <1>4, <3>4
      <4>2. 0 \in Process => status'[0] # "none"
        BY Numbers
      <4> QED
        BY <3>2, <4>1, <4>2
    <3>5. CASE q # p /\ q # c
      <4>1. frames'[q] = frames[q]
        BY <1>4, <3>5
      <4> QED
        BY <2>6, <4>1
    <3> QED
      BY <3>3, <3>4, <3>5
  <2> QED
    BY <2>1, <2>2, <2>3, <2>5, <2>7 DEF PastInv
<1>7. \A q \in Process : Care(q)'
  BY <1>3, <1>5
<1> QED
  BY <1>6, <1>7 DEF CareInv

LEMMA StepStore ==
  ASSUME TypeInv, TypeInv', CareInv, NEW p \in Process, Store(p)
  PROVE  CareInv'
<1>1. /\ status[p] = "running" /\ ~ Shell(p) /\ UNCHANGED <<status, parent, noShell>>
      /\ childPid' = [childPid EXCEPT ![p] = Top(p).pid]
      /\ frames' = [frames EXCEPT ![p] = Goto(p, After(Top(p).pid), 0)]
  BY DEF Store, At, keyboard, After
<1>2. PastInv /\ Care(p)
  BY DEF CareInv
<1>3. Care(p)'
  BY <1>2, CareStore
<1>4. \A q \in Process \ {p} : UNCHANGED <<frames[q], childPid[q]>>
  BY <1>1 DEF TypeInv, TypeOK
<1>5. \A q \in Process \ {p} : Care(q)'
  <2>1. /\ \A c \in Process : Lives(c)
        /\ \A c \in Process : parent[c] # p /\ There(c) => There(c)'
        /\ \A q \in Process : status'[q] = "running" => status[q] = "running"
    BY <1>1 DEF Lives, There, Alive
  <2> QED
    BY <1>1, <1>4, <2>1, CareRest
<1>6. PastInv'
  <2>1. PICK pc \in {"exec", "exit", "callWait"} : frames' = [frames EXCEPT ![p] = Goto(p, pc, 0)]
    BY <1>1, AfterIs
  <2>2. Top(p).pid \in Process => status[Top(p).pid] # "none"
    <3>1. Len(frames[p]) \in DOMAIN frames[p] /\ Top(p) = frames[p][Len(frames[p])]
      BY <1>1, TopIs
    <3> QED
      BY <1>2, <3>1 DEF PastInv
  <2>3. \A q \in Process : childPid'[q] \in Process => status[childPid'[q]] # "none"
    <3>1. \A q \in Process : childPid'[q] = IF q = p THEN Top(p).pid ELSE childPid[q]
      BY <1>1 DEF TypeInv, TypeOK
    <3> QED
      BY <1>2, <2>2, <3>1 DEF PastInv
  <2>4. \A q \in Process : status'[q] = "none" <=> status[q] = "none"
    BY <1>1
  <2>5. /\ pc \in Statement
        /\ 0 \in Pid /\ (0 \in Process => status[0] # "none")
    BY Numbers
  <2>6. status[p] = "running" /\ ~ Shell(p) /\ UNCHANGED parent
    BY <1>1
  <2> QED
    BY ONLY TypeInv, TypeInv', p \in Process, <1>2, <2>1, <2>3, <2>4, <2>5, <2>6, PastTop
<1>7. \A q \in Process : Care(q)'
  BY <1>3, <1>5
<1> QED
  BY <1>6, <1>7 DEF CareInv

LEMMA StepExec ==
  ASSUME TypeInv, TypeInv', CareInv, NEW p \in Process, Exec(p)
  PROVE  CareInv'
<1>1. /\ status[p] = "running" /\ ~ Shell(p) /\ UNCHANGED <<status, parent, childPid, noShell>>
      /\ frames' = [frames EXCEPT ![p] = IF noShell THEN Goto(p, "sleep", 0) ELSE <<>>]
  BY DEF Exec, At, keyboard
<1>2. PastInv /\ Care(p)
  BY DEF CareInv
<1>3. Care(p)'
  BY <1>2, CareExec
<1>4. \A q \in Process \ {p} : UNCHANGED <<frames[q], childPid[q]>>
  BY <1>1 DEF TypeInv
<1>5. \A q \in Process \ {p} : Care(q)'
  <2>1. /\ \A c \in Process : Lives(c)
        /\ \A c \in Process : parent[c] # p /\ There(c) => There(c)'
        /\ \A q \in Process : status'[q] = "running" => status[q] = "running"
    BY <1>1 DEF Lives, There, Alive
  <2> QED
    BY <1>1, <1>4, <2>1, CareRest
<1>6. PastInv'
  <2>1. \A q \in Process : childPid'[q] \in Process => status[childPid'[q]] # "none"
    BY <1>1, <1>2 DEF PastInv
  <2>2. \A q \in Process : status'[q] = "none" <=> status[q] = "none"
    BY <1>1
  <2>3. CASE noShell
    <3>1. frames' = [frames EXCEPT ![p] = Goto(p, "sleep", 0)]
      BY <1>1, <2>3
    <3>2. /\ "sleep" \in Statement
          /\ 0 \in Pid /\ (0 \in Process => status[0] # "none")
      BY Numbers
    <3> QED
      BY ONLY TypeInv, TypeInv', p \in Process, <1>1, <1>2, <2>1, <2>2, <3>1, <3>2, PastTop
  <2>4. CASE ~ noShell
    <3>1. frames'[p] = <<>> /\ \A q \in Process : q # p => frames'[q] = frames[q]
      BY <1>1, <2>4 DEF TypeInv
    <3>2. \A q \in Process : status[q] = "none" => frames'[q] = <<>>
      BY <1>2, <3>1 DEF PastInv
    <3>3. \A q \in Process : \A i \in DOMAIN frames'[q] :
            frames'[q][i].pid \in Process => status[frames'[q][i].pid] # "none"
      BY <1>2, <3>1 DEF PastInv
    <3> QED
      BY <1>1, <1>2, <2>1, <2>2, <3>2, <3>3, PastStep
  <2> QED
    BY <2>3, <2>4
<1>7. \A q \in Process : Care(q)'
  BY <1>3, <1>5
<1> QED
  BY <1>6, <1>7 DEF CareInv

LEMMA StepCallWait ==
  ASSUME TypeInv, TypeInv', CareInv, NEW p \in Process, CallWait(p)
  PROVE  CareInv'
<1>0. PICK x : x = childPid[p]
  OBVIOUS
<1>1. /\ status[p] = "running" /\ ~ Shell(p) /\ Top(p).pc = "callWait"
      /\ UNCHANGED <<status, parent, childPid, noShell>>
      /\ frames' = [frames EXCEPT ![p] = Goto(p, "wait", x)]
  BY <1>0 DEF CallWait, At, keyboard
<1>2. PastInv /\ Care(p)
  BY DEF CareInv
<1>3. x \in Pid /\ (x \in Process => status[x] # "none")
  BY <1>0, <1>2 DEF PastInv, TypeInv, TypeOK
<1>4. \A c \in Process : \/ status'[c] = status[c]
                         \/ parent[c] = p /\ status[c] = "zombie" /\ status'[c] = "gone"
  BY <1>1
<1>5. \A c : Own(p, c) /\ There(c) /\ childPid[p] # c => There(c)'
  BY <1>1 DEF There, Alive
<1>6. ~ noShell => AtTop(p)'
  <2>1. ~ noShell => Own(p, x) /\ There(x)
    BY <1>0, <1>1, <1>2 DEF Care, AtTop, At
  <2>2. frames'[p] = Goto(p, "wait", x)
    BY <1>1 DEF TypeInv
  <2>3. Top(p)' = Frame("wait", x)
    <3>1. "wait" \in Statement
      OBVIOUS
    <3> QED
      BY ONLY TypeInv, p \in Process, <1>1, <1>3, <2>2, <3>1, NextTop
  <2>4. childPid'[p] = x /\ (Own(p, x)' <=> Own(p, x)) /\ (There(x)' <=> There(x))
    BY <1>0, <1>1 DEF Own, There, Alive
  <2>5. Frame("wait", x).pc = "wait" /\ Frame("wait", x).pid = x
    BY DEF Frame
  <2>6. ~ At(p, "callWait")' /\ ~ At(p, "exec")' /\ ~ At(p, "sleep")' /\ ~ At(p, "test")'
    BY <2>3, <2>5 DEF At
  <2>7. Top(p)'.pid = childPid'[p]
    BY <2>3, <2>4, <2>5
  <2>8. ~ noShell => Own(p, childPid[p])' /\ There(childPid[p])'
    BY <2>1, <2>4 DEF Own, There, Alive
  <2> QED
    BY <2>6, <2>7, <2>8 DEF AtTop
<1>7. \A c : Own(p, c) /\ There(c)' /\ childPid[p] = c /\ status'[p] = "running" =>
        "wait" = "callWait" \/ ("wait" = "wait" /\ x = c)
  BY <1>0
<1> QED
  BY <1>1, <1>3, <1>4, <1>5, <1>6, <1>7, CareMove

\* The child that is waited for is the one in childPid.
LEMMA StepWait ==
  ASSUME TypeInv, TypeInv', CareInv, NEW p \in Process, Wait(p)
  PROVE  CareInv'
<1>0. PICK x : x = Top(p).pid
  OBVIOUS
<1>1. /\ status[p] = "running" /\ ~ Shell(p) /\ Top(p).pc = "wait"
      /\ UNCHANGED <<parent, childPid, noShell>>
      /\ frames' = [frames EXCEPT ![p] = Goto(p, "sleep", 0)]
      /\ Waitable(p, x) => status[x] = "zombie"
      /\ status' = IF Waitable(p, x) THEN [status EXCEPT ![x] = "gone"] ELSE status
  BY <1>0 DEF Wait, At, keyboard
<1>2. PastInv /\ Care(p)
  BY DEF CareInv
<1>3. x \in Pid
  <2>1. Top(p) \in FrameSet
    BY <1>1, TopIs
  <2> QED
    BY <1>0, <2>1 DEF FrameSet
<1>4. \A c \in Process : Own(p, c) /\ There(c) /\ c = x => Waitable(p, x) /\ status'[c] = "gone"
  BY <1>1, ExistsIs DEF Own, Waitable, TypeInv, TypeOK
<1>5. /\ \A c \in Process : c # x => status'[c] = status[c]
      /\ \A c \in Process : \/ status'[c] = status[c]
                            \/ parent[c] = p /\ status[c] = "zombie" /\ status'[c] = "gone"
  BY <1>1, <1>3 DEF Waitable, TypeInv, TypeOK
<1>6. \A c : Own(p, c) /\ There(c) /\ childPid[p] = c => c = x
  BY <1>0, <1>1, <1>2 DEF Care, Waited, IsLoop, Frame
<1>7. \A c : Own(p, c) /\ There(c)' /\ childPid[p] = c /\ status'[p] = "running" => FALSE
  <2> SUFFICES ASSUME NEW c, Own(p, c), There(c)', childPid[p] = c PROVE FALSE
    OBVIOUS
  <2>1. There(c) /\ c \in Process
    BY <1>5 DEF Own, There, Alive
  <2>2. c = x
    BY <1>6, <2>1
  <2>3. status'[c] = "gone"
    BY <1>4, <2>1, <2>2
  <2> QED
    BY <2>3 DEF There, Alive
<1>8. ASSUME ~ noShell
      PROVE  /\ \A c : Own(p, c) /\ There(c) /\ childPid[p] # c => There(c)'
             /\ AtTop(p)'
  <2>1. x = childPid[p] /\ Own(p, x) /\ There(x)
    BY <1>0, <1>1, <1>2, <1>8 DEF Care, AtTop, At
  <2>2. \A c : Own(p, c) /\ There(c) /\ childPid[p] # c => There(c)'
    BY <1>5, <2>1 DEF Own, There, Alive
  <2>3. x \in Process /\ status'[x] = "gone"
    BY <1>4, <2>1 DEF Own
  <2>4. ~ Exists(childPid[p])'
    BY <1>1, <2>1, <2>3, Numbers DEF Exists, Alive
  <2>5. frames'[p] = Goto(p, "sleep", 0)
    BY <1>1 DEF TypeInv
  <2>6. Top(p)' = Frame("sleep", 0)
    <3>1. /\ "sleep" \in Statement
          /\ 0 \in Pid
      OBVIOUS
    <3> QED
      BY ONLY TypeInv, p \in Process, <1>1, <2>5, <3>1, NextTop
  <2>7. Frame("sleep", 0).pc = "sleep"
    BY DEF Frame
  <2>8. AtTop(p)'
    BY <2>4, <2>6, <2>7 DEF AtTop, At
  <2> QED
    BY <2>2, <2>8
<1>9. 0 \in Pid /\ (0 \in Process => status[0] # "none")
  BY Numbers
<1> QED
  BY <1>1, <1>5, <1>7, <1>8, <1>9, CareMove

\* With the shell there, the do loop does not go round.
LEMMA StepLoop ==
  ASSUME TypeInv, TypeInv', CareInv, NEW p \in Process, Sleep(p) \/ Again(p)
  PROVE  CareInv'
<1>1. /\ status[p] = "running" /\ ~ Shell(p) /\ Top(p).pc \in {"sleep", "test"}
      /\ UNCHANGED <<status, parent, childPid, noShell>>
  BY DEF Sleep, Again, At, keyboard
<1>2. PastInv /\ Care(p)
  BY DEF CareInv
<1>3. PICK pc \in {"fork", "test"} : frames' = [frames EXCEPT ![p] = Goto(p, pc, 0)]
  BY DEF Sleep, Again
<1>4. \A c \in Process : \/ status'[c] = status[c]
                         \/ parent[c] = p /\ status[c] = "zombie" /\ status'[c] = "gone"
  BY <1>1
<1>5. \A c : Own(p, c) /\ There(c) /\ childPid[p] # c => There(c)'
  BY <1>1 DEF There, Alive
<1>6. ~ noShell => AtTop(p)'
  <2>1. ~ noShell => ~ Exists(childPid[p])
    BY <1>1, <1>2 DEF Care, AtTop, At
  <2>2. ~ noShell => ~ Exists(childPid[p])'
    BY <1>1, <2>1 DEF Exists, Alive
  <2>3. frames'[p] = Goto(p, pc, 0)
    BY <1>3 DEF TypeInv
  <2>4. Top(p)' = Frame(pc, 0)
    <3>1. /\ pc \in Statement
          /\ 0 \in Pid
      OBVIOUS
    <3> QED
      BY ONLY TypeInv, p \in Process, <1>1, <2>3, <3>1, NextTop
  <2>5. Frame(pc, 0).pc \in {"fork", "test"}
    BY DEF Frame
  <2> QED
    BY <2>2, <2>4, <2>5 DEF AtTop, At
<1>7. \A c : Own(p, c) /\ There(c)' /\ childPid[p] = c /\ status'[p] = "running" => FALSE
  <2>1. \A c : Own(p, c) /\ There(c) => childPid[p] # c
    BY <1>1, <1>2 DEF Care, Waited, IsLoop, Frame
  <2>2. \A c : There(c)' <=> There(c)
    BY <1>1 DEF There, Alive
  <2> QED
    BY <2>1, <2>2
<1>8. /\ 0 \in Pid /\ (0 \in Process => status[0] # "none")
      /\ pc \in {"fork", "store", "callWait", "wait", "sleep", "test"} /\ pc # "store"
      /\ Top(p).pc \notin {"store", "exec"}
  BY <1>1, Numbers
<1> QED
  BY <1>1, <1>3, <1>4, <1>5, <1>6, <1>7, <1>8, CareMove

\* What is stored when no process was forked is nobody's number.
LEMMA StepForkFails ==
  ASSUME TypeInv, TypeInv', CareInv, NEW p \in Process, ForkFails(p)
  PROVE  CareInv'
<1>1. /\ status[p] = "running" /\ ~ Shell(p) /\ Top(p).pc = "fork"
      /\ UNCHANGED <<status, parent, childPid, noShell>>
      /\ frames' = [frames EXCEPT ![p] = Goto(p, "store", -1)]
  BY DEF ForkFails, At, keyboard
<1>2. PastInv /\ Care(p)
  BY DEF CareInv
<1>3. \A c \in Process : \/ status'[c] = status[c]
                         \/ parent[c] = p /\ status[c] = "zombie" /\ status'[c] = "gone"
  BY <1>1
<1>4. \A c : Own(p, c) /\ There(c) /\ childPid[p] # c => There(c)'
  BY <1>1 DEF There, Alive
<1>5. AtTop(p)'
  <2>1. frames'[p] = Goto(p, "store", -1)
    BY <1>1 DEF TypeInv
  <2>2. Top(p)' = Frame("store", -1)
    <3>1. "store" \in Statement /\ -1 \in Pid
      OBVIOUS
    <3> QED
      BY ONLY TypeInv, p \in Process, <1>1, <2>1, <3>1, NextTop
  <2> QED
    BY <2>2 DEF AtTop, At, Frame
<1>6. \A c : Own(p, c) /\ There(c)' /\ childPid[p] = c /\ status'[p] = "running" => FALSE
  <2>1. \A c : Own(p, c) /\ There(c) => childPid[p] # c
    BY <1>1, <1>2 DEF Care, Waited, IsLoop, Frame
  <2>2. \A c : There(c)' <=> There(c)
    BY <1>1 DEF There, Alive
  <2> QED
    BY <2>1, <2>2
<1>7. /\ -1 \in Pid /\ (-1 \in Process => status[-1] # "none")
      /\ "store" \in {"fork", "store", "callWait", "wait", "sleep", "test"}
      /\ Top(p).pc \notin {"store", "exec"}
  BY <1>1, Numbers
<1> QED
  BY <1>1, <1>3, <1>4, <1>5, <1>6, <1>7, CareMove

LEMMA StepReturn ==
  ASSUME TypeInv, TypeInv', CareInv, NEW p \in Process, Return(p)
  PROVE  CareInv'
<1>1. ~ Shell(p) /\ status[p] = "running" /\ UNCHANGED <<parent, childPid, noShell>>
  BY DEF Return, At, keyboard
<1>2. PastInv /\ Care(p)
  BY DEF CareInv
<1>3. CASE Len(frames[p]) = 1
  <2>1. Kill(p, p) /\ UNCHANGED frames
    BY <1>3 DEF Return, Ends
  <2> QED
    BY <1>1, <2>1, KillsOnly, CareKill
<1>4. CASE Len(frames[p]) # 1
  <2>1. frames' = [frames EXCEPT ![p] = Front(frames[p])] /\ UNCHANGED status
    BY <1>4 DEF Return
  <2>2. Care(p)'
    BY <1>2, <1>4, CareReturn
  <2>3. /\ frames'[p] = Front(frames[p]) /\ \A q \in Process \ {p} : frames'[q] = frames[q]
    BY <2>1 DEF TypeInv
  <2>4. \A q \in Process \ {p} : Care(q)'
    <3>1. /\ \A c \in Process : Lives(c)
          /\ \A c \in Process : parent[c] # p /\ There(c) => There(c)'
          /\ \A q \in Process : status'[q] = "running" => status[q] = "running"
      BY <2>1 DEF Lives, There, Alive
    <3> QED
      BY <1>1, <2>3, <3>1, CareRest
  <2>5. PastInv'
    <3>1. \A q \in Process : status[q] = "none" => frames'[q] = <<>>
      BY <1>1, <1>2, <2>3 DEF PastInv
    <3>2. \A i \in DOMAIN frames'[p] : i \in DOMAIN frames[p] /\ frames'[p][i] = frames[p][i]
      <4>0. PICK n : n = Len(frames[p])
        OBVIOUS
      <4>1. n \in Nat \ {0} /\ DOMAIN frames[p] = 1 .. n
        BY <1>1, <4>0, TopIs
      <4>2. DOMAIN frames'[p] = 1 .. n - 1 /\ \A i \in 1 .. n - 1 : frames'[p][i] = frames[p][i]
        BY <1>1, <1>4, <2>3, <4>0, FrontIs
      <4> QED
        BY <4>1, <4>2
    <3>3. \A q \in Process : \A i \in DOMAIN frames'[q] :
            frames'[q][i].pid \in Process => status[frames'[q][i].pid] # "none"
      BY <1>2, <2>3, <3>2 DEF PastInv
    <3>4. /\ \A q \in Process : childPid'[q] \in Process => status[childPid'[q]] # "none"
          /\ \A q \in Process : status'[q] = "none" <=> status[q] = "none"
      BY <1>1, <1>2, <2>1 DEF PastInv
    <3> QED
      BY <1>1, <1>2, <3>1, <3>3, <3>4, PastStep
  <2>6. \A q \in Process : Care(q)'
    BY <2>2, <2>4
  <2> QED
    BY <2>5, <2>6 DEF CareInv
<1> QED
  BY <1>3, <1>4

LEMMA StepHandler ==
  ASSUME TypeInv, TypeInv', CareInv, NEW p \in Process, HandleSignalStp(p)
  PROVE  CareInv'
<1>1. ~ Shell(p) /\ status[p] = "running" /\ UNCHANGED <<parent, childPid, noShell>>
  BY DEF HandleSignalStp, Handles, keyboard
<1>2. PastInv /\ Care(p)
  BY DEF CareInv
<1>3. Care(p)'
  BY <1>2, CareHandler
<1>4. \A c \in Process : \/ status'[c] = status[c]
                         \/ Alive(c) /\ status'[c] \in {"zombie", "stopped"}
  <2>1. UNCHANGED status \/ Kill(p, childPid[p])
    BY DEF HandleSignalStp, KillRunning
  <2> QED
    BY <2>1, KillsOnly
<1>5. frames'[p] = Woken(p) \/ frames'[p] = Append(Woken(p), Frame("fork", 0))
  BY DEF HandleSignalStp, TypeInv
<1>6. \A q \in Process \ {p} : frames'[q] = frames[q]
  BY DEF HandleSignalStp
<1>7. \A q \in Process \ {p} : Care(q)'
  <2>1. /\ \A c \in Process : Lives(c)
        /\ \A c \in Process : parent[c] # p /\ There(c) => There(c)'
        /\ \A q \in Process : status'[q] = "running" => status[q] = "running"
    BY <1>4 DEF Lives, There, Alive
  <2> QED
    BY <1>1, <1>6, <2>1, CareRest
<1>8. PastInv'
  <2>1. \A q \in Process : status[q] = "none" => frames'[q] = <<>>
    BY <1>1, <1>2, <1>6 DEF PastInv
  <2>2. \A i \in DOMAIN frames'[p] :
          \/ i \in DOMAIN frames[p] /\ frames'[p][i] = frames[p][i]
          \/ frames'[p][i].pid = 0
    <3>0. PICK n : n = Len(frames[p])
      OBVIOUS
    <3>1. n \in Nat \ {0} /\ DOMAIN frames[p] = 1 .. n
      BY <1>1, <3>0, TopIs
    <3>2. /\ DOMAIN Woken(p) = 1 .. n
          /\ \A i \in 1 .. n : Woken(p)[i] = frames[p][i] \/ Woken(p)[i].pid = 0
      BY <1>1, <3>0, WokenIs DEF Frame
    <3>3. CASE frames'[p] = Woken(p)
      BY <3>1, <3>2, <3>3
    <3>4. CASE frames'[p] = Append(Woken(p), Frame("fork", 0))
      <4>1. /\ DOMAIN frames'[p] = 1 .. n + 1
            /\ \A i \in 1 .. n : frames'[p][i] = Woken(p)[i]
            /\ frames'[p][n + 1] = Frame("fork", 0)
        BY <1>1, <3>0, <3>4, CalledIs
      <4>2. Frame("fork", 0).pid = 0
        BY DEF Frame
      <4>3. \A i \in 1 .. n + 1 : i \in 1 .. n \/ i = n + 1
        BY <3>1
      <4> QED
        BY <3>1, <3>2, <4>1, <4>2, <4>3
    <3> QED
      BY <1>5, <3>3, <3>4
  <2>3. \A q \in Process : \A i \in DOMAIN frames'[q] :
          frames'[q][i].pid \in Process => status[frames'[q][i].pid] # "none"
    BY <1>2, <1>6, <2>2, Numbers DEF PastInv
  <2>4. /\ \A q \in Process : childPid'[q] \in Process => status[childPid'[q]] # "none"
        /\ \A q \in Process : status'[q] = "none" <=> status[q] = "none"
    BY <1>1, <1>2, <1>4 DEF PastInv, Alive
  <2> QED
    BY <1>1, <1>2, <2>1, <2>3, <2>4, PastStep
<1>9. \A q \in Process : Care(q)'
  BY <1>3, <1>7
<1> QED
  BY <1>8, <1>9 DEF CareInv

LEMMA StepKills ==
  ASSUME TypeInv, TypeInv', CareInv, NEW p \in Process,
         Exit(p) \/ ShellEnds(p) \/ HandleSignalInt(p) \/ ShellSignal(p)
  PROVE  CareInv'
<1>1. UNCHANGED <<parent, childPid, frames, noShell>>
  BY DEF Exit, ShellEnds, HandleSignalInt, ShellSignal, Handles, keyboard
<1>2. \A c \in Process : \/ status'[c] = status[c]
                         \/ Alive(c) /\ status'[c] \in {"zombie", "stopped"}
  <2>1. CASE Exit(p) \/ ShellEnds(p)
    BY <2>1, KillsOnly DEF Exit, ShellEnds, Ends
  <2>2. CASE HandleSignalInt(p)
    BY <2>2 DEF HandleSignalInt
  <2>3. CASE ShellSignal(p)
    <3>1. CASE Ends(p)
      BY <3>1, KillsOnly DEF Ends
    <3>2. CASE status[p] = "running" /\ status' = [status EXCEPT ![p] = "stopped"]
      BY <3>2 DEF Alive, TypeInv, TypeOK
    <3> QED
      BY <2>3, <3>1, <3>2 DEF ShellSignal, Handles
  <2> QED
    BY <2>1, <2>2, <2>3
<1> QED
  BY <1>1, <1>2, CareKill

LEMMA CareStep ==
  ASSUME TypeInv, TypeInv', CareInv, [Next]_vars
  PROVE  CareInv'
<1>1. ASSUME NEW p \in Process, Step(p) PROVE CareInv'
  BY <1>1, StepFork, StepForkFails, StepStore, StepExec, StepCallWait, StepWait, StepLoop,
     StepReturn, StepKills
     DEF Step
<1>2. ASSUME NEW p \in Process, Deliver(p) PROVE CareInv'
  BY <1>2, StepHandler, StepKills DEF Deliver
<1>3. CASE CtrlZ \/ CtrlC \/ UNCHANGED vars
  <2>1. UNCHANGED <<status, parent, childPid, frames, noShell>>
    BY <1>3 DEF CtrlZ, CtrlC, vars, keyboard
  <2> QED
    BY <2>1, Numbers, CareKill
<1> QED
  BY <1>1, <1>2, <1>3 DEF Next

LEMMA CareHolds == Spec => [](TypeInv /\ CareInv)
<1>1. TypeInv /\ CareInv /\ [Next]_vars => (TypeInv /\ CareInv)'
  <2>1. TypeInv /\ [Next]_vars => TypeInv'
    <3>1. TypeInv /\ Next => TypeInv'
      BY StepType, DeliverType, KeyType DEF Next
    <3>2. TypeInv /\ UNCHANGED vars => TypeInv'
      BY DEF vars, keyboard, TypeInv, TypeOK
    <3> QED
      BY <3>1, <3>2
  <2> QED
    BY <2>1, CareStep
<1> QED
  BY TypeInit, CareInit, <1>1, PTL DEF Spec

\* ChildrenInv: whoever forked a process that lives still knows its number, as
\* childPid or as the result of a fork that startMain is about to store; so the
\* shell that Ctrl-Z and Ctrl-C kill is always the one that runs.
THEOREM ChildrenInvHolds == Spec => []ChildrenInv
<1>1. TypeInv /\ CareInv => ChildrenInv
  <2> SUFFICES ASSUME TypeInv, CareInv, NEW c \in Process \ {1}, Alive(c),
                      NEW p, p = parent[c]
               PROVE  childPid[p] = c \/ \E i \in DOMAIN frames[p] : frames[p][i] = Frame("store", c)
    BY DEF ChildrenInv, ForgetsNoShell, TypeInv
  <2>1. p \in Process
    BY DEF CareInv, PastInv, Alive
  <2>2. Own(p, c)
    BY DEF Own
  <2> QED
    BY <2>1, <2>2 DEF CareInv, Care, Remembers, Stores
<1> QED
  BY <1>1, CareHolds, PTL

\* WaitsForItsOwn: with the shell there, waitpid is called for a child that was
\* not waited for, however often Ctrl-Z interrupted startMain on the way.
THEOREM WaitsForItsOwnHolds == Spec => []WaitsForItsOwn
<1>1. TypeInv /\ CareInv => WaitsForItsOwn
  <2> SUFFICES ASSUME TypeInv, CareInv, ~ noShell, NEW p \in Process
               PROVE  /\ At(p, "callWait") => Waitable(p, childPid[p])
                      /\ At(p, "wait") => Waitable(p, Top(p).pid)
    BY DEF WaitsForItsOwn
  <2>1. AtTop(p)
    BY DEF CareInv, Care
  <2>2. \A c : Own(p, c) /\ There(c) => Waitable(p, c)
    BY ExistsIs DEF Own, Waitable
  <2> QED
    BY <2>1, <2>2 DEF AtTop
<1> QED
  BY <1>1, CareHolds, PTL

\* NeverGoesRound: when startMain tests childPid after the sleep that process is
\* gone, so the do loop is left and only Ctrl-Z starts another shell.
THEOREM NeverGoesRoundHolds == Spec => []NeverGoesRound
<1>1. TypeInv /\ CareInv => NeverGoesRound
  BY DEF CareInv, Care, AtTop, NeverGoesRound
<1> QED
  BY <1>1, CareHolds, PTL
==============================================================================
