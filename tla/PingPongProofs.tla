---------------------------- MODULE PingPongProofs ----------------------------
(***************************************************************************)
(* Theorems about PingPong, for every number L of signals.                 *)
(***************************************************************************)
EXTENDS PingPong, TLAPS

Waiting == main \in {"callPause", "pause"}

(* The parent sends only while it has not sent L signals, and pauses only    *)
(* with type 2.                                                              *)
TypeInv ==
  /\ TypeOK
  /\ handled \in [main : SUBSET Signals, child : SUBSET Signals]
  /\ pending \in [main : SUBSET Signals, child : SUBSET Signals]
  /\ childReceived \in Nat /\ mainReceived \in Nat /\ answers \in Nat
  /\ main = "send" => send < L
  /\ Waiting => type = 2

\* With type 2 the parent is at most one answer behind, and only while it waits.
LagInv == type = 2 /\ MainAlive => mainReceived >= send - One(Waiting)

\* A parent that is about to pause is as good as pausing.
WayInv ==
  Waiting =>
    \/ "USR1" \in pending.main \/ "USR1" \in pending.child \/ listening
    \/ ~ChildAlive
    \/ mainReceived = send
-------------------------------------------------------------------------------
LEMMA InitType == Init => TypeInv
<1> SUFFICES ASSUME Init PROVE TypeInv
  OBVIOUS
<1>1. /\ handled = [main |-> {}, child |-> {}] /\ pending = [main |-> {}, child |-> {}]
      /\ main = "signalUsr1" /\ child \in {"none", "signalUsr1"} /\ type \in 1 .. 3
      /\ send = 0 /\ childReceived = 0 /\ mainReceived = 0 /\ answers = 0
  BY DEF Init
<1>2. masked \in BOOLEAN /\ listening \in BOOLEAN
  BY DEF Init
<1> QED
  BY <1>1, <1>2, PingPongAssumption DEF TypeInv, TypeOK, Signals, Waiting

\* The parent's own statements keep the types.
LEMMA MainType == TypeInv /\ MainStep => TypeInv'
<1> SUFFICES ASSUME TypeInv, MainStep PROVE TypeInv'
  OBVIOUS
<1> USE PingPongAssumption DEF TypeInv, TypeOK, Signals, counters, Waiting
<1>1. CASE MainSignalUsr1 \/ MainSignalInt
  BY <1>1 DEF MainSignalUsr1, MainSignalInt, InstallMain
<1>2. CASE MainSleep
  BY <1>2 DEF MainSleep, AfterSleep
<1>3. CASE MainSend
  <2>1. /\ pending' \in [main : SUBSET Signals, child : SUBSET Signals]
        /\ pending'.main \subseteq {"USR1", "INT"}
    BY <1>3 DEF MainSend, SignalChild
  <2> QED
    BY <1>3, <2>1 DEF MainSend
<1>4. CASE MainPause
  BY <1>4 DEF MainPause
<1>5. CASE MainStop \/ KillAll \/ MainDefault
  <2>1. /\ pending' \in [main : SUBSET Signals, child : SUBSET Signals]
        /\ pending'.main \subseteq {"USR1", "INT"}
    BY <1>5 DEF MainStop, KillAll, MainDefault, SignalChild
  <2> QED
    BY <1>5, <2>1 DEF MainStop, KillAll, MainDefault
<1>6. CASE ListenMain
  BY <1>6 DEF ListenMain, Woken, AfterSleep
<1> QED
  BY <1>1, <1>2, <1>3, <1>4, <1>5, <1>6 DEF MainStep

\* The child's steps and Ctrl-C keep the types.
LEMMA ChildType == TypeInv /\ (ChildStep \/ CtrlC) => TypeInv'
<1> SUFFICES ASSUME TypeInv, ChildStep \/ CtrlC PROVE TypeInv'
  OBVIOUS
<1> USE DEF TypeInv, TypeOK, Signals, counters, Waiting
<1>1. CASE ChildSignalUsr1 \/ ChildSignalUsr2
  BY <1>1 DEF ChildSignalUsr1, ChildSignalUsr2, InstallChild
<1>2. CASE InitBlockMask \/ Stop \/ ChildDefault
  BY <1>2 DEF InitBlockMask, Stop, ChildDefault
<1>3. CASE ListenChild
  BY <1>3 DEF ListenChild
<1>4. CASE Answer
  <2>1. /\ pending' \in [main : SUBSET Signals, child : SUBSET Signals]
        /\ pending'.main \subseteq {"USR1", "INT"}
    BY <1>4 DEF Answer
  <2>2. listening' \in BOOLEAN /\ masked' \in BOOLEAN
    BY <1>4 DEF Answer
  <2>3. /\ answers' = answers + 1
        /\ UNCHANGED <<type, main, child, handled, send, childReceived, mainReceived>>
    BY <1>4 DEF Answer
  <2> QED
    BY <2>1, <2>2, <2>3
<1>5. CASE CtrlC
  <2>1. /\ pending' \in [main : SUBSET Signals, child : SUBSET Signals]
        /\ pending'.main \subseteq {"USR1", "INT"}
    BY <1>5 DEF CtrlC
  <2> QED
    BY <1>5, <2>1 DEF CtrlC
<1> QED
  BY <1>1, <1>2, <1>3, <1>4, <1>5 DEF ChildStep
-------------------------------------------------------------------------------
(* The counters.  Each step counts one signal more than before, or moves one *)
(* count along: pending for the child, listening, pending for the parent.    *)
CountsIInv == TypeInv /\ CountsAgree

LEMMA InitCounts == Init => CountsAgree
  BY DEF Init, CountsAgree, One

LEMMA MainCounts == CountsIInv /\ MainStep => CountsAgree'
<1> SUFFICES ASSUME CountsIInv, MainStep PROVE CountsAgree'
  OBVIOUS
<1> USE DEF CountsIInv, TypeInv, TypeOK, CountsAgree, One, counters
<1>1. CASE MainSignalUsr1 \/ MainSignalInt \/ MainSleep \/ MainPause
  BY <1>1 DEF MainSignalUsr1, MainSignalInt, InstallMain, MainSleep, MainPause
<1>2. CASE MainSend
  <2>1. /\ send' = send + 1 /\ pending'.main = pending.main
        /\ UNCHANGED <<listening, childReceived, mainReceived, answers>>
    BY <1>2 DEF MainSend, SignalChild
  <2> QED
    BY <2>1
<1>3. CASE MainStop \/ KillAll \/ MainDefault
  <2>1. /\ "USR1" \in pending'.main <=> "USR1" \in pending.main
        /\ "USR1" \in pending'.child <=> "USR1" \in pending.child
        /\ UNCHANGED <<listening, counters>>
    BY <1>3 DEF MainStop, KillAll, MainDefault, SignalChild
  <2> QED
    BY <2>1
<1>4. CASE ListenMain
  <2>1. /\ "USR1" \in pending.main /\ "USR1" \notin pending'.main
        /\ pending'.child = pending.child
        /\ mainReceived' = mainReceived + 1
        /\ UNCHANGED <<listening, send, childReceived, answers>>
    BY <1>4 DEF ListenMain
  <2> QED
    BY <2>1
<1> QED
  BY <1>1, <1>2, <1>3, <1>4 DEF MainStep

LEMMA ChildCounts == CountsIInv /\ (ChildStep \/ CtrlC) => CountsAgree'
<1> SUFFICES ASSUME CountsIInv, ChildStep \/ CtrlC PROVE CountsAgree'
  OBVIOUS
<1> USE DEF CountsIInv, TypeInv, TypeOK, CountsAgree, One, counters
<1>1. CASE ChildSignalUsr1 \/ ChildSignalUsr2 \/ InitBlockMask \/ Stop \/ ChildDefault
  BY <1>1 DEF ChildSignalUsr1, ChildSignalUsr2, InstallChild, InitBlockMask, Stop, ChildDefault
<1>2. CASE ListenChild
  <2>1. /\ "USR1" \in pending.child /\ "USR1" \notin pending'.child
        /\ pending'.main = pending.main
        /\ childReceived' = childReceived + 1
        /\ ~listening /\ listening'
        /\ UNCHANGED <<send, mainReceived, answers>>
    BY <1>2 DEF ListenChild
  <2> QED
    BY <2>1
<1>3. CASE Answer
  <2>1. /\ pending'.child = pending.child
        /\ answers' = answers + 1
        /\ listening /\ ~listening'
        /\ UNCHANGED <<send, childReceived, mainReceived>>
    BY <1>3 DEF Answer
  <2> QED
    BY <2>1
<1>4. CASE CtrlC
  <2>1. /\ "USR1" \in pending'.main <=> "USR1" \in pending.main
        /\ "USR1" \in pending'.child <=> "USR1" \in pending.child
        /\ UNCHANGED <<listening, counters>>
    BY <1>4 DEF CtrlC
  <2> QED
    BY <2>1
<1> QED
  BY <1>1, <1>2, <1>3, <1>4 DEF ChildStep

\* The types are right and no counter runs ahead of the one it follows.
THEOREM CountsCorrect == Spec => []CountsIInv
<1>1. Init => CountsIInv
  BY InitType, InitCounts DEF CountsIInv
<1>2. CountsIInv /\ [Next]_vars => CountsIInv'
  <2>1. CountsIInv /\ Next => CountsIInv'
    BY MainType, ChildType, MainCounts, ChildCounts DEF CountsIInv, Next
  <2>2. CountsIInv /\ UNCHANGED vars => CountsIInv'
    BY DEF CountsIInv, TypeInv, TypeOK, CountsAgree, Waiting, vars, counters
  <2> QED
    BY <2>1, <2>2
<1> QED
  BY <1>1, <1>2, PTL DEF Spec

(* What the child counted was sent by the parent, what it answered it        *)
(* counted, and what the parent counted was an answer, in every interleaving *)
(* of handlers and pending signals; never more than L signals are sent.      *)
THEOREM CountsInvHolds == Spec => []CountsInv
<1>1. CountsIInv => CountsInv
  BY DEF CountsIInv, TypeInv, CountsInv
<1> QED
  BY <1>1, CountsCorrect, PTL
-------------------------------------------------------------------------------
LEMMA LagStep == CountsIInv /\ LagInv /\ Next => LagInv'
<1> SUFFICES ASSUME CountsIInv, LagInv, Next, type = 2, MainAlive'
             PROVE  mainReceived' >= send' - One(Waiting)'
  BY DEF Next, LagInv, MainStep, ChildStep, CtrlC, MainSignalUsr1, MainSignalInt, InstallMain,
         MainSleep, MainSend, MainPause, MainStop, ListenMain, KillAll, MainDefault,
         ChildSignalUsr1, ChildSignalUsr2, InstallChild, InitBlockMask, ListenChild, Answer,
         Stop, ChildDefault
<1>1. mainReceived \in Nat /\ send \in Nat
  BY PingPongAssumption DEF CountsIInv, TypeInv, TypeOK
<1>2. CASE MainSignalUsr1 \/ MainSignalInt \/ MainSleep \/ MainPause
  BY <1>1, <1>2
  DEF MainSignalUsr1, MainSignalInt, InstallMain, MainSleep, AfterSleep, MainPause, counters,
      LagInv, MainAlive, Waiting, One
<1>3. CASE MainSend
  BY <1>1, <1>3 DEF MainSend, LagInv, MainAlive, Waiting, One
<1>4. CASE MainStop \/ KillAll \/ MainDefault
  BY <1>4 DEF MainStop, KillAll, MainDefault, MainAlive
<1>5. CASE ListenMain
  BY <1>1, <1>5 DEF ListenMain, Woken, AfterSleep, LagInv, MainAlive, Waiting, One
<1>6. CASE ChildStep \/ CtrlC
  <2>1. UNCHANGED <<main, send, mainReceived>>
    BY <1>6
    DEF ChildStep, ChildSignalUsr1, ChildSignalUsr2, InstallChild, InitBlockMask, ListenChild,
        Answer, Stop, ChildDefault, CtrlC, counters
  <2> QED
    BY <2>1 DEF LagInv, MainAlive, Waiting, One
<1> QED
  BY <1>2, <1>3, <1>4, <1>5, <1>6 DEF Next, MainStep

(* With type 2 the parent is never more than one answer behind.              *)
THEOREM LagHolds == Spec => []LagInv
<1>1. Init => LagInv
  BY DEF Init, LagInv, Waiting, One
<1>2. CountsIInv /\ LagInv /\ [Next]_vars => LagInv'
  <2>1. LagInv /\ UNCHANGED vars => LagInv'
    BY DEF LagInv, MainAlive, Waiting, vars, counters
  <2> QED
    BY <2>1, LagStep
<1> QED
  BY <1>1, <1>2, CountsCorrect, PTL DEF Spec

(* With type 2 every signal is answered before the next one is sent: outside *)
(* the wait all counters are equal, whatever L is.                           *)
THEOREM LockstepHolds == Spec => []Lockstep
<1>1. CountsIInv /\ LagInv => Lockstep
  <2> SUFFICES ASSUME CountsIInv, LagInv, type = 2, MainAlive,
                      main \notin {"callPause", "pause"}
               PROVE  send = childReceived /\ childReceived = answers /\ answers = mainReceived
    BY DEF Lockstep
  <2>1. mainReceived >= send
    BY PingPongAssumption DEF LagInv, Waiting, One, CountsIInv, TypeInv, TypeOK
  <2>2. childReceived <= send /\ answers <= childReceived /\ mainReceived <= answers
    BY PingPongAssumption DEF CountsIInv, TypeInv, TypeOK, CountsAgree, One
  <2> QED
    BY <2>1, <2>2, PingPongAssumption DEF CountsIInv, TypeInv, TypeOK
<1> QED
  BY <1>1, CountsCorrect, LagHolds, PTL
-------------------------------------------------------------------------------
LEMMA WayStep == CountsIInv /\ LagInv /\ WayInv /\ Next => WayInv'
<1> SUFFICES ASSUME CountsIInv, LagInv, WayInv, Next, Waiting' PROVE WayInv'
  BY DEF WayInv
<1> USE DEF CountsIInv, TypeInv, TypeOK, Signals
<1>1. CASE MainSignalUsr1 \/ MainSignalInt \/ MainSleep \/ MainStop \/ KillAll \/ MainDefault
  BY <1>1
  DEF MainSignalUsr1, MainSignalInt, InstallMain, MainSleep, AfterSleep, MainStop, KillAll,
      MainDefault, Waiting
<1>2. CASE MainSend
  BY <1>2 DEF MainSend, SignalChild, Waiting, WayInv, ChildAlive
<1>3. CASE MainPause
  BY <1>3 DEF MainPause, Waiting, WayInv, ChildAlive, counters
<1>4. CASE ListenMain
  <2>1. main = "callPause" /\ type = 2 /\ mainReceived' = mainReceived + 1 /\ send' = send
    BY <1>4 DEF ListenMain, Woken, AfterSleep, Waiting
  <2>2. mainReceived >= send - 1
    BY <2>1 DEF LagInv, MainAlive, Waiting, One
  <2>3. mainReceived' <= send'
    <3>1. "USR1" \in pending.main
      BY <1>4 DEF ListenMain
    <3>2. mainReceived + 1 <= answers
      BY <3>1 DEF CountsAgree, One
    <3>3. answers <= childReceived /\ childReceived <= send
      BY PingPongAssumption DEF CountsAgree, One
    <3> QED
      BY <2>1, <3>2, <3>3, PingPongAssumption
  <2> QED
    BY <2>1, <2>2, <2>3, PingPongAssumption DEF WayInv
<1>5. CASE ChildSignalUsr1 \/ ChildSignalUsr2 \/ InitBlockMask \/ Stop \/ ChildDefault
  BY <1>5
  DEF ChildSignalUsr1, ChildSignalUsr2, InstallChild, InitBlockMask, Stop, ChildDefault,
      counters, Waiting, WayInv, ChildAlive
<1>6. CASE ListenChild
  BY <1>6 DEF ListenChild, WayInv
<1>7. CASE Answer
  <2>1. MainAlive
    BY <1>7 DEF Answer, Waiting, MainAlive
  <2> QED
    BY <1>7, <2>1 DEF Answer, WayInv
<1>8. CASE CtrlC
  BY <1>8 DEF CtrlC, WayInv, Waiting, ChildAlive, counters
<1> QED
  BY <1>1, <1>2, <1>3, <1>4, <1>5, <1>6, <1>7, <1>8 DEF Next, MainStep, ChildStep

(* A parent that pauses has a signal on its way back, unless the child is    *)
(* gone or the answer was handled between its kill and its pause.            *)
THEOREM AnswerOnItsWayHolds == Spec => []AnswerOnItsWay
<1>1. Init => WayInv
  BY DEF Init, WayInv, Waiting
<1>2. CountsIInv /\ LagInv /\ WayInv /\ [Next]_vars => WayInv'
  <2>1. WayInv /\ UNCHANGED vars => WayInv'
    BY DEF WayInv, Waiting, ChildAlive, vars, counters
  <2> QED
    BY <2>1, WayStep
<1>3. WayInv => AnswerOnItsWay
  BY DEF WayInv, AnswerOnItsWay, Waiting
<1> QED
  BY <1>1, <1>2, <1>3, CountsCorrect, LagHolds, PTL DEF Spec
===============================================================================
