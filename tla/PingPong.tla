------------------------------- MODULE PingPong -------------------------------
(***************************************************************************)
(* lab4/cw2: main forks a child and sends it SIGUSR1 L times; the child    *)
(* answers each with SIGUSR1.  With type 1 the parent only sleeps a second *)
(* between two signals, with type 2 it pauses until a signal arrives, with *)
(* type 3 it sends nothing.  At last, or on Ctrl-C, it sends SIGUSR2, on   *)
(* which the child exits.                                                  *)
(*                                                                         *)
(* A signal is pending from kill until its action runs, and pending once,  *)
(* however often it was sent.  A step is one system call, or one handler   *)
(* up to the signal it sends.  sleep may return as soon as it is called:   *)
(* nothing here measures time.  Not modelled: what is printed.             *)
(***************************************************************************)
EXTENDS Integers

CONSTANT L   \* how many signals the parent sends

ASSUME PingPongAssumption == L \in Nat

VARIABLES
  type,      \* the second argument of the program
  main,      \* control of the parent
  child,     \* control of the child; "none" when fork failed
  handled,   \* the signals each process has installed a handler for
  masked,    \* has the child blocked all signals but USR1 and USR2?
  pending,   \* signals sent and not yet acted on
  listening, \* is the child in listenChild, its answer not yet sent?
  send, childReceived, mainReceived,   \* the counters the program prints
  answers    \* history: how often the child sent SIGUSR1

counters == <<send, childReceived, mainReceived, answers>>
vars == <<type, main, child, handled, masked, pending, listening, counters>>

Signals == {"USR1", "USR2", "INT"}
MainAlive  == main \notin {"exited", "killed"}
ChildAlive == child \notin {"none", "exited", "killed"}
-------------------------------------------------------------------------------
Init ==
  /\ type \in 1 .. 3
  /\ main = "signalUsr1"
  /\ child \in {"none", "signalUsr1"}
  /\ handled = [main |-> {}, child |-> {}]
  /\ masked = FALSE /\ listening = FALSE
  /\ pending = [main |-> {}, child |-> {}]
  /\ send = 0 /\ childReceived = 0 /\ mainReceived = 0 /\ answers = 0

\* kill by the parent; with childPid = -1 the signal is for everybody else.
SignalChild(s) ==
  pending' = IF ChildAlive THEN [pending EXCEPT !.child = @ \cup {s}] ELSE pending

(* initMainProcess *)
InstallMain(pc, s, next) ==
  /\ main = pc /\ main' = next
  /\ handled' = [handled EXCEPT !.main = @ \cup {s}]
  /\ UNCHANGED <<type, child, masked, pending, listening, counters>>
MainSignalUsr1 == InstallMain("signalUsr1", "USR1", "signalInt")
MainSignalInt  == InstallMain("signalInt", "INT", "sleep")

AfterSleep == IF send < L THEN "send" ELSE "stop"

MainSleep ==
  /\ main = "sleep" /\ main' = AfterSleep
  /\ UNCHANGED <<type, child, handled, masked, pending, listening, counters>>

MainSend_NoPause ==
  /\ main = "send" /\ main' = "sleep"
  /\ send' = send + 1
  /\ IF type = 3 THEN UNCHANGED pending ELSE SignalChild("USR1")
  /\ UNCHANGED <<type, child, handled, masked, listening, childReceived, mainReceived, answers>>
MainSend ==
  /\ main = "send"
  /\ send' = send + 1
  /\ IF type = 3 THEN UNCHANGED pending ELSE SignalChild("USR1")
  /\ main' = IF type = 2 THEN "callPause" ELSE "sleep"
  /\ UNCHANGED <<type, child, handled, masked, listening, childReceived, mainReceived, answers>>

MainPause ==
  /\ main = "callPause" /\ main' = "pause"
  /\ UNCHANGED <<type, child, handled, masked, pending, listening, counters>>

MainStop_WrongSignal ==
  /\ main = "stop" /\ main' = "exited"
  /\ SignalChild("USR1")
  /\ UNCHANGED <<type, child, handled, masked, listening, counters>>
MainStop ==
  /\ main = "stop" /\ main' = "exited"
  /\ SignalChild("USR2")
  /\ UNCHANGED <<type, child, handled, masked, listening, counters>>

\* A handler ends the pause or the sleep it interrupts.
Woken == CASE main = "pause" -> "sleep"
           [] main = "sleep" -> AfterSleep
           [] OTHER -> main

ListenMain ==
  /\ MainAlive /\ "USR1" \in pending.main \cap handled.main
  /\ pending' = [pending EXCEPT !.main = @ \ {"USR1"}]
  /\ mainReceived' = mainReceived + 1
  /\ main' = Woken
  /\ UNCHANGED <<type, child, handled, masked, listening, send, childReceived, answers>>

KillAll_NoSignal ==
  /\ MainAlive /\ "INT" \in pending.main \cap handled.main
  /\ main' = "exited"
  /\ UNCHANGED <<type, child, handled, masked, pending, listening, counters>>
KillAll ==
  /\ MainAlive /\ "INT" \in pending.main \cap handled.main
  /\ SignalChild("USR2")
  /\ main' = "exited"
  /\ UNCHANGED <<type, child, handled, masked, listening, counters>>

MainDefault ==
  /\ MainAlive /\ pending.main \ handled.main # {}
  /\ main' = "killed"
  /\ UNCHANGED <<type, child, handled, masked, pending, listening, counters>>
-------------------------------------------------------------------------------
(* initChildProcess *)
InstallChild(pc, s, next) ==
  /\ child = pc /\ ~listening /\ child' = next
  /\ handled' = [handled EXCEPT !.child = @ \cup {s}]
  /\ UNCHANGED <<type, main, masked, pending, listening, counters>>
ChildSignalUsr1 == InstallChild("signalUsr1", "USR1", "signalUsr2")
ChildSignalUsr2 == InstallChild("signalUsr2", "USR2", "initBlockMask")

\* From then on the child only pauses: isSigUsr2 is set by an exiting process.
InitBlockMask ==
  /\ child = "initBlockMask" /\ ~listening
  /\ child' = "pause" /\ masked' = TRUE
  /\ UNCHANGED <<type, main, handled, pending, listening, counters>>

\* SIGUSR1 is blocked until the handler has returned, SIGUSR2 is not.
ListenChild_Masked ==
  /\ ChildAlive /\ ~listening /\ "USR1" \in pending.child \cap handled.child /\ ~masked
  /\ pending' = [pending EXCEPT !.child = @ \ {"USR1"}]
  /\ childReceived' = childReceived + 1
  /\ listening' = TRUE
  /\ UNCHANGED <<type, main, child, handled, masked, send, mainReceived, answers>>
ListenChild ==
  /\ ChildAlive /\ ~listening /\ "USR1" \in pending.child \cap handled.child
  /\ pending' = [pending EXCEPT !.child = @ \ {"USR1"}]
  /\ childReceived' = childReceived + 1
  /\ listening' = TRUE
  /\ UNCHANGED <<type, main, child, handled, masked, send, mainReceived, answers>>

\* kill(getppid(), SIGUSR1); without the parent it fails.
Answer_NotSent ==
  /\ ChildAlive /\ listening /\ listening' = FALSE
  /\ answers' = answers + 1
  /\ UNCHANGED <<type, main, child, handled, masked, pending, send, childReceived, mainReceived>>
Answer ==
  /\ ChildAlive /\ listening /\ listening' = FALSE
  /\ answers' = answers + 1
  /\ pending' = IF MainAlive THEN [pending EXCEPT !.main = @ \cup {"USR1"}] ELSE pending
  /\ UNCHANGED <<type, main, child, handled, masked, send, childReceived, mainReceived>>

Stop ==
  /\ ChildAlive /\ "USR2" \in pending.child \cap handled.child
  /\ child' = "exited"
  /\ UNCHANGED <<type, main, handled, masked, pending, listening, counters>>

ChildDefault ==
  /\ ChildAlive
  /\ \E s \in pending.child \ handled.child : s = "INT" => ~masked
  /\ child' = "killed"
  /\ UNCHANGED <<type, main, handled, masked, pending, listening, counters>>
-------------------------------------------------------------------------------
\* Ctrl-C reaches both processes while the parent is in the foreground.
CtrlC ==
  /\ MainAlive /\ "INT" \notin pending.main
  /\ pending' = [main |-> pending.main \cup {"INT"},
                 child |-> IF ChildAlive THEN pending.child \cup {"INT"} ELSE pending.child]
  /\ UNCHANGED <<type, main, child, handled, masked, listening, counters>>

MainStep ==
  \/ MainSignalUsr1 \/ MainSignalInt \/ MainSleep \/ MainSend \/ MainPause \/ MainStop
  \/ ListenMain \/ KillAll \/ MainDefault

ChildStep ==
  \/ ChildSignalUsr1 \/ ChildSignalUsr2 \/ InitBlockMask
  \/ ListenChild \/ Answer \/ Stop \/ ChildDefault

Next == MainStep \/ ChildStep \/ CtrlC

Spec == Init /\ [][Next]_vars

\* Both processes run, and a signal that can be acted on is; Ctrl-C is free.
FairSpec ==
  /\ Spec
  /\ WF_vars(MainStep) /\ WF_vars(ListenMain \/ KillAll \/ MainDefault)
  /\ WF_vars(ChildStep) /\ WF_vars(Stop \/ ChildDefault)
-------------------------------------------------------------------------------
\* Type correctness: no more than L signals are sent, and neither process gets
\* a signal the other does not send.
TypeOK ==
  /\ type \in 1 .. 3
  /\ main \in {"signalUsr1", "signalInt", "sleep", "send", "callPause", "pause",
               "stop", "exited", "killed"}
  /\ child \in {"none", "signalUsr1", "signalUsr2", "initBlockMask", "pause",
                "exited", "killed"}
  /\ handled.main \subseteq {"USR1", "INT"} /\ handled.child \subseteq {"USR1", "USR2"}
  /\ masked \in BOOLEAN /\ listening \in BOOLEAN
  /\ pending.main \subseteq {"USR1", "INT"} /\ pending.child \subseteq Signals
  /\ send \in 0 .. L

One(b) == IF b THEN 1 ELSE 0

\* No counter runs ahead: what the child counted, was told or is about to be
\* told was sent by the parent, and what the parent counted or is about to
\* count was an answer, though signals coalesce and handlers nest.
CountsAgree ==
  /\ childReceived + One("USR1" \in pending.child) <= send
  /\ answers + One(listening) = childReceived
  /\ mainReceived + One("USR1" \in pending.main) <= answers

\* Parent and child agree on what was sent and answered.
CountsInv == TypeOK /\ CountsAgree

\* With type 2 every signal of the parent is answered before the next one is
\* sent: outside the wait all counters are equal, so nothing coalesces.
Lockstep ==
  type = 2 /\ MainAlive /\ main \notin {"callPause", "pause"} =>
    send = childReceived /\ childReceived = answers /\ answers = mainReceived

\* A parent that pauses has a signal on its way, unless the child is gone or
\* the answer was handled between kill and pause, in which case nothing but
\* Ctrl-C ends the pause.
AnswerOnItsWay ==
  main = "pause" =>
    \/ "USR1" \in pending.main \cup pending.child \/ listening
    \/ ~ChildAlive
    \/ mainReceived = send

\* The parent ends unless it pauses for an answer that was handled before, or
\* for a child that is gone.
EndsOrWaitsInVain ==
  <>[](~MainAlive \/ (type = 2 /\ main = "pause" /\ (~ChildAlive \/ mainReceived = send)))

\* A parent that ends takes its child with it: SIGUSR2 is never lost, and a
\* Ctrl-C that kills the parent before it has installed killAll kills the
\* child too, unless that has blocked SIGINT by then: it is left behind.
ChildFollows == ~MainAlive ~> ~ChildAlive \/ (main = "killed" /\ masked)
===============================================================================
