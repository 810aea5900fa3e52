------------------------------ MODULE Supervisor ------------------------------
(***************************************************************************)
(* lab4/cw1b/main.c: a process that runs ./dateShell, waits for it, sleeps *)
(* five seconds and ends; Ctrl-Z kills the shell or, once it is gone,      *)
(* starts another one by calling startMain from inside the handler.        *)
(*                                                                         *)
(* A process that runs the program is a stack of calls of startMain; the   *)
(* topmost runs.  fork gives the child a copy of that stack and of         *)
(* childPid, so until it has executed the shell the child is a second      *)
(* supervisor with the same handlers.  A step is one system call or one    *)
(* access to childPid; a handler is one step up to its call of startMain.  *)
(* signal() of the platform restarts waitpid and blocks a signal while it  *)
(* is handled.  Not modelled: a process number used again, what is         *)
(* printed, and the commands the shell runs.                               *)
(***************************************************************************)
EXTENDS Integers, Sequences, SequencesExt, FiniteSets

CONSTANTS
  Process,   \* the process numbers the system can give, 1 being the first
  MaxStops   \* bounds: how often Ctrl-Z is pressed while noShell is b

ASSUME SupervisorAssumption ==
  /\ IsFiniteSet(Process) /\ 1 \in Process /\ Process = 1 .. Cardinality(Process)
  /\ MaxStops \in [BOOLEAN -> Nat]

VARIABLES
  status,    \* of each process
  parent,    \* who forked it
  childPid,  \* its variable childPid; 0 before the first fork and in a child, -1 without
             \* the child
  frames,    \* its calls of startMain, innermost last; none: it is the shell
  pending,   \* its signals that are not yet handled
  stops,     \* how often Ctrl-Z was pressed
  interrupted,  \* was Ctrl-C pressed?
  noShell    \* is ./dateShell missing from the current directory?

vars == <<status, parent, childPid, frames, pending, stops, interrupted, noShell>>
keyboard == <<stops, interrupted, noShell>>

Alive(p)  == status[p] \in {"running", "stopped"}
\* kill(p, 0) succeeds: for the group 0, for a child not waited for, and for -1,
\* which means every process of the user.
Exists(p) ==
  p = -1 \/ \E q \in Process : p \in {0, q} /\ (Alive(q) \/ status[q] = "zombie")
Shell(p)  == frames[p] = <<>>
Top(p)    == Last(frames[p])
At(p, pc) == status[p] = "running" /\ ~Shell(p) /\ Top(p).pc = pc
-------------------------------------------------------------------------------
Frame(pc, pid) == [pc |-> pc, pid |-> pid]

Init ==
  /\ status = [p \in Process |-> IF p = 1 THEN "running" ELSE "none"]
  /\ parent = [p \in Process |-> 0]
  /\ childPid = [p \in Process |-> 0]
  /\ frames = [p \in Process |-> IF p = 1 THEN <<Frame("fork", 0)>> ELSE <<>>]
  /\ pending = [p \in Process |-> {}]
  /\ stops = 0 /\ interrupted = FALSE
  /\ noShell \in BOOLEAN

\* The frames of p once the running one is at pc with pid.
Goto(p, pc, pid) == [frames[p] EXCEPT ![Len(frames[p])] = Frame(pc, pid)]

\* What kill(pid, ...) reaches when p calls it: pid; for 0 the whole group, and
\* for -1 everybody but p.
Reaches(p, pid, q) == pid \in {0, q} \/ (pid = -1 /\ q # p)

Kill(p, pid) ==
  status' = [q \in Process |->
               IF Alive(q) /\ Reaches(p, pid, q) THEN "zombie" ELSE status[q]]
Ends(p) == Kill(p, p)

(* loop *)
Fork(p) ==
  /\ At(p, "fork")
  /\ \E c \in Process :
       /\ status[c] = "none" /\ \A d \in 1 .. c - 1 : status[d] # "none"
       /\ status' = [status EXCEPT ![c] = "running"]
       /\ parent' = [parent EXCEPT ![c] = p]
       /\ childPid' = [childPid EXCEPT ![c] = childPid[p]]
       /\ frames' = [frames EXCEPT ![p] = Goto(p, "store", c), ![c] = Goto(p, "store", 0)]
  /\ UNCHANGED <<pending, keyboard>>

ForkFails(p) ==
  /\ At(p, "fork")
  /\ frames' = [frames EXCEPT ![p] = Goto(p, "store", -1)]
  /\ UNCHANGED <<status, parent, childPid, pending, keyboard>>

Store(p) ==
  /\ At(p, "store")
  /\ childPid' = [childPid EXCEPT ![p] = Top(p).pid]
  /\ frames' = [frames EXCEPT ![p] = Goto(p, CASE Top(p).pid = 0  -> "exec"
                                              [] Top(p).pid = -1 -> "exit"
                                              [] OTHER           -> "callWait", 0)]
  /\ UNCHANGED <<status, parent, pending, keyboard>>

\* exit after the failed fork
Exit(p) ==
  /\ At(p, "exit")
  /\ Ends(p)
  /\ UNCHANGED <<parent, childPid, frames, pending, keyboard>>

\* Without the shell the child returns from loop and goes on in startMain.
Exec(p) ==
  /\ At(p, "exec")
  /\ frames' = [frames EXCEPT ![p] = IF noShell THEN Goto(p, "sleep", 0) ELSE <<>>]
  /\ UNCHANGED <<status, parent, childPid, pending, keyboard>>

CallWait(p) ==
  /\ At(p, "callWait")
  /\ frames' = [frames EXCEPT ![p] = Goto(p, "wait", childPid[p])]
  /\ UNCHANGED <<status, parent, childPid, pending, keyboard>>

\* waitpid fails at once for a process that is no child of p any more.
Waitable(p, c) == parent[c] = p /\ Exists(c)
Wait(p) ==
  /\ At(p, "wait")
  /\ LET c == Top(p).pid IN
       /\ Waitable(p, c) => status[c] = "zombie"
       /\ status' = IF Waitable(p, c) THEN [status EXCEPT ![c] = "gone"] ELSE status
  /\ frames' = [frames EXCEPT ![p] = Goto(p, "sleep", 0)]
  /\ UNCHANGED <<parent, childPid, pending, keyboard>>

(* startMain *)
Sleep(p) ==
  /\ At(p, "sleep")
  /\ frames' = [frames EXCEPT ![p] = Goto(p, "test", 0)]
  /\ UNCHANGED <<status, parent, childPid, pending, keyboard>>

Again(p) ==
  /\ At(p, "test") /\ Exists(childPid[p])
  /\ frames' = [frames EXCEPT ![p] = Goto(p, "fork", 0)]
  /\ UNCHANGED <<status, parent, childPid, pending, keyboard>>

\* From the outermost call the process returns to main and ends.
Return(p) ==
  /\ At(p, "test") /\ ~Exists(childPid[p])
  /\ IF Len(frames[p]) = 1
     THEN Ends(p) /\ UNCHANGED frames
     ELSE frames' = [frames EXCEPT ![p] = Front(@)] /\ UNCHANGED status
  /\ UNCHANGED <<parent, childPid, pending, keyboard>>
-------------------------------------------------------------------------------
\* A key of the terminal sends its signal to every process of the group, as
\* long as the first process is there to keep the group in the foreground.
Press(s) ==
  /\ Alive(1)
  /\ pending' = [p \in Process |->
                   IF Alive(p) THEN pending[p] \cup {s} ELSE {}]

CtrlZ ==
  /\ stops < MaxStops[noShell] /\ stops' = stops + 1
  /\ Press("TSTP")
  /\ UNCHANGED <<status, parent, childPid, frames, interrupted, noShell>>

CtrlC ==
  /\ ~interrupted /\ interrupted' = TRUE
  /\ Press("INT")
  /\ UNCHANGED <<status, parent, childPid, frames, stops, noShell>>

Handles(p, s) ==
  /\ status[p] = "running" /\ s \in pending[p]
  /\ pending' = [pending EXCEPT ![p] = @ \ {s}]
  /\ UNCHANGED <<parent, childPid, keyboard>>

\* A handler ends the sleep it interrupts.
Woken_FromWait(p) ==
  IF Top(p).pc \in {"wait", "sleep"} THEN Goto(p, "test", 0) ELSE frames[p]
Woken(p) == IF Top(p).pc = "sleep" THEN Goto(p, "test", 0) ELSE frames[p]

KillRunning_OnlyTests(p) == UNCHANGED status
KillRunning(p) ==
  IF Exists(childPid[p]) THEN Kill(p, childPid[p]) ELSE UNCHANGED status
HandleSignalStp_AlwaysRestarts(p) ==
  /\ ~Shell(p) /\ Handles(p, "TSTP")
  /\ UNCHANGED status
  /\ frames' = [frames EXCEPT ![p] = Append(Woken(p), Frame("fork", 0))]
HandleSignalStp(p) ==
  /\ ~Shell(p) /\ Handles(p, "TSTP")
  /\ KillRunning(p)
  /\ frames' = [frames EXCEPT ![p] =
                  IF Exists(childPid[p]) THEN Woken(p)
                  ELSE Append(Woken(p), Frame("fork", 0))]

\* kill(childPid, SIGKILL), then exit(0)
HandleSignalInt(p) ==
  /\ ~Shell(p) /\ Handles(p, "INT")
  /\ status' = [q \in Process |-> IF Alive(q) /\ (q = p \/ Reaches(p, childPid[p], q))
                                  THEN "zombie" ELSE status[q]]
  /\ UNCHANGED frames

(* ./dateShell, with the default actions *)
ShellSignal(p) ==
  /\ Shell(p)
  /\ \/ Handles(p, "TSTP") /\ status' = [status EXCEPT ![p] = "stopped"]
     \/ Handles(p, "INT") /\ Ends(p)
  /\ UNCHANGED frames

ShellEnds(p) ==
  /\ status[p] = "running" /\ Shell(p)
  /\ Ends(p)
  /\ UNCHANGED <<parent, childPid, frames, pending, keyboard>>

Step(p) ==
  \/ Fork(p) \/ ForkFails(p) \/ Store(p) \/ Exec(p) \/ CallWait(p) \/ Wait(p)
  \/ Exit(p) \/ Sleep(p) \/ Again(p) \/ Return(p) \/ ShellEnds(p)

Deliver(p) == HandleSignalStp(p) \/ HandleSignalInt(p) \/ ShellSignal(p)

Next ==
  \/ \E p \in Process : Step(p) \/ Deliver(p)
  \/ CtrlZ \/ CtrlC

Spec == Init /\ [][Next]_vars

\* The kernel runs every process and delivers every signal, sleep and the
\* shell end; nobody has to press a key.
FairSpec == Spec /\ \A p \in Process : WF_vars(Step(p)) /\ WF_vars(Deliver(p))
-------------------------------------------------------------------------------
Statement == {"fork", "store", "exec", "exit", "callWait", "wait", "sleep", "test"}
Pid == Process \cup {0, -1}   \* what fork may return

\* Type correctness: childPid only ever holds what a fork returned, and nested
\* calls of startMain are at a statement of the program.
TypeOK ==
  /\ status \in [Process -> {"none", "running", "stopped", "zombie", "gone"}]
  /\ parent \in [Process -> Process \cup {0}]
  /\ childPid \in [Process -> Pid]
  /\ \A p \in Process : \A i \in DOMAIN frames[p] :
       frames[p][i] \in [pc : Statement, pid : Pid]
  /\ pending \in [Process -> SUBSET {"TSTP", "INT"}]
  /\ stops \in 0 .. MaxStops[noShell] /\ interrupted \in BOOLEAN /\ noShell \in BOOLEAN

\* A process that forked c remembers it as long as c lives: as its childPid,
\* or as the result of a fork one of its calls is about to store.  Nothing
\* else ever waits for c or kills it, so a shell that is forgotten would run
\* on beside its successors.
ForgetsNoShell ==
  \A c \in Process \ {1} : Alive(c) =>
    LET p == parent[c] IN
      \/ childPid[p] = c
      \/ \E i \in DOMAIN frames[p] : frames[p][i] = Frame("store", c)

\* Each process knows its children, and its calls hold what they may hold.
ChildrenInv == TypeOK /\ ForgetsNoShell

\* waitpid is only called for a child that was not waited for, however many
\* calls of startMain are nested, so it never returns before the shell ended
\* (a child that found no shell returns through its parent's calls, and waits
\* for processes that are not its own).
WaitsForItsOwn ==
  noShell \/ \A p \in Process :
    /\ At(p, "callWait") => Waitable(p, childPid[p])
    /\ At(p, "wait") => Waitable(p, Top(p).pid)

\* The do loop of startMain never goes round: when kill(childPid, 0) is tried
\* the shell has been waited for, so only Ctrl-Z starts another one (unless
\* the process is a child that found no shell, for which childPid is 0).
NeverGoesRound ==
  \A p \in Process : At(p, "test") => ~Exists(childPid[p]) \/ noShell

\* The program ends; only a second Ctrl-Z, between fork and the assignment of
\* its result, can leave it waiting for a shell that was stopped, not killed.
EndsOrWaits ==
  <>[](~Alive(1) \/ (stops > 1 /\ \E c \in Process : status[c] = "stopped"))
===============================================================================
