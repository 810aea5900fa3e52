------------------------------- MODULE Pipeline -------------------------------
(***************************************************************************)
(* lab4/cw3/interpreter.c: every line of a file is a pipeline of commands. *)
(* The shell makes a pipe for each, alternately in fd1 and fd2, forks the  *)
(* command, closes the ends of the pipe before, and waits for the command  *)
(* before it makes the next one.                                           *)
(*                                                                         *)
(* A step is one system call of the shell or of a command, the calls that  *)
(* only change the table of one's own process being taken together.  What  *)
(* a command does is free: it may read its input to the end, write up to   *)
(* MaxWrites units and end in any way.  Not modelled: what is printed, the *)
(* leaked mallocs, and pids used again.                                    *)
(***************************************************************************)
EXTENDS CommandLine

CONSTANTS
  File,      \* the files to run: their text and the lines of commands it is made of
  LengthOfExecutable,   \* LENGTH_OF_EXECUTABLE, the commands of a line
  FdLimit,   \* how many descriptors a process may have open
  Capacity,  \* how many units a pipe holds
  MaxWrites  \* bound: how many units a command writes

ASSUME PipelineAssumption ==
  /\ LengthOfExecutable \in Nat \ {0} /\ LengthOfExecutable % 2 = 1
  /\ FdLimit \in Nat /\ FdLimit > 4
  /\ Capacity \in Nat \ {0} /\ MaxWrites \in Nat
  /\ \A f \in File : f.text \in Seq(STRING)

Fd == 0 .. FdLimit
NoFd == FdLimit            \* a number that never names a descriptor
Closed == <<0, "closed">>
NoneOpen == [n \in Fd |-> Closed]
Tty    == <<0, "tty">>     \* standard input, output and error of the shell

VARIABLES
  file, unread, line, inc, commands,   \* the file, and the line being split
  pc, i, outcome, childStatus,         \* control of the shell
  fd, fd1, fd2,     \* its descriptors and the two pairs; fd2 starts undefined
  pipes,            \* how much each pipe holds
  child, childFd,   \* control and descriptors of the command
  reads, writes,    \* does it read to the end of its input? what will it write?
  status,           \* how it ended
  ran,              \* history: the commands that were started
  sound,            \* history: did close and pipe only touch their own numbers?
  skipped           \* history: did a fork fail?

input   == <<file, unread, line, inc, commands>>
control == <<pc, i, outcome, childStatus>>
shell   == <<fd, fd1, fd2>>
command == <<child, childFd, reads, writes, status>>
history == <<ran, sound, skipped>>
vars == <<input, control, shell, pipes, command, history>>

Init ==
  /\ file \in File /\ unread = file.text
  /\ line = [k \in Index |-> NUL] /\ inc = 1 /\ commands = <<>>
  /\ pc = "fgets" /\ i = 0 /\ outcome = "running" /\ childStatus = "unset"
  /\ fd = [n \in Fd |-> IF n <= 2 THEN Tty ELSE IF n = 3 THEN <<0, "file">> ELSE Closed]
  /\ fd1 = <<NoFd, NoFd>> /\ fd2 = <<NoFd, NoFd>>
  /\ pipes = <<>>
  /\ child = "none" /\ childFd = fd /\ reads = FALSE /\ writes = 0 /\ status = "none"
  /\ ran = <<>> /\ sound = TRUE /\ skipped = FALSE

At(label) == outcome = "running" /\ pc = label
IsLast == i = LengthOfExecutable - 1
-------------------------------------------------------------------------------
(* interpret *)
ReadLine ==
  /\ At("fgets") /\ unread # <<>>
  /\ line' = Fgets(line, unread)
  /\ unread' = SubSeq(unread, FgetsLength(unread) + 1, Len(unread))
  /\ inc' = 1 /\ commands' = <<>> /\ pc' = "create"
  /\ UNCHANGED <<file, i, outcome, childStatus, shell, pipes, command, history>>

EndOfFile ==
  /\ At("fgets") /\ unread = <<>>
  /\ outcome' = "ended"
  /\ UNCHANGED <<input, pc, i, childStatus, shell, pipes, command, history>>

\* After the last command runProcess begins, its fd2 being whatever the stack
\* holds: no descriptors, zeros, or the pair of the line before.
CreateCommand ==
  /\ At("create") /\ Len(commands) < LengthOfExecutable
  /\ \E name \in {NameEnd(line, inc)} : \E end \in {ArgumentsEnd(line, name)} :
       /\ commands' = Append(commands, Create(line, inc, name, end))
       /\ inc' = end + 2
       /\ IF Piped(line, end) THEN UNCHANGED <<pc, fd2>>
          ELSE pc' = "pipe" /\ fd2' \in {<<NoFd, NoFd>>, <<0, 0>>, fd2}
  /\ i' = 0 /\ childStatus' = "unset"
  /\ UNCHANGED <<file, unread, line, outcome, fd, fd1, pipes, command, history>>

\* A command too many is stored behind arrayOfExecutable.
CreateOverflow ==
  /\ At("create") /\ Len(commands) = LengthOfExecutable
  /\ outcome' = "crashed"
  /\ UNCHANGED <<input, pc, i, childStatus, shell, pipes, command, history>>
-------------------------------------------------------------------------------
(* runProcess *)
Even == i % 2 = 0
Own   == IF Even THEN fd1 ELSE fd2      \* the pair of this command ...
Other == IF Even THEN fd2 ELSE fd1      \* ... and of the one before

Open(p, end) == <<p, end>> \in {fd[n] : n \in Fd} \cup {childFd[n] : n \in Fd}
\* What was written to a pipe is gone once nobody can read it.
Kept == [p \in DOMAIN pipes |-> IF Open(p, "read") THEN pipes[p] ELSE 0]

\* pipe takes the two lowest free numbers, and changes nothing without them.
Free == {n \in Fd \ {NoFd} : fd[n] = Closed}
MakePipe ==
  /\ At("pipe") /\ Cardinality(Free) >= 2
  /\ LET r == Min(Free)  w == Min(Free \ {r})  p == Len(pipes) + 1 IN
       /\ fd' = [fd EXCEPT ![r] = <<p, "read">>, ![w] = <<p, "write">>]
       /\ fd1' = IF Even THEN <<r, w>> ELSE fd1
       /\ fd2' = IF Even THEN fd2 ELSE <<r, w>>
  /\ pipes' = Append(Kept, 0)
  /\ pc' = "fork"
  /\ UNCHANGED <<input, i, outcome, childStatus, command, history>>

PipeFails ==
  /\ At("pipe") /\ Cardinality(Free) < 2
  /\ pipes' = Append(Kept, 0) /\ sound' = FALSE
  /\ pc' = "fork"
  /\ UNCHANGED <<input, i, outcome, childStatus, shell, command, ran, skipped>>

Fork ==
  /\ At("fork") /\ i < Len(commands)
  /\ child' = "forked" /\ childFd' = fd
  /\ ran' = Append(ran, commands[i + 1])
  /\ pc' = "close"
  /\ UNCHANGED <<input, i, outcome, childStatus, shell, pipes, reads, writes, status, sound, skipped>>

\* Shell and child alike use the null pointer of a command that is missing.
MissingCommand ==
  /\ At("fork") /\ i >= Len(commands)
  /\ outcome' = "crashed"
  /\ UNCHANGED <<input, pc, i, childStatus, shell, pipes, command, history>>

\* The shell goes on as if the command were there.  Bound: one fork fails.
ForkFails ==
  /\ At("fork") /\ i < Len(commands) /\ ~skipped
  /\ skipped' = TRUE /\ pc' = "close"
  /\ UNCHANGED <<input, i, outcome, childStatus, shell, pipes, command, ran, sound>>

Close(table, m, n) == [table EXCEPT ![m] = Closed, ![n] = Closed]
\* Before the last command runs both processes close the ends for writing.
CloseLast_Forgotten(table) == table
CloseLast(table) == IF IsLast THEN Close(table, fd1[2], fd2[2]) ELSE table

CloseOther_OnlyRead ==
  /\ At("close")
  /\ fd' = [CloseLast(fd) EXCEPT ![Other[1]] = Closed]
  /\ sound' = (sound /\ (i = 0 => fd[fd2[1]] = Closed /\ fd[fd2[2]] = Closed))
  /\ pc' = "wait"
  /\ UNCHANGED <<input, i, outcome, childStatus, fd1, fd2, pipes, command, ran, skipped>>
CloseOther ==
  /\ At("close")
  /\ fd' = Close(CloseLast(fd), Other[1], Other[2])
  /\ sound' = (sound /\ (i = 0 => fd[fd2[1]] = Closed /\ fd[fd2[2]] = Closed))
  /\ pc' = "wait"
  /\ UNCHANGED <<input, i, outcome, childStatus, fd1, fd2, pipes, command, ran, skipped>>

\* Without a child waitpid fails and childStatus keeps its value, if it has one.
Waitpid ==
  /\ At("wait") /\ child \in {"none", "zombie"}
  /\ childStatus' = CASE child = "none"    -> childStatus
                      [] status = "fail"   -> "fail"
                      [] OTHER             -> "zero"
  /\ outcome' \in CASE childStatus' = "fail"  -> {"stopped"}
                    [] childStatus' = "unset" -> {"running", "stopped"}
                    [] OTHER -> {"running"}
  /\ child' = "none" /\ status' = "none"
  /\ IF IsLast THEN pc' = "fgets" /\ i' = i ELSE pc' = "pipe" /\ i' = i + 1
  /\ UNCHANGED <<input, shell, pipes, childFd, reads, writes, history>>
-------------------------------------------------------------------------------
(* the child *)
Dup2(table, old, new) ==
  IF table[old] = Closed THEN table ELSE [table EXCEPT ![new] = table[old]]

\* The first command keeps the input of the shell; the last finds the end for
\* writing closed, so its dup2 fails and it keeps the output of the shell.
Wired_WrongEnd ==
  LET start == CloseLast(childFd)
      in    == IF i = 0 THEN start
               ELSE [Dup2(start, Other[2], 0) EXCEPT ![Other[1]] = Closed]
  IN  [Dup2(in, Own[2], 1) EXCEPT ![Own[1]] = Closed]
Wired ==
  LET start == CloseLast(childFd)
      in    == IF i = 0 THEN start
               ELSE [Dup2(start, Other[1], 0) EXCEPT ![Other[2]] = Closed]
  IN  [Dup2(in, Own[2], 1) EXCEPT ![Own[1]] = Closed]

End(how) ==
  /\ child' = "zombie" /\ status' = how
  /\ childFd' = NoneOpen /\ reads' = FALSE /\ writes' = 0

Exec ==
  /\ child = "forked"
  /\ \/ /\ childFd' = Wired /\ child' = "runs"
        /\ reads' \in BOOLEAN /\ writes' \in 0 .. MaxWrites
        /\ UNCHANGED status
     \/ End("fail")
  /\ UNCHANGED <<input, control, shell, pipes, history>>

Stdin  == childFd[0]
Stdout == childFd[1]

Read ==
  /\ child = "runs" /\ reads
  /\ IF Stdin[2] = "read" /\ pipes[Stdin[1]] > 0
     THEN pipes' = [pipes EXCEPT ![Stdin[1]] = @ - 1] /\ UNCHANGED reads
     ELSE /\ Stdin[2] = "read" => ~Open(Stdin[1], "write")
          /\ reads' = FALSE /\ UNCHANGED pipes
  /\ UNCHANGED <<input, control, shell, child, childFd, writes, status, history>>

\* A full pipe blocks; one nobody reads kills the command with SIGPIPE.
Writing == child = "runs" /\ ~reads /\ writes > 0
Write ==
  /\ Writing
  /\ IF Stdout[2] # "write" THEN writes' = 0 /\ UNCHANGED <<pipes, child, childFd, reads, status>>
     ELSE IF ~Open(Stdout[1], "read") THEN End("signal") /\ UNCHANGED pipes
     ELSE /\ pipes[Stdout[1]] < Capacity
          /\ pipes' = [pipes EXCEPT ![Stdout[1]] = @ + 1]
          /\ writes' = writes - 1
          /\ UNCHANGED <<child, childFd, reads, status>>
  /\ UNCHANGED <<input, control, shell, history>>

Finish ==
  /\ child = "runs" /\ ~reads /\ writes = 0
  /\ \E how \in {"ok", "fail", "signal"} : End(how)
  /\ UNCHANGED <<input, control, shell, pipes, history>>

ShellStep ==
  \/ ReadLine \/ EndOfFile \/ CreateCommand \/ CreateOverflow \/ MakePipe \/ PipeFails
  \/ Fork \/ MissingCommand \/ ForkFails \/ CloseOther \/ Waitpid

CommandStep == Exec \/ Read \/ Write \/ Finish

Next == ShellStep \/ CommandStep

Spec == Init /\ [][Next]_vars

\* Shell and command run whenever they can.
FairSpec == Spec /\ WF_vars(ShellStep) /\ WF_vars(CommandStep)
-------------------------------------------------------------------------------
\* Type correctness: i stays below LENGTH_OF_EXECUTABLE, no pipe holds more than
\* it can, and every descriptor is of a pipe that was made.
TypeOK ==
  /\ Len(line) = MaxLength /\ inc \in Nat
  /\ Len(commands) <= LengthOfExecutable
  /\ pc \in {"fgets", "create", "pipe", "fork", "close", "wait"}
  /\ i \in 0 .. LengthOfExecutable - 1
  /\ outcome \in {"running", "ended", "stopped", "crashed"}
  /\ childStatus \in {"unset", "zero", "fail"}
  /\ \A table \in {fd, childFd} : \A n \in Fd :
       table[n] \in {Closed, Tty, <<0, "file">>} \cup ((DOMAIN pipes) \X {"read", "write"})
  /\ {fd1[1], fd1[2], fd2[1], fd2[2]} \subseteq Fd
  /\ \A p \in DOMAIN pipes : pipes[p] \in 0 .. Capacity
  /\ child \in {"none", "forked", "runs", "zombie"}
  /\ reads \in BOOLEAN /\ writes \in 0 .. MaxWrites
  /\ status \in {"none", "ok", "fail", "signal"}
  /\ sound \in BOOLEAN /\ skipped \in BOOLEAN

\* Every command reads what the one before it wrote and writes what the next
\* one reads, the first and the last being connected to the terminal, as long
\* as the undefined fd2 named no open descriptor and no pipe failed.
WiredInOrder ==
  sound /\ child = "runs" =>
    /\ Stdin = IF i = 0 THEN Tty ELSE <<Len(pipes) - 1, "read">>
    /\ Stdout = IF IsLast THEN Tty ELSE <<Len(pipes), "write">>

\* The end for reading of the last pipe of a line is never closed: every line
\* costs the shell one descriptor, and no other is left open between lines, as
\* long as the undefined fd2 named no open descriptor and no pipe failed.
LeaksOnePerLine ==
  sound /\ pc = "fgets" =>
    Cardinality({n \in Fd : fd[n] # Closed}) = 4 + Len(pipes) \div LengthOfExecutable

\* The descriptors of shell and command are open pipes, files or the terminal,
\* and between two lines the shell holds exactly those it failed to close, with
\* the proviso of LeaksOnePerLine.
DescriptorsInv == TypeOK /\ LeaksOnePerLine

\* The commands of the file are run as lab3/cw2 runs them: as they are written,
\* in their order, one at a time, up to the first that fails.  Different are
\* only three things.  A failed fork leaves its one command out, and the line
\* goes on with the next, unless the status nobody stored (the first of a line)
\* happens to look like a failure.  A line of more or fewer commands than
\* LENGTH_OF_EXECUTABLE crashes the shell, when its commands were run if there
\* are too few, and before if there are too many.  And of a last line of one word
\* without its newline, that command may get arguments, and others may follow
\* it, from what the buffer held before.
Written == FlattenSeq(file.lines)
WellWritten == Last(file.text) = "\n" \/ Last(Written).arguments # <<>>
Passed == Len(ran) + IF skipped THEN 1 ELSE 0

Batch == INSTANCE BatchRunner WITH
  Command   <- UNION {Range(FlattenSeq(f.lines)) : f \in File},
  NoCommand <- <<>>,
  todo      <- SubSeq(Written, Passed + 1, Len(Written)),
  running   <- IF child = "none" THEN <<>> ELSE Last(ran)

LeavesOut == skipped' # skipped
StopsForNothing == child = "none" /\ childStatus = "unset" /\ outcome' = "stopped"
Crashes ==
  /\ outcome' = "crashed"
  /\ \E k \in DOMAIN file.lines :
       \/ /\ Len(file.lines[k]) < LengthOfExecutable
          /\ Passed = Len(FlattenSeq(SubSeq(file.lines, 1, k)))
       \/ /\ Len(file.lines[k]) > LengthOfExecutable
          /\ Passed = Len(FlattenSeq(SubSeq(file.lines, 1, k - 1)))
RunsOn == ~WellWritten /\ Passed' >= Len(Written)

ImplementsBatch ==
  /\ Batch!Init
  /\ [][LeavesOut \/ StopsForNothing \/ Crashes \/ RunsOn \/ Batch!Next]_(Batch!vars)

\* The interpreter comes to its end, wherever the undefined fd2 points and
\* whether or not pipe fails: every reader meets the end of its input, because
\* nobody holds its pipe open for writing for ever.  Only a command whose pipe
\* is full waits for ever, for a reader that is not started before it ends.
WaitsToWrite == Writing /\ Stdout[2] = "write" /\ pipes[Stdout[1]] = Capacity

EndsOrPipeFull == <>[](outcome # "running" \/ WaitsToWrite)
===============================================================================
