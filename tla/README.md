# Verification of so-labs

TLA+ models of the programs of this repository, a collection of operating-system
exercises in C: threads, processes, signals, semaphores, shared memory and message
queues. The C code is the reference; every definition was translated from it, and
`PROJECT.json` (`map`) gives its lines.

## Inventory

| Component | State | Operations | Interaction | What is hard | Module |
|---|---|---|---|---|---|
| `lab7/zad2` word buffer | ring `buffer`, `in`, `out`; named semaphores place, full, mutex; `end` | producers put the words of a file, consumers take them; SIGINT; `clean` | threads share the ring; the kernel keeps the semaphores between runs | interleaving at the ring, a killed run's semaphores, exit(1) with words under way | `SemBuffer` |
| `lab7/zad1` word buffer | the same ring, `used`; three mutexes, two condition variables | the same | threads share the ring | test under one mutex, change under another; lost and spurious wakeups | `CondBuffer` |
| `lab6/zad2` sleeping barber | shared integers isSleeping, numberOfSeats, takenSeats; queue; semaphores barber, invitation, seat, cut | barber: sleep, receive, invite, cut; client: wake or take a seat or go away, sit, be cut, leave | processes, shared memory without protection, one queue, four semaphores | atomicity of ++ and --, test before sleep, semaphores shared by all clients, full queue, clients that are killed | `Barber` (partly) |
| `lab5_posix` time server | `clientDataArray`, `clientQ`; queues and their names; pending SIGINT | INIT, TIME, END, STOP; SIGINT on either side; start again | requests through one queue, replies through a queue per client | stale reply queue, unlinked names, signals between steps, name collisions, requests that outlive a server | `QueueServer` |
| `lab4/cw2` ping-pong | two counters, a pid | SIGUSR1 forth and back, SIGUSR2, SIGINT | signals between parent and child | coalescing signals, answer before `pause`, handlers not yet installed | `PingPong` |
| `lab4/cw1b` supervisor | `childPid`, nested calls of `startMain` | fork dateShell, wait; SIGTSTP kills or restarts it | signals; the handler runs the main loop | nested loops share childPid, fork and its assignment, a missing shell | `Supervisor` |
| `lab4/cw3` interpreter | line buffer, commands, `fd1`, `fd2`, descriptor tables, pipes | split a line, run its commands | parent, children, pipes | descriptors, waiting before the reader exists, lines of another length, fork and pipe that fail | `Pipeline`, `CommandLine` |
| `lab3/cw2` batch runner | the commands left | run, wait, stop at a failure | fork, wait | exit status of a killed command | `BatchRunner` (partly) |
| `lab3/cw1` forking list | loops over directories, shared offsets | list, fork per directory | children go on with the parent's loop and share its open directories | who lists what, how often | `DirectoryList` |
| `lab2/cw2a`, `cw2b` filters | a directory walk | filter by time | none; `nftw` | cw2b ends its walk at the first mismatch | `DirectoryList` |
| `lab2/cw1` records | a file of records, two buffers | generate, sort in place, copy | the files that are there already | short reads, files not truncated, copy onto itself, being stopped | `Records` |
| `lab4/cw1` clock | `stop` | SIGTSTP pauses and continues | a handler that unblocks its own signal | a Ctrl-Z just before `pause` | not modelled |
| `lab4/kolokwium_1` exam | none | demonstrations of system calls | none | none | not modelled |

What makes each component correct:

* a word buffer is a FIFO channel of LENGTH words; its ring is used by one thread at a
  time; no slot is written before it was emptied or read before it was filled; nobody
  waits for ever;
* the barber invites exactly the clients that wait, cuts one at a time, lets go exactly
  those whose cut is over; the shop never comes to a standstill;
* the server answers a request once, and its requester; a client told it is registered
  is; a server that is stopped takes its registered clients with it;
* the counters of the ping-pong never run ahead of each other, and both processes end;
* the supervisor never forgets a live shell, waits for its own only, and ends;
* a pipeline connects each command to the next, runs the commands that were written in
  their order up to the first that fails, leaves no descriptor open, and ends;
* a list prints each entry that meets the condition once;
* sorting is stable and loses nothing; a copy equals its source; other files, and the
  source, stay as they were.

Not every one of these holds; the properties below say precisely what does.

## Modules

| Module | What it is |
|---|---|
| `BoundedChannel` | abstract: a FIFO channel of bounded capacity, as histories `sent` and `received` |
| `SemBuffer` | `lab7/zad2`: threads, semaphores, ring, SIGINT, repeated runs |
| `CondBuffer` | `lab7/zad1`: threads, mutexes, condition variables, ring |
| `Barber` | `lab6/zad2` |
| `QueueServer` | `lab5_posix`, with server and clients that come and go |
| `PingPong` | `lab4/cw2` |
| `Supervisor` | `lab4/cw1b`, with every process that may turn into a supervisor |
| `CommandLine` | how `lab4/cw3` reads and splits a line: operators only |
| `BatchRunner` | `lab3/cw2`, and the abstract specification of `Pipeline` |
| `Pipeline` | `lab4/cw3`; extends `CommandLine` |
| `DirectoryList` | `lab2/cw2a`, `lab2/cw2b` and `lab3/cw1`, which share most of their code |
| `Records` | `lab2/cw1` |
| `SemBufferProofs`, `CondBufferProofs`, `BarberProofs`, `QueueServerProofs`, `PingPongProofs`, `SupervisorProofs`, `PipelineProofs` | theorems about the module each is named after |
| `Lab2Proofs` | theorems about `Records` and `DirectoryList` |
| `MC*` | constants and symmetry for TLC; `PingPong` needs none |

`SemBuffer` and `CondBuffer` are shown to implement `BoundedChannel`
(`INSTANCE BoundedChannel WITH Capacity <- Length`; `sent` and `received` are history
variables of the detailed modules, so the mapping of these two is the identity). For
`CondBuffer` this holds with one thread of each kind only. `Pipeline` is shown to implement
`BatchRunner`: the commands still to do are what the file says minus what was started or
skipped, the running command is the last one started, and the steps in which the two
programs do differ are excepted one by one (`LeavesOut`, `StopsForNothing`, `Crashes`,
`RunsOn`; see below).

### How the models correspond to the code

A control variable (`pc`, `main`, `child`, `barberPc`, `serverPc`) names the next statement
of a thread or process, and one action is one access to shared state: a system call, a
semaphore or queue call, the load or store of a shared variable, a lock, a test. Statements
that only print are left out. Operators whose name has an underscore and a suffix
(`WaitMutex_Skip`) are seeded faults, not part of any next-state relation: each replaces
the definition below it to show that a property depends on that definition.

* **SemBuffer.** `main` is the control of `main()`, `"gone"` when the process has ended.
  `Rerun` starts the program again: globals are fresh, the semaphores (`named`, `place`,
  `full`, `mutex`) are not. `Interrupt(t)` lets any thread run `signalHandler`, `Kill` is
  its SIGKILL; in between the others see `end = 1`. The joins and unlinks at the end of
  `main()` are no actions because `NeverJoinsAll` shows them unreachable.
* **CondBuffer.** Both kinds of thread run the same synchronisation with the roles of the
  two conditions exchanged, so these steps are shared (`Guard(t)` is the condition a
  thread waits for, `Announced(t)` the one it broadcasts). `Wait` releases the mutex and
  sleeps in one step; `Broadcast` sends all sleepers back to the lock. A null dereference
  in `strcpy` ends the process (`proc = "crashed"`).
* **Barber.** `++` and `--` on `takenSeats` are `Load` and `Store` through a register.
  A message is the pid it carries; `clientSeatId` is only printed. `StopBarber` is the
  exec of `./clean`: the barber is gone, the clients keep the objects they have open.
  Without `./clean` the handler kills the client of the last message instead, or, if there
  was none yet, pid 0: whoever is in the barber's process group. `InterruptClient` is
  Ctrl-C at a client, which ends anywhere and leaves behind what it took, sent and posted;
  `dead` are the clients that ended so. The history variable `missed` records why the
  barber may go to sleep, or sleep on, although a client waits: he tested a `takenSeats`
  of 0 with more clients waiting than were announced (`"miscounted"`), or a client took
  its seat after the test (`"late"`).
* **QueueServer.** A client queue is named by the client that created it; `names` maps
  names to queues, so an unlinked queue lives on for those who have it open, and two
  clients with one name share a queue. In the same way a server queue is named by the run
  that created it: `linked` is the one QUEUE_NAME names, `serverQ` the one the server
  reads, `sendQ` the one each client sends to. `RestartServer` opens what is linked, with
  the requests in it, or creates another queue. `interrupted` is a pending SIGINT:
  `stopServer` can run everywhere except in `"receive"`, where SIGINT is blocked. An entry
  past the end of `clientDataArray` is kept in the model's sequence but, as in the code,
  never looked at. `NameOf` is what `randomString` returns, one of the `Naming` of the
  run: with `srand(time(0))` the name depends on the second in which the client starts.
  A registration is written in two steps, the pid (`RegisterNewClient`) and the name
  (`CopyName`), so that `stopServer` may find an entry to kill without a queue to unlink.
* **PingPong.** A signal is pending from `kill` until a handler or the default action takes
  it, once however often it was sent. `handled` says which handlers are installed,
  `masked` that the child has blocked SIGINT. `pause` is a call and a wait: a signal
  handled in between does not end it. `sleep` may return at once; after a failed fork
  `childPid` is -1 and the signals reach no child.
* **Supervisor.** A process is a stack of calls of `startMain`, each with its place and the
  pid it works on; a handler that calls `startMain` pushes another. `Fork` copies the
  stack, `Exec` empties it: what is left is the shell. A `fork` that fails stores -1 in
  `childPid` like any other result, and `Exit` is a step of its own: a handler that runs in
  between finds kill(-1, 0) true and kills everybody but itself. `Deliver` runs the handler
  of a pending signal, or the default action in a shell. `Exists(0)` is true, since
  kill(0, 0) means the group. A process that finds no `./dateShell` goes on as a supervisor. The
  handlers are installed by `signal()`, which on the platform of the committed binaries
  restarts `waitpid` and blocks the signal being handled.
* **CommandLine, Pipeline.** `line` is one array for the whole run; `Fgets` overwrites its
  start, `Create` cuts out one command and moves `inc`. A descriptor table maps numbers
  to pipe ends, the file or the terminal. `fd2` has no value when the first command of a
  line closes it: `CreateCommand`, at the end of the line, lets it be a pair of numbers
  that name nothing, a pair of zeros, or the pair of the line before. The history
  variable `sound` records whether it named an open descriptor, or a `pipe` failed.
  Commands are free to read, write up to `MaxWrites` units and end as they like.
* **DirectoryList.** `calls[p]` is the stack of loops process p is in; `ahead` is what
  `readdir` has read ahead, `offset` the position in an open directory, which the
  processes that inherited it share. The three programs are told apart by `program`; one
  variable `listed` counts how often an entry was printed.
* **Records.** `job` is one call of the program with the files it meets. `first` is also
  the buffer of `copy` and `generate`; `ReadAt` overwrites as much of a buffer as was read,
  `WriteAt` writes all of it. `Opened` says what `fopen(.., "w")` and
  `open(.., O_CREAT)` leave of an old file.

## Runs

| Run | Instance | Shows |
|---|---|---|
| `sem_buffer` | 2 producers, 2 consumers, 2 slots, 4 words, fair | `TypeOK`, `MutualExclusion`, `SemAccounting`, `SlotDiscipline`, `LossBound`, `NeverJoinsAll`, `ImplementsChannel`, `Terminates` |
| `cond_many` | 2 producers, 2 consumers, 2 slots, 4 words, symmetric | `RingInv`, `NoLostWakeup`, `TakenOnce` |
| `cond_pair` | 1 producer, 1 consumer, 2 slots, 4 words, fair | `NoNullRead`, `ImplementsChannel`, `Terminates` |
| `barber` | 2 clients with 3 and 2 cuts, 2 seats, 1 message, both may be killed, fair | `ChairInv`, `StandstillHasCause`, `ServedOnceInvited` |
| `queue_server` | 2 clients, 2 TIME requests each, different names or one name, 2 starts of the server, fair | `QueuesInv`, `ToldMeansRegistered`, `NoSurvivor`, `LastIsServed` |
| `supervisor` | 4 processes, 3 Ctrl-Z (1 without a shell), a Ctrl-C, fair | `ChildrenInv`, `WaitsForItsOwn`, `NeverGoesRound`, `EndsOrWaits` |
| `ping_pong` | 4 signals, the three types, fair | `CountsInv`, `Lockstep`, `AnswerOnItsWay`, `EndsOrWaitsInVain`, `ChildFollows` |
| `pipeline` | 5 files of 1 to 3 lines, pipes of 1 unit, 9 descriptors, fair | `DescriptorsInv`, `WiredInOrder`, `ImplementsBatch`, `EndsOrPipeFull` |
| `dir_list` | a tree of 4 directories and 5 leaves, 8 settings, 6 processes | `ListsEachOnce`, `StopsAtFirst`, `WalkInv` |
| `records` | files of 0 to 8 bytes, records of 1 to 3, sizes 0 to 6 | `SortsStably`, `FilesInv`, `WritesRecords` |

Where a module has several small invariants that a proof would use together, they are one
property, the conjunction of `TypeOK` and named parts: `ChairInv` is `TypeOK`,
`InvitationsMatch`, `OneAtATime` and `CutsMatch`, and so on.

What the runs say beyond "it works":

* `RingInv` and `TakenOnce` hold although several threads race at the tests of `used`;
  `NoNullRead` holds for one consumer only. With two, both may pass `used == 0` for one
  word, and the second dereferences NULL.
* `StandstillHasCause`: the shop can stand still with somebody unserved, in four ways and
  no other, each of which really leads there. Three leave the barber asleep with a message
  in the queue:
  - he tested `takenSeats` and found 0, although a client sat there. A client that wakes
    him never increments the number but decrements it when it leaves (`client.c:111`), so
    it takes away the seat of another; lost updates do the same;
  - a client took its seat after his test, before he stored `isSleeping`, or later, while
    `takenSeats` was not 0: it wakes nobody;
  - the client that was to wake him was killed between its message and the post.

  In the fourth he waits at the chair (`barber.c:93`) for a client that was killed after
  its message was sent. Lost updates of `takenSeats` never disturb the hand-over
  (`ChairInv`), but the number itself satisfies no useful bound: it falls below zero, and
  in an empty shop it may stay above, which turns clients away. A client may also take the
  invitation meant for another. `ServedOnceInvited` is about clients that live, while the
  barber works.
* `LastIsServed`: replies go to the queue opened last, so only that client is sure of its
  answers; and not even that one, once a client of the same name has lost its request
  with an earlier server and reads the shared queue. `ToldMeansRegistered` and
  `NoSurvivor` hold for different names only: with a common name the server can die at
  `server.c:98`, and its successor knows nobody.
* `EndsOrWaits`: a second Ctrl-Z between `fork` and the assignment of its result stops the
  new shell instead of killing it, and the supervisor waits for ever.
* `EndsOrWaitsInVain`: type 2 of the ping-pong hangs when the answer is handled between
  `kill` and `pause`, or when the child is gone. `ChildFollows`: a Ctrl-C before the
  parent has installed `killAll` leaves a child behind that has already blocked SIGINT.
* `ImplementsBatch` excepts four kinds of steps: a failed fork leaves out its one command
  without a word and the rest goes on in order (`LeavesOut`); if nothing was waited for
  before, the undefined `childStatus` may end the run (`StopsForNothing`); a line of fewer
  or more than five commands crashes the interpreter, after its last command or before its
  first and nowhere else (`Crashes`); and when the last line is one word without a newline,
  the rest of the line before is read as its arguments, and as further commands behind it
  (`RunsOn`).
* `DescriptorsInv` and `WiredInOrder`: each line leaks one descriptor, and each command
  reads the pipe of the one before. Both say so only as long as `sound` is true, that is,
  the undefined `fd2` never named an open descriptor and no `pipe` failed; once one of
  these happened, anything may be closed or connected.
* `EndsOrPipeFull` has no such proviso: whatever `fd2` named and whether or not `pipe`
  fails, the interpreter comes to its end, unless a command that writes more than a pipe
  holds waits for a reader that is started after its end.
* `StopsAtFirst`: `lab2/cw2b` prints nothing after the first entry that does not match.
  `WalkInv`: `lab3/cw1` prints an entry once for every process that comes past it, and
  misses none unless a fork failed.
* `WritesRecords`: a copy is filled up to whole records with the end of the record before,
  and the "sys" versions keep the end of a longer old file. `FilesInv`: a copy of a file
  onto itself empties or lengthens it; a sort that is stopped loses at most the record it
  was about to write.

Runs that are expected to find a violation, each a disagreement between the code and what
it says of itself (`PROJECT.json`, `findings`):

| Run | Property | What happens |
|---|---|---|
| `cond_overrun` | `NoOverrun` | two producers pass `used == LENGTH` for one free slot; a word is overwritten and the equality never stops anybody again |
| `queue_replies` | `OwnReplies` | the time goes to the client registered last |

### Bounds, and why they are enough

* *Slots* (`Length` 2, in the code 10) and *words* (4): two slots are the least for which
  full, empty and partly filled differ and the indices wrap; four different words fill the
  ring twice.
* *Threads*: two of a kind are the least that race for one slot or word, and the third
  and fourth of `global.h` meet no situation two do not.
* *Clients* of the barber: two who come back, one of them twice, to a shop they left
  with a wrong count. Two are the least that lose an update, wake the barber for one
  another, or take each other's invitation and end of cut; for more of them `ChairInv` and
  `StandstillHasCause` are proved. `MaxMessages` is 1 (10 by default) so that the queue
  fills up with one client while the other has to wait; `MaxInterrupts` is 2, so each
  client may be killed anywhere.
* *Clients* of the server: two with two requests (10 in the code). `MaxMessages` is the
  number of clients, the case in which `NeverBlockedInSend` is sharp. `MaxRuns` 2: the
  second server meets everything a first one can leave.
* *Supervisor*: three Ctrl-Z are one for each of kill, restart and the interruption of
  either; four processes are the first and a shell for each of them. Without a shell each
  child is another supervisor, and one Ctrl-Z already nests two of them. Keys are pressed
  while the first process lives.
* *Ping-pong*: L is 4 (any number in the code): with two pending and two counted, signals
  coalesce on both sides.
* *Pipeline*: the pipe holds one unit and a command writes up to two, so it can be empty,
  full or blocked. Three lines of five commands use up nine descriptors; `MaxLength` 32
  (255 in the code) holds all lines. At most one fork fails in a run.
* *Directories*: the tree has a leaf before, between and after directories, one inside
  another, and a link; six processes are exactly as many as come out of it. At most one
  fork fails in a run. `readdir` reads 1, 2 or
  all 5 entries ahead.
* *Records*: four records of three keys have every order and every tie; sizes run from
  none to more than there are.

Deadlock is checked in the lab7 runs. In the others it is not, because these programs do
stop: clients finish, a server without clients waits, a program ends. What must not stop
is stated as a property.

### Fairness

Liveness is checked under weak fairness of each thread or process: the kernel runs whoever
can take a step, and delivers a signal that is pending and not blocked. Ctrl-C and Ctrl-Z,
running a program again and killing a client are never assumed. In `Supervisor` the shell
is assumed to end when it runs, and `sleep` to return; in `Pipeline` a command reads,
writes and ends as long as it can. For `CondBuffer` POSIX allows `pthread_cond_wait` to
return without cause; the runs include this, and the liveness property assumes that it does
not happen for ever. Weak fairness suffices for the semaphores and mutexes because the
words, cuts and requests are finite, so no thread is overtaken infinitely often.

## Proofs

Each `*Proofs` module holds the theorems of one component (`Lab2Proofs` of two), proved for every value of the
constants that the module's `ASSUME` admits and, where stated, one more hypothesis. The
argument is always the same: an inductive invariant holds initially, every action keeps it,
and temporal logic does the rest. The table says what the invariant has to add to the
property for that; TLC checked each of them on an instance before it was proved.

| Theorems | Under | Inductive invariant, and why the property alone is not enough |
|---|---|---|
| **`SemBufferProofs`** | | |
| `TypeOKHolds` | | `TypeInv`: a producer at `"put"` has a word in its hand |
| `MutualExclusionHolds` (`RingIsExclusive`) | | `MutexInv`: mutex is 0 or 1, and 0 while a thread is in the ring; since a killed run leaves any value behind, the semaphores have been unlinked when they are opened, and no thread exists before |
| `SlotsAddUp` | | `SemAccounting`, by counting the threads that hold a place or a full: each step moves at most one thread in or out of these sets and one unit of a semaphore the other way |
| `SlotDisciplineHolds`, `ChannelImplemented` (`RingHoldsWords`) | | `ContentInv`: from `out` on the slots hold the words sent and not received, round the ring, up to the statement the one thread in it has reached; `FullInv`: full, the posts to come and the words claimed are those words, so whoever enters finds room or a word |
| `LossBoundHolds` | | `TextInv`: the words sent, unread and carried by producers at each place add up to the text, and who exits has seen its end |
| `NeverJoinsAllHolds` | there is a thread | `ReturnInv`: a thread only returns once `end` is set, and the handler that set it has not returned |
| **`CondBufferProofs`** | | |
| `RingInvHolds` (`CountersCorrect`) | | `LockInv`: who holds which mutex; `CountersInv`: how far the put or take under way is ahead of `used`, `in` and `out` |
| `NoLostWakeupHolds` | | `WakeupInv`, which also covers the thread that has tested `used` and is about to sleep: it still holds the mutex that the broadcast needs |
| `TakenOnceHolds` | the text has no word twice | `OnceInv`: a word is in one place, unread, in a hand, in a slot or received; only a slot that was copied and not cleared yet holds one that is also received |
| `NoNullReadHolds`, `ChannelImplemented` (`PairHoldsWords`) | at most one producer and one consumer | `ContentInv`: as above; past its test a thread has room or a word for certain, because nobody else can take it |
| **`PingPongProofs`** | | |
| `CountsInvHolds` (`CountsCorrect`) | | `CountsIInv`: the counters with the signals pending and the answer under way, and that only type 2 waits |
| `LockstepHolds` (`LagHolds`) | | `LagInv`: the parent is one answer behind at most, and only while it waits |
| `AnswerOnItsWayHolds` | | `WayInv`: a parent that is about to pause is as good as pausing |
| **`BarberProofs`** | | |
| `ChairInvHolds` (`ShopInvHolds`) | | `TypeInv` and `HandOver`, the three equations between posts, messages and the clients at each place, kept by counting clients as in `SlotsAddUp`. `takenSeats` is in none of them: what it counts does not matter for the hand-over |
| `StandstillHolds` (`ShopInvHolds`) | | `SleepInv`: while the barber sleeps and nothing was missed, no more clients wait than are announced, so a message in the queue means a post of `barber` there or owed by a client, who is alive or dead; wherever else he waits, the equations of `HandOver` leave a client that can move or is dead |
| **`QueueServerProofs`** | | |
| `QueuesInvHolds` (`AnswersHold`) | at most `MaxMessages` clients | `AnswersInv`: a client about to ask has nothing under way, so requests and replies together are at most one for each client |
| `RegisteredOnce` | | `OnceInv`: an INIT is in one place, a queue, the server's hand or `clientDataArray`, also when a new server opens an old queue |
| `ToldHolds`, `NoSurvivorHolds` | at most `MAX_CLIENT_NUMBER` clients | `ToldInv`: whose name a queue has while its INIT is under way; whoever is answered is in the array. More clients than the array holds are never killed by `stopServer`, so the hypothesis is needed |
| **`SupervisorProofs`** | | |
| `ChildrenInvHolds`, `WaitsForItsOwnHolds`, `NeverGoesRoundHolds` | | `CareInv`: a child in `childPid` that is still there is being waited for, so no assignment ever overwrites it; a number is in one place of the stack; what a forked process inherited of the stack is dropped by `execlp` before it could be stored; with the shell there, only the innermost call of `startMain` waits; the -1 of a failed fork is an assignment like any other |
| **`PipelineProofs`** | | |
| `TypeCorrect` | | `TypeInv`; needs what `Min` and `Fgets` return, and that a pipe gets two free numbers |
| `WiredInOrderHolds` (says nothing once `sound` is false) | more than one command in a line | `WireInv`: which ends the shell holds at each place of `runProcess` (those of this pipe and the one before, at different numbers), and that the child starts with the same; the four numbers differ because what they name differs |
| `DescriptorsInvHolds` (says nothing once `sound` is false) | more than one command in a line | `CountInv`: the pipes made are whole lines and the place in this one, and the open descriptors follow from both |
| **`Lab2Proofs`**, `Records` | | |
| `TypeOKHolds` | | `TypeInv`: how far each loop is, and that both buffers are one record long, also after a short read |
| `SourceSurvivesHolds` | | `SourceInv`: a copy onto itself by system calls reads and writes at one place, so that each record is written back where it was read |
| `LosesAtMostOneHolds` (`FilesInvHolds`) | | `BufferInv`: which records of the file `first` and `second` hold at each place of the inner loop; `KeptInv`: in the file with the second of the two writes done, each record of the old file has a place of its own |
| `SortsStablyHolds` | | `SortedInv`: the file, with the record that is held put back, is the old one under a permutation; the part already passed is in order, and records with one key are in their old order |
| `WritesRecordsHolds` | | `GenerateInv` and `CopyInv`: behind the records written so far the file is what it was when it was opened, and those of a copy are the ones of the source; a short one is read over the one before, so the rest of the buffer is the end of that |
| **`Lab2Proofs`**, `DirectoryList` | | |
| `ListTypeOKHolds` | | `ListTypeInv`, which needs `WalkedInv` for one thing: in `lab2/cw2a` and `cw2b` the directories open at a time are nested, so there is a stream for each |
| `ListsEachOnceHolds`, `StopsAtFirstHolds` (`WalkedHolds`) | | `WalkedInv`: the calls of `list` or `nftw` lie on a path of the tree, their places on it say how many entries of `Walk` have been passed (`Walking`), and those are what was printed (`Printed`); a walk of `lab2/cw2b` that has ended printed it up to an entry that is not good (`Stopped`) |

`Walk` is a recursive function over the tree, and its theorems need what `TreeAssumption`
says of one: an entry is in one place, and directories are nested, so that each has a height
that is less than its parent's. By induction on that height `Walk` exists (`WalkExists`), is
made of the walks of its directories one behind the other (`WalkIsLaidOut`), and has
nothing twice (`OnceInWalk`), which is why no entry is printed twice. That the nesting is
less than `MaxProcesses` is a bound: there is a stream for each directory open at a time.

`LENGTH_OF_EXECUTABLE` is 5. With 1 the last command would be the first as well: its process would
close the undefined `fd2[1]`, which may be its standard input, and `WiredInOrder` would be
false; the hypothesis excludes just that.
`Pair` in `CondBufferProofs` is no convenience either: with two consumers `NoNullRead` is
false. `PipelineAssumption` says that the text of a file is a sequence of characters, and
`PingPong` and `Pipeline` separate `Spec`, which the theorems are about, from `FairSpec`,
which the runs use.

Only model-checked: all liveness (`Terminates`, `ServedOnceInvited`, `LastIsServed`,
`EndsOrWaits`, `EndsOrWaitsInVain`, `ChildFollows`, `EndsOrPipeFull`), since fairness and
ENABLED are outside what the provers handle. `ImplementsBatch` compares what `Create` cuts
out of the text with the commands the file is made of: the proof would be one about
single characters, and it is the run that compares the two. `WalkInv` adds to
`ListTypeOK` how often `lab3/cw1` prints an entry: `Out` and `Enter` count the processes
that come out of a whole directory, products over the tree that only the run compares with
the processes there are.

## Not modelled

* Barber: the start-up, in which a client may find only some of the objects and uses
  SEM_FAILED or MAP_FAILED, and a shop reopened on the objects of a barber that was killed
  so that `./clean` did not run.
* Server: two servers at a time, which is possible after END; reuse of pids; the memory
  damaged by the entry past the end of `clientDataArray`.
* `lab3/cw2` (batch runner): how a line is split into arrays of 20 characters that are
  filled without a test.
* `lab4/cw1` (clock): one process and one flag; nested handlers are modelled in
  `Supervisor`, and a pause that comes too late in `PingPong`.
* `lab4/kolokwium_1`: independent demonstrations of system calls, with no state that
  outlives one of them.
* Everywhere: what is printed, failing system calls that the code does not check (except
  `fork`, `pipe`, `dup2`, `exec`, `opendir` and `mq_open`, which are modelled), `malloc` that fails, and
  words longer than the buffers they are read into.

## Plan

1. Prove of `Pipeline` that commands run one at a time and none is started after one that
   failed, the part of `ImplementsBatch` that does not depend on the text.
2. Extend the model: the start-up of the barber, and the splitting of lines in `lab3/cw2`.
