----------------------------- MODULE QueueServer -----------------------------
(***************************************************************************)
(* lab5_posix: a server that tells the time and its clients.  Requests     *)
(* travel through the POSIX message queue QUEUE_NAME, replies through a    *)
(* queue that each client creates under a random name of its own.          *)
(*                                                                         *)
(* One step is one call on a queue with the local work around it; only an  *)
(* entry of clientDataArray is written in two, as a signal handler may     *)
(* find it without its name.  A handler is one step.  An entry past the    *)
(* end of clientDataArray (server.c:102) is kept by the model but, like    *)
(* the code, getClient and stopServer never look at it.                    *)
(*                                                                         *)
(* The server may be started again once it is gone.  It then opens the     *)
(* queue that QUEUE_NAME still names, or creates another one; clients keep *)
(* the one they have open.  Not modelled: the text of the time, the sleep  *)
(* between requests, and two servers at a time.                            *)
(***************************************************************************)
EXTENDS Integers, Sequences, FiniteSets, Functions

CONSTANTS
  Client,             \* the client processes; also their pids
  Name,               \* names of client queues
  Naming,             \* ways in which randomString may name the clients
  MAX_CLIENT_NUMBER,  \* size of clientDataArray
  Requests,           \* TIME requests each client makes (10 in client.c)
  MaxMessages,        \* mq_maxmsg of every queue (10 by default)
  MaxRuns,            \* bound: how often the server is started
  NULL                \* no queue

ASSUME QueueServerAssumption ==
  /\ IsFiniteSet(Client) /\ NULL \notin Client
  /\ Naming \subseteq [Client -> Name] /\ Naming # {}
  /\ MAX_CLIENT_NUMBER \in Nat \ {0} /\ Requests \in Nat \ {0}
  /\ MaxMessages \in Nat \ {0} /\ MaxRuns \in Nat \ {0}

Message == [type : {"INIT", "TIME", "END", "STOP"}, pid : Client]
Run     == 1 .. MaxRuns    \* also the server queue that run created
Reply   == [type : {"INIT", "TIME"}, pid : Client]

VARIABLES
  runs,             \* how often the server was started
  linked,           \* the server queue that QUEUE_NAME names, or 0
  serverQueue,      \* the messages of each server queue
  NameOf,           \* the name randomString gives each client
  names,            \* the client queue each name stands for, or NULL
  queue,            \* the replies in each client queue, named by its creator
  serverQ,          \* the queue the server has open
  serverPc, interrupted,        \* control of the server; is SIGINT pending?
  receivedMessage, sendMessage, \* the request it handles, the reply it sends, or Nothing
  clientDataArray, clientQ,     \* registered clients; the queue opened last
  pc, requestsLeft, \* control of each client
  ownQ, sendQ,      \* the queue of its own and the server queue each client has open
  owed              \* history: clients that asked and have read no reply yet

server == <<runs, serverQ>>
queues == <<server, linked, serverQueue, names, queue>>
serverVars == <<serverPc, receivedMessage, sendMessage, clientDataArray, clientQ>>
clientVars == <<pc, requestsLeft, ownQ, sendQ, owed>>
vars == <<NameOf, queues, serverVars, interrupted, clientVars>>

Nothing == [type |-> "none", pid |-> NULL]

Init ==
  /\ runs = 0 /\ linked = 0 /\ serverQ = 0 /\ serverQueue = [q \in Run |-> <<>>]
  /\ NameOf \in Naming
  /\ names = [n \in Name |-> NULL] /\ queue = [c \in Client |-> <<>>]
  /\ serverPc = "start" /\ interrupted = FALSE
  /\ receivedMessage = Nothing /\ sendMessage = Nothing
  /\ clientDataArray = <<>> /\ clientQ = NULL
  /\ pc = [c \in Client |-> "openOwn"]
  /\ requestsLeft = [c \in Client |-> Requests]
  /\ ownQ = [c \in Client |-> NULL] /\ sendQ = [c \in Client |-> 0] /\ owed = {}
-------------------------------------------------------------------------------
(* The server.  SIGINT is blocked while pc is "receive".                     *)
ServerGoto(from, to) == serverPc = from /\ serverPc' = to

(* mq_open with O_CREAT: the queue of that name with whatever is in it, if   *)
(* an earlier run left one; the variables of the program are new.            *)
Start(from) ==
  /\ ServerGoto(from, "loop") /\ runs < MaxRuns
  /\ runs' = runs + 1
  /\ linked' = IF linked = 0 THEN runs + 1 ELSE linked
  /\ serverQ' = linked'
  /\ interrupted' = FALSE
  /\ receivedMessage' = Nothing /\ sendMessage' = Nothing
  /\ clientDataArray' = <<>> /\ clientQ' = NULL
  /\ UNCHANGED <<serverQueue, names, queue, clientVars>>

StartServer   == Start("start")
RestartServer == Start("gone")

BlockSignals ==
  /\ ServerGoto("loop", "receive")
  /\ UNCHANGED <<queues, interrupted, receivedMessage, sendMessage, clientDataArray,
                 clientQ, clientVars>>

Receive ==
  /\ ServerGoto("receive", "handle")
  /\ serverQueue[serverQ] # <<>>
  /\ receivedMessage' = Head(serverQueue[serverQ])
  /\ serverQueue' = [serverQueue EXCEPT ![serverQ] = Tail(@)]
  /\ UNCHANGED <<server, linked, names, queue, interrupted, sendMessage, clientDataArray,
                 clientQ, clientVars>>

\* getClient and stopServer look at the first MAX_CLIENT_NUMBER entries.
Registered ==
  {clientDataArray[i] : i \in {j \in DOMAIN clientDataArray : j <= MAX_CLIENT_NUMBER}}

\* The names of queues in those entries; the newest may have none yet.
Recorded ==
  {NameOf[clientDataArray[i]] : i \in {j \in DOMAIN clientDataArray :
     j <= MAX_CLIENT_NUMBER /\ (serverPc = "copyName" => j < Len(clientDataArray))}}

\* Everyone but a registered client is turned away, unless he sends INIT.
Refuse ==
  /\ ServerGoto("handle", "loop")
  /\ receivedMessage.type # "INIT" /\ receivedMessage.pid \notin Registered
  /\ receivedMessage' = Nothing
  /\ UNCHANGED <<queues, interrupted, sendMessage, clientDataArray,
                 clientQ, clientVars>>

\* A registration that is confirmed but not recorded.
RegisterNewClient_NoEntry ==
  /\ serverPc = "handle" /\ receivedMessage.type = "INIT"
  /\ names[NameOf[receivedMessage.pid]] # NULL
  /\ serverPc' = "send"
  /\ clientQ' = names[NameOf[receivedMessage.pid]]
  /\ sendMessage' = receivedMessage
  /\ receivedMessage' = Nothing
  /\ UNCHANGED <<queues, interrupted, clientDataArray, clientVars>>

(* registerNewClient until the new entry has its pid.  The test of           *)
(* registeredNumber only prints; a queue that cannot be opened ends the      *)
(* server.                                                                   *)
RegisterNewClient ==
  /\ serverPc = "handle" /\ receivedMessage.type = "INIT"
  /\ LET q == names[NameOf[receivedMessage.pid]] IN
       \/ /\ q = NULL /\ serverPc' = "gone"
          /\ UNCHANGED <<clientQ, clientDataArray, sendMessage>>
       \/ /\ q # NULL /\ serverPc' = "copyName"
          /\ clientQ' = q
          /\ clientDataArray' = Append(clientDataArray, receivedMessage.pid)
          /\ sendMessage' = receivedMessage
  /\ receivedMessage' = Nothing
  /\ UNCHANGED <<queues, interrupted, clientVars>>

(* The entry gets the name of the client's queue (server.c:105): only now    *)
(* can stopServer unlink it.                                                 *)
CopyName ==
  /\ ServerGoto("copyName", "send")
  /\ UNCHANGED <<queues, interrupted, receivedMessage, sendMessage, clientDataArray,
                 clientQ, clientVars>>

\* The time is asked of the clock and forgotten.
ServeTimeMessage_NoReply ==
  /\ ServerGoto("handle", "loop")
  /\ receivedMessage.type = "TIME" /\ receivedMessage.pid \in Registered
  /\ receivedMessage' = Nothing
  /\ UNCHANGED <<queues, interrupted, sendMessage, clientDataArray, clientQ, clientVars>>

ServeTimeMessage ==
  /\ ServerGoto("handle", "send")
  /\ receivedMessage.type = "TIME" /\ receivedMessage.pid \in Registered
  /\ sendMessage' = receivedMessage /\ receivedMessage' = Nothing
  /\ UNCHANGED <<queues, interrupted, clientDataArray, clientQ, clientVars>>

\* The reply is sent again and again.
SendReply_Repeated ==
  /\ serverPc = "send" /\ serverPc' \in {"send", "loop"}
  /\ Len(queue[clientQ]) < MaxMessages
  /\ queue' = [queue EXCEPT ![clientQ] = Append(@, sendMessage)]
  /\ UNCHANGED <<server, linked, serverQueue, names, interrupted, receivedMessage,
                 sendMessage,
                 clientDataArray, clientQ, clientVars>>

\* The mq_send of both: to clientQ, which blocks while that queue is full.
SendReply ==
  /\ ServerGoto("send", "loop")
  /\ Len(queue[clientQ]) < MaxMessages
  /\ queue' = [queue EXCEPT ![clientQ] = Append(@, sendMessage)]
  /\ sendMessage' = Nothing
  /\ UNCHANGED <<server, linked, serverQueue, names, interrupted, receivedMessage,
                 clientDataArray, clientQ, clientVars>>

ServeEndMessage ==
  /\ ServerGoto("handle", "loop")
  /\ receivedMessage.type = "END" /\ receivedMessage.pid \in Registered
  /\ linked' = 0
  /\ receivedMessage' = Nothing
  /\ UNCHANGED <<server, serverQueue, names, queue, interrupted, sendMessage,
                 clientDataArray, clientQ, clientVars>>

ServeStopMessage ==
  /\ ServerGoto("handle", "loop")
  /\ receivedMessage.type = "STOP" /\ receivedMessage.pid \in Registered
  /\ names' = [names EXCEPT ![NameOf[receivedMessage.pid]] = NULL]
  /\ receivedMessage' = Nothing
  /\ UNCHANGED <<server, linked, serverQueue, queue, interrupted, sendMessage,
                 clientDataArray, clientQ, clientVars>>

\* Ctrl-C at the server's terminal.
InterruptServer ==
  /\ serverPc \notin {"start", "gone"} /\ interrupted' = TRUE
  /\ UNCHANGED <<queues, serverVars, clientVars>>

Ended == {"done", "failed", "exited", "killed"}

\* A shutdown that leaves the processes alone.
StopServer_NoKill ==
  /\ interrupted /\ serverPc \in {"loop", "handle", "copyName", "send"}
  /\ serverPc' = "gone"
  /\ names' = [n \in Name |-> IF n \in Recorded THEN NULL ELSE names[n]]
  /\ linked' = 0
  /\ UNCHANGED <<server, serverQueue, queue, interrupted, receivedMessage, sendMessage,
                 clientDataArray, clientQ, clientVars>>

\* stopServer, as soon as SIGINT is not blocked: kill the clients, unlink all queues.
StopServer ==
  /\ interrupted /\ serverPc \in {"loop", "handle", "copyName", "send"}
  /\ serverPc' = "gone"
  /\ pc' = [c \in Client |-> IF c \in Registered /\ pc[c] \notin Ended THEN "killed" ELSE pc[c]]
  /\ names' = [n \in Name |-> IF n \in Recorded THEN NULL ELSE names[n]]
  /\ linked' = 0
  /\ UNCHANGED <<server, serverQueue, queue, interrupted, receivedMessage, sendMessage,
                 clientDataArray, clientQ, requestsLeft, ownQ, sendQ, owed>>
-------------------------------------------------------------------------------
(* A client.                                                                 *)
Goto(c, from, to) == pc[c] = from /\ pc' = [pc EXCEPT ![c] = to]

\* mq_open with O_CREAT but not O_EXCL: the queue of that name, if there is one.
OpenOwn(c) ==
  /\ Goto(c, "openOwn", "openServer")
  /\ LET q == names[NameOf[c]] IN
       \/ q = NULL /\ names' = [names EXCEPT ![NameOf[c]] = c] /\ ownQ' = [ownQ EXCEPT ![c] = c]
       \/ q # NULL /\ ownQ' = [ownQ EXCEPT ![c] = q] /\ UNCHANGED names
  /\ UNCHANGED <<server, linked, serverQueue, queue, serverVars, interrupted,
                 requestsLeft, sendQ, owed>>

OpenServer(c) ==
  /\ Goto(c, "openServer", IF linked # 0 THEN "sendInit" ELSE "failed")
  /\ sendQ' = [sendQ EXCEPT ![c] = linked]
  /\ UNCHANGED <<queues, serverVars, interrupted, requestsLeft, ownQ, owed>>

\* mq_send to the server blocks while its queue is full, for ever if it is one
\* that no server reads any more.
Send(c, type) ==
  /\ Len(serverQueue[sendQ[c]]) < MaxMessages
  /\ serverQueue' = [serverQueue EXCEPT ![sendQ[c]] = Append(@, [type |-> type, pid |-> c])]
  /\ UNCHANGED <<server, linked, names, queue, serverVars, interrupted, requestsLeft,
                 ownQ, sendQ>>

SendRequest(c) ==
  /\ \/ Goto(c, "sendInit", "receiveInit") /\ Send(c, "INIT")
     \/ Goto(c, "sendTime", "receiveTime") /\ Send(c, "TIME")
  /\ owed' = owed \cup {c}

\* Whatever message comes is taken for the reply.
ReceiveReply(c) ==
  /\ \/ Goto(c, "receiveInit", "sendTime") /\ UNCHANGED requestsLeft
     \/ /\ Goto(c, "receiveTime", IF requestsLeft[c] > 1 THEN "sendTime" ELSE "sendEnd")
        /\ requestsLeft' = [requestsLeft EXCEPT ![c] = @ - 1]
  /\ queue[ownQ[c]] # <<>>
  /\ queue' = [queue EXCEPT ![ownQ[c]] = Tail(@)]
  /\ owed' = owed \ {c}
  /\ UNCHANGED <<server, linked, serverQueue, names, serverVars, interrupted, ownQ, sendQ>>

SendEndMessage(c) ==
  Goto(c, "sendEnd", "closeQueue") /\ Send(c, "END") /\ UNCHANGED owed

CloseQueue(c) ==
  /\ Goto(c, "closeQueue", IF names[NameOf[c]] = NULL THEN "failed" ELSE "done")
  /\ names' = [names EXCEPT ![NameOf[c]] = NULL]
  /\ UNCHANGED <<server, linked, serverQueue, queue, serverVars, interrupted,
                 requestsLeft, ownQ, sendQ, owed>>

(* Ctrl-C at a client's terminal: before sigaction it ends the process, then *)
(* stopClient sends STOP and exits.  A STOP sent before the pid is in the    *)
(* message is refused or unlinks the name "": no more than this one does,    *)
(* which an unregistered client sends.                                       *)
InterruptClient(c) ==
  /\ pc[c] \notin Ended \cup {"sendStop"}
  /\ pc' = [pc EXCEPT ![c] = IF @ \in {"openOwn", "openServer"} THEN "killed" ELSE "sendStop"]
  /\ UNCHANGED <<queues, serverVars, interrupted, requestsLeft, ownQ, sendQ, owed>>

StopClient(c) ==
  Goto(c, "sendStop", "exited") /\ Send(c, "STOP") /\ UNCHANGED owed
-------------------------------------------------------------------------------
ServerStep ==
  /\ UNCHANGED NameOf
  /\ \/ StartServer \/ BlockSignals \/ Receive \/ Refuse \/ RegisterNewClient \/ CopyName
     \/ ServeTimeMessage \/ SendReply \/ ServeEndMessage \/ ServeStopMessage \/ StopServer

ClientStep(c) ==
  /\ UNCHANGED NameOf
  /\ \/ OpenOwn(c) \/ OpenServer(c) \/ SendRequest(c) \/ ReceiveReply(c)
     \/ SendEndMessage(c) \/ CloseQueue(c) \/ StopClient(c)

\* What people do at their terminals.
UserStep ==
  /\ UNCHANGED NameOf
  /\ RestartServer \/ InterruptServer \/ \E c \in Client : InterruptClient(c)

Next == ServerStep \/ UserStep \/ \E c \in Client : ClientStep(c)

Spec == Init /\ [][Next]_vars

\* The kernel runs every process that can take a step; nobody has to press
\* Ctrl-C, or to start the server again.
Fairness == WF_vars(ServerStep) /\ \A c \in Client : WF_vars(ClientStep(c))

FairSpec == Spec /\ Fairness
-------------------------------------------------------------------------------
(* Type correctness: no queue holds more than it may, and a client reads     *)
(* from a queue that is open.                                                *)
ServerPC == {"start", "loop", "receive", "handle", "copyName", "send", "gone"}
ClientPC == {"openOwn", "openServer", "sendInit", "receiveInit", "sendTime",
             "receiveTime", "sendEnd", "closeQueue", "sendStop"} \cup Ended

TypeOK ==
  /\ NameOf \in Naming
  /\ runs \in 0 .. MaxRuns /\ linked \in 0 .. runs /\ serverQ \in 0 .. runs
  /\ interrupted \in BOOLEAN
  /\ serverQueue \in [Run -> Seq(Message)]
  /\ \A q \in Run : Len(serverQueue[q]) <= MaxMessages
  /\ names \in [Name -> Client \cup {NULL}]
  /\ queue \in [Client -> Seq(Reply)]
  /\ \A c \in Client : Len(queue[c]) <= MaxMessages
  /\ serverPc \in ServerPC
  /\ receivedMessage \in Message \cup {Nothing} /\ sendMessage \in Reply \cup {Nothing}
  /\ clientDataArray \in Seq(Client) /\ clientQ \in Client \cup {NULL}
  /\ pc \in [Client -> ClientPC]
  /\ requestsLeft \in [Client -> 0 .. Requests]
  /\ ownQ \in [Client -> Client \cup {NULL}]
  /\ \A c \in Client : ownQ[c] = NULL => pc[c] \in {"openOwn", "killed"}
  /\ sendQ \in [Client -> 0 .. runs]
  /\ owed \subseteq Client

(* There are never more requests and replies under way than clients that     *)
(* asked and have read no reply: a request is answered at most once, whoever *)
(* reads the answer and however often the server is started on the queue an  *)
(* earlier one left with requests in it (server.c:98).                       *)
Requested(messages) == {i \in DOMAIN messages : messages[i].type \in {"INIT", "TIME"}}
Asked    == UNION {{q} \X Requested(serverQueue[q]) : q \in Run}
InHand   == \/ serverPc \in {"copyName", "send"}
            \/ serverPc = "handle" /\ receivedMessage.type \in {"INIT", "TIME"}
Answered == UNION {{c} \X DOMAIN queue[c] : c \in Client}

AnswersBounded ==
  Cardinality(Asked) + (IF InHand THEN 1 ELSE 0) + Cardinality(Answered) <= Cardinality(owed)

(* Replies go to the queue opened last, whoever reads it, but the server is  *)
(* never blocked by it (server.c:119, :137) as long as a queue has room for  *)
(* one message of every client.                                              *)
NeverBlockedInSend == serverPc = "send" => Len(queue[clientQ]) < MaxMessages

(* The queues are bounded by what was asked, so no send of the server blocks. *)
QueuesInv == TypeOK /\ AnswersBounded /\ NeverBlockedInSend

DistinctNames == \A c, d \in Client : NameOf[c] = NameOf[d] => c = d
Told(c) == pc[c] \in {"sendTime", "receiveTime", "sendEnd"}

(* If all names differ, a client that was told it is registered is registered *)
(* with the server that runs, even if SIGINT, STOP or END came in between or *)
(* the server was started again.  With a common name the server can die at   *)
(* server.c:98, and its successor knows nobody.                              *)
ToldMeansRegistered ==
  DistinctNames => \A c \in Client : Told(c) => c \in Range(clientDataArray)

(* If all names differ, then when the server has ended no client that was    *)
(* told it is registered is left waiting for replies that never come.        *)
NoSurvivor ==
  DistinctNames /\ serverPc = "gone" => \A c \in Client : ~ Told(c)

(* The client that registered last gets the replies to its requests, however *)
(* many other clients ask and are answered through its queue.  Only a client *)
(* of the same name whose own request was lost with an earlier server can    *)
(* read a reply away from it.                                                *)
Last(c) == serverPc # "gone" /\ clientDataArray # <<>>
             /\ clientDataArray[Len(clientDataArray)] = c
             /\ c \in Registered

LastIsServed ==
  \A c \in Client :
    pc[c] = "receiveTime" /\ Last(c) /\ (DistinctNames \/ runs = 1)
      ~> pc[c] # "receiveTime" \/ ~ Last(c)

(* A client prints the time it is sent with its ClientId (client.c:104): the *)
(* replies to a client's requests reach that client.                         *)
OwnReplies ==
  \A c \in Client : \A i \in DOMAIN queue[c] : ownQ[queue[c][i].pid] = c
===============================================================================
