---------------------------- MODULE QueueServerProofs ----------------------------
(***************************************************************************)
(* Theorems about QueueServer, for every number of clients, requests,      *)
(* messages and runs of the server.                                        *)
(***************************************************************************)
EXTENDS QueueServer, FiniteSetTheorems, FunctionTheorems, SequenceTheorems, TLAPS

(* The types in three parts, each with what makes it inductive: a running    *)
(* server has a queue open, a message when it handles one, and a client      *)
(* queue to send to when a client is registered; a client that talks to the  *)
(* server has the server's queue open and a request left.                    *)
ServerOK ==
  /\ NameOf \in Naming
  /\ runs \in 0 .. MaxRuns /\ linked \in 0 .. runs /\ serverQ \in 0 .. runs
  /\ interrupted \in BOOLEAN
  /\ serverPc \in ServerPC
  /\ receivedMessage \in Message \cup {Nothing} /\ sendMessage \in Reply \cup {Nothing}
  /\ clientDataArray \in Seq(Client) /\ clientQ \in Client \cup {NULL}
  /\ serverPc = "start" => clientDataArray = <<>>
  /\ serverPc \notin {"start", "gone"} => serverQ # 0
  /\ serverPc = "handle" => receivedMessage \in Message
  /\ serverPc \in {"copyName", "send"} => sendMessage \in Reply /\ clientDataArray # <<>>
  /\ clientDataArray # <<>> => clientQ \in Client

QueuesOK ==
  /\ serverQueue \in [Run -> Seq(Message)]
  /\ \A q \in Run : Len(serverQueue[q]) <= MaxMessages
  /\ names \in [Name -> Client \cup {NULL}]
  /\ queue \in [Client -> Seq(Reply)]
  /\ \A c \in Client : Len(queue[c]) <= MaxMessages

Opening == {"openOwn", "openServer"}
Asking  == {"sendInit", "receiveInit", "sendTime", "receiveTime"}

ClientsOK ==
  /\ pc \in [Client -> ClientPC]
  /\ requestsLeft \in [Client -> 0 .. Requests]
  /\ ownQ \in [Client -> Client \cup {NULL}]
  /\ \A c \in Client : ownQ[c] = NULL => pc[c] \in {"openOwn", "killed"}
  /\ sendQ \in [Client -> 0 .. runs]
  /\ owed \subseteq Client
  /\ \A c \in Client : pc[c] \notin Opening \cup Ended => sendQ[c] # 0
  /\ \A c \in Client : pc[c] \in Opening \cup Asking => requestsLeft[c] > 0

TypeInv == ServerOK /\ QueuesOK /\ ClientsOK

LEMMA ServerHasOpen == TypeInv /\ serverPc \notin {"start", "gone"} => serverQ \in Run
  BY QueueServerAssumption DEF TypeInv, ServerOK, Run

LEMMA HasServerOpen ==
  ASSUME TypeInv, NEW c \in Client, pc[c] \notin Opening \cup Ended
  PROVE  sendQ[c] \in Run
<1>1. sendQ[c] # 0 /\ sendQ[c] \in 0 .. runs /\ runs \in 0 .. MaxRuns
  BY DEF TypeInv, ClientsOK, ServerOK
<1> QED
  BY <1>1, QueueServerAssumption DEF Run

LEMMA TypesAreOK == TypeInv => TypeOK
  BY DEF TypeInv, ServerOK, QueuesOK, ClientsOK, TypeOK
-------------------------------------------------------------------------------
LEMMA InitType == Init => TypeInv
<1> SUFFICES ASSUME Init PROVE TypeInv
  OBVIOUS
<1>1. ServerOK
  <2>1. /\ NameOf \in Naming /\ clientDataArray = <<>> /\ clientQ = NULL
        /\ receivedMessage = Nothing /\ sendMessage = Nothing
        /\ serverPc = "start"
    BY DEF Init
  <2>2. runs \in 0 .. MaxRuns /\ linked \in 0 .. runs /\ serverQ \in 0 .. runs
    BY QueueServerAssumption DEF Init
  <2>3. interrupted \in BOOLEAN
    BY DEF Init
  <2>4. clientDataArray \in Seq(Client)
    BY <2>1
  <2> QED
    BY <2>1, <2>2, <2>3, <2>4 DEF ServerOK, ServerPC
<1>2. QueuesOK
  BY QueueServerAssumption DEF Init, QueuesOK
<1>3. ClientsOK
  BY QueueServerAssumption DEF Init, ClientsOK, ClientPC, Opening, Asking, Ended
<1> QED
  BY <1>1, <1>2, <1>3 DEF TypeInv

\* Started for the first time or again, the server opens a queue of this or an
\* earlier run and knows nobody.
LEMMA StartType ==
  ASSUME ServerOK, NEW from, Start(from), NameOf' = NameOf
  PROVE  ServerOK'
<1>1. /\ runs' \in 0 .. MaxRuns /\ linked' \in 0 .. runs' /\ serverQ' \in 0 .. runs'
      /\ serverQ' # 0
  <2>1. /\ runs' = runs + 1 /\ runs < MaxRuns /\ serverQ' = linked'
        /\ linked' = IF linked = 0 THEN runs + 1 ELSE linked
    BY DEF Start
  <2>2. runs \in 0 .. MaxRuns /\ linked \in 0 .. runs
    BY DEF ServerOK
  <2> QED
    BY <2>1, <2>2, QueueServerAssumption
<1>2. interrupted' \in BOOLEAN
  BY DEF Start
<1>3. /\ NameOf' \in Naming /\ serverPc' = "loop"
      /\ receivedMessage' = Nothing /\ sendMessage' = Nothing
      /\ clientDataArray' = <<>> /\ clientQ' = NULL
  BY DEF Start, ServerGoto, ServerOK
<1>4. clientDataArray' \in Seq(Client)
  BY <1>3
<1> QED
  BY <1>1, <1>2, <1>3, <1>4 DEF ServerOK, ServerPC

\* The server's steps keep its own types.
LEMMA ServerServer == TypeInv /\ ServerStep => ServerOK'
<1> SUFFICES ASSUME TypeInv, ServerStep PROVE ServerOK'
  OBVIOUS
<1> USE QueueServerAssumption DEF TypeInv, ServerOK, server, ServerPC, ServerGoto
<1>0. NameOf' = NameOf
  BY DEF ServerStep
<1>1. CASE StartServer
  BY <1>0, <1>1, StartType DEF StartServer
<1>2. CASE BlockSignals
  BY <1>0, <1>2 DEF BlockSignals, queues
<1>3. CASE Receive
  <2>1. serverQ \in Run /\ serverQueue[serverQ] \in Seq(Message)
    BY <1>3 DEF Receive, QueuesOK, Run
  <2>2. Head(serverQueue[serverQ]) \in Message
    BY <1>3, <2>1 DEF Receive
  <2> QED
    BY <1>0, <1>3, <2>2 DEF Receive
<1>4. CASE Refuse \/ ServeEndMessage \/ ServeStopMessage
  BY <1>0, <1>4 DEF Refuse, ServeEndMessage, ServeStopMessage, queues
<1>5. CASE RegisterNewClient
  <2>1. /\ receivedMessage \in Message /\ receivedMessage.pid \in Client
        /\ receivedMessage.type = "INIT" /\ receivedMessage \in Reply
    BY <1>5 DEF RegisterNewClient, Message, Reply
  <2>2. NameOf[receivedMessage.pid] \in Name
    BY <2>1
  <2>3. names[NameOf[receivedMessage.pid]] \in Client \cup {NULL}
    BY <2>2 DEF QueuesOK
  <2>4. CASE serverPc' = "gone"
    BY <1>0, <1>5, <2>4 DEF RegisterNewClient, queues
  <2>5. CASE serverPc' = "copyName"
    <3>1. /\ clientQ' \in Client /\ sendMessage' \in Reply
          /\ clientDataArray' = Append(clientDataArray, receivedMessage.pid)
          /\ serverPc = "handle" /\ receivedMessage' = Nothing
          /\ UNCHANGED <<runs, linked, serverQ, interrupted>>
      BY <1>5, <2>1, <2>3, <2>5 DEF RegisterNewClient, queues
    <3>2. clientDataArray' \in Seq(Client) /\ clientDataArray' # <<>>
      <4>1. clientDataArray \in Seq(Client) /\ receivedMessage.pid \in Client
        BY <2>1
      <4>2. /\ Append(clientDataArray, receivedMessage.pid) \in Seq(Client)
            /\ Append(clientDataArray, receivedMessage.pid) # <<>>
        BY <4>1, AppendProperties
      <4> QED
        BY <3>1, <4>2
    <3> QED
      BY <1>0, <2>5, <3>1, <3>2
  <2> QED
    BY <1>5, <2>4, <2>5 DEF RegisterNewClient
<1>6. CASE ServeTimeMessage
  <2>1. receivedMessage \in Message /\ receivedMessage.type = "TIME" /\ receivedMessage \in Reply
    BY <1>6 DEF ServeTimeMessage, Message, Reply
  <2>2. clientDataArray # <<>>
    BY <1>6 DEF ServeTimeMessage, Registered
  <2> QED
    BY <1>0, <1>6, <2>1, <2>2 DEF ServeTimeMessage, queues
<1>7. CASE SendReply
  BY <1>0, <1>7 DEF SendReply
<1>8. CASE StopServer
  BY <1>0, <1>8 DEF StopServer
<1>9. CASE CopyName
  BY <1>0, <1>9 DEF CopyName, queues
<1> QED
  BY <1>1, <1>2, <1>3, <1>4, <1>5, <1>6, <1>7, <1>8, <1>9 DEF ServerStep

\* What the server takes from, and puts into, queues keeps them in order.
LEMMA ServerQueues == TypeInv /\ ServerStep => QueuesOK'
<1> SUFFICES ASSUME TypeInv, ServerStep PROVE QueuesOK'
  OBVIOUS
<1> USE QueueServerAssumption DEF QueuesOK
<1>1. CASE StartServer \/ BlockSignals \/ Refuse \/ RegisterNewClient \/ CopyName
             \/ ServeTimeMessage \/ ServeEndMessage
  <2>1. UNCHANGED <<serverQueue, names, queue>>
    BY <1>1
    DEF StartServer, Start, BlockSignals, Refuse, RegisterNewClient, CopyName,
        ServeTimeMessage, ServeEndMessage, queues
  <2> QED
    BY <2>1 DEF TypeInv
<1>2. CASE Receive
  <2>1. /\ serverQueue' = [serverQueue EXCEPT ![serverQ] = Tail(serverQueue[serverQ])]
        /\ serverQueue[serverQ] # <<>> /\ UNCHANGED <<names, queue>>
    BY <1>2 DEF Receive
  <2>2. serverQ \in Run /\ serverQueue[serverQ] \in Seq(Message)
    BY <1>2 DEF Receive, ServerGoto, Run, TypeInv, ServerOK
  <2>3. /\ Tail(serverQueue[serverQ]) \in Seq(Message)
        /\ Len(Tail(serverQueue[serverQ])) = Len(serverQueue[serverQ]) - 1
        /\ Len(serverQueue[serverQ]) \in Nat
    BY <2>1, <2>2
  <2>4. Len(serverQueue[serverQ]) <= MaxMessages
    BY <2>2 DEF TypeInv
  <2>5. Len(Tail(serverQueue[serverQ])) <= MaxMessages
    BY <2>3, <2>4
  <2> QED
    BY <2>1, <2>2, <2>3, <2>5 DEF TypeInv
<1>3. CASE SendReply
  <2>1. /\ queue' = [queue EXCEPT ![clientQ] = Append(queue[clientQ], sendMessage)]
        /\ Len(queue[clientQ]) < MaxMessages /\ UNCHANGED <<names, serverQueue>>
    BY <1>3 DEF SendReply
  <2>2. clientQ \in Client /\ sendMessage \in Reply /\ queue[clientQ] \in Seq(Reply)
    BY <1>3 DEF SendReply, ServerGoto, TypeInv, ServerOK
  <2>3. Append(queue[clientQ], sendMessage) \in Seq(Reply)
    BY <2>2
  <2>4. Len(Append(queue[clientQ], sendMessage)) <= MaxMessages
    <3>1. Len(Append(queue[clientQ], sendMessage)) = Len(queue[clientQ]) + 1
      BY <2>2
    <3>2. Len(queue[clientQ]) \in Nat
      BY <2>2
    <3> QED
      BY <2>1, <3>1, <3>2
  <2> QED
    BY <2>1, <2>2, <2>3, <2>4 DEF TypeInv
<1>4. CASE ServeStopMessage \/ StopServer
  <2>1. UNCHANGED <<serverQueue, queue>>
    BY <1>4 DEF ServeStopMessage, StopServer
  <2>2. names' \in [Name -> Client \cup {NULL}]
    BY <1>4 DEF ServeStopMessage, StopServer, TypeInv
  <2> QED
    BY <2>1, <2>2 DEF TypeInv
<1> QED
  BY <1>1, <1>2, <1>3, <1>4 DEF ServerStep

\* The server does nothing to a client but kill it.
LEMMA ServerClients == TypeInv /\ ServerStep => ClientsOK'
<1> SUFFICES ASSUME TypeInv, ServerStep PROVE ClientsOK'
  OBVIOUS
<1> USE QueueServerAssumption DEF ClientsOK
<1>1. CASE StartServer
  <2>1. UNCHANGED <<pc, requestsLeft, ownQ, sendQ, owed>> /\ runs' = runs + 1 /\ runs \in Nat
    BY <1>1 DEF StartServer, Start, clientVars, TypeInv, ServerOK
  <2>2. sendQ \in [Client -> 0 .. runs + 1]
    BY <2>1 DEF TypeInv
  <2> QED
    BY <2>1, <2>2 DEF TypeInv
<1>2. CASE StopServer
  <2>1. /\ pc' = [c \in Client |->
                    IF c \in Registered /\ pc[c] \notin Ended THEN "killed" ELSE pc[c]]
        /\ UNCHANGED <<runs, requestsLeft, ownQ, sendQ, owed>>
    BY <1>2 DEF StopServer, server
  <2>2. pc' \in [Client -> ClientPC] /\ \A c \in Client : pc'[c] \in {pc[c], "killed"}
    BY <2>1 DEF TypeInv, ClientPC, Ended
  <2> QED
    BY <2>1, <2>2 DEF TypeInv, Opening, Asking, Ended
<1>3. CASE ~ (StartServer \/ StopServer)
  <2>1. UNCHANGED <<runs, clientVars>>
    BY <1>3
    DEF ServerStep, BlockSignals, Receive, Refuse, RegisterNewClient, CopyName,
        ServeTimeMessage, SendReply, ServeEndMessage, ServeStopMessage, queues, server
  <2> QED
    BY <2>1 DEF TypeInv, clientVars
<1> QED
  BY <1>1, <1>2, <1>3

\* A user starts the server again, or stops the server or a client.
LEMMA UserType == TypeInv /\ UserStep => TypeInv'
<1> SUFFICES ASSUME TypeInv, UserStep PROVE TypeInv'
  OBVIOUS
<1> USE QueueServerAssumption DEF TypeInv
<1>0. NameOf' = NameOf
  BY DEF UserStep
<1>1. CASE RestartServer
  <2>1. ServerOK'
    BY <1>0, <1>1, StartType DEF RestartServer
  <2>2. QueuesOK'
    BY <1>1 DEF RestartServer, Start, QueuesOK
  <2>3. ClientsOK'
    <3>1. UNCHANGED <<pc, requestsLeft, ownQ, sendQ, owed>> /\ runs' = runs + 1 /\ runs \in Nat
      BY <1>1 DEF RestartServer, Start, clientVars, ServerOK
    <3>2. sendQ \in [Client -> 0 .. runs + 1]
      BY <3>1 DEF ClientsOK
    <3> QED
      BY <3>1, <3>2 DEF ClientsOK
  <2> QED
    BY <2>1, <2>2, <2>3
<1>2. CASE InterruptServer
  BY <1>0, <1>2
  DEF InterruptServer, queues, server, serverVars, clientVars, ServerOK, QueuesOK, ClientsOK
<1>3. ASSUME NEW c \in Client, InterruptClient(c)
      PROVE  TypeInv'
  <2>1. ServerOK' /\ QueuesOK'
    BY <1>0, <1>3 DEF InterruptClient, queues, server, serverVars, ServerOK, QueuesOK
  <2>2. ClientsOK'
    <3>1. /\ pc' = [pc EXCEPT ![c] = IF pc[c] \in {"openOwn", "openServer"}
                                     THEN "killed" ELSE "sendStop"]
          /\ pc[c] \notin Ended
          /\ UNCHANGED <<runs, requestsLeft, ownQ, sendQ, owed>>
      BY <1>3 DEF InterruptClient, queues, server
    <3> QED
      BY <3>1 DEF ClientsOK, ClientPC, Ended, Opening, Asking
  <2> QED
    BY <2>1, <2>2
<1> QED
  BY <1>1, <1>2, <1>3 DEF UserStep

\* A client's steps keep the types.
LEMMA ClientType == ASSUME TypeInv, NEW c \in Client, ClientStep(c) PROVE TypeInv'
<1> USE QueueServerAssumption DEF TypeInv
<1>0. NameOf' = NameOf
  BY DEF ClientStep
<1>1. ServerOK'
  <2>1. UNCHANGED <<server, linked, serverVars, interrupted>>
    BY DEF ClientStep, OpenOwn, OpenServer, SendRequest, Send, ReceiveReply, SendEndMessage,
           CloseQueue, StopClient, queues
  <2> QED
    BY <1>0, <2>1 DEF ServerOK, server, serverVars
<1>2. CASE OpenOwn(c)
  <2>1. NameOf[c] \in Name /\ names[NameOf[c]] \in Client \cup {NULL}
    BY DEF ServerOK, QueuesOK
  <2>2. /\ UNCHANGED <<runs, serverQueue, queue, requestsLeft, sendQ, owed>>
        /\ pc[c] = "openOwn" /\ pc' = [pc EXCEPT ![c] = "openServer"]
        /\ names' = [names EXCEPT ![NameOf[c]] = c] \/ names' = names
    BY <1>2 DEF OpenOwn, Goto, server
  <2>3. PICK q \in Client : ownQ' = [ownQ EXCEPT ![c] = q]
    BY <1>2, <2>1 DEF OpenOwn
  <2>4. QueuesOK'
    <3>1. names' \in [Name -> Client \cup {NULL}]
      BY <2>1, <2>2 DEF QueuesOK
    <3> QED
      BY <2>2, <3>1 DEF QueuesOK
  <2>5. ClientsOK'
    BY <2>2, <2>3 DEF ClientsOK, ClientPC, Opening, Asking, Ended
  <2> QED
    BY <1>1, <2>4, <2>5
<1>3. CASE OpenServer(c)
  <2>1. QueuesOK'
    BY <1>3 DEF OpenServer, queues, QueuesOK
  <2>2. /\ pc[c] = "openServer" /\ sendQ' = [sendQ EXCEPT ![c] = linked]
        /\ pc' = [pc EXCEPT ![c] = IF linked # 0 THEN "sendInit" ELSE "failed"]
        /\ UNCHANGED <<runs, requestsLeft, ownQ, owed>> /\ linked \in 0 .. runs
    BY <1>3 DEF OpenServer, Goto, queues, server, ServerOK
  <2>3. ClientsOK'
    BY <2>2 DEF ClientsOK, ClientPC, Opening, Asking, Ended
  <2> QED
    BY <1>1, <2>1, <2>3
<1>4. ASSUME NEW type \in {"INIT", "TIME", "END", "STOP"}, Send(c, type),
             pc[c] \notin Opening \cup Ended
      PROVE  QueuesOK' /\ UNCHANGED <<runs, requestsLeft, ownQ, sendQ>>
  <2>1. sendQ[c] \in Run /\ serverQueue[sendQ[c]] \in Seq(Message)
    <3>1. sendQ[c] # 0 /\ sendQ[c] \in 0 .. runs
      BY <1>4 DEF ClientsOK
    <3>2. runs \in 0 .. MaxRuns
      BY DEF ServerOK
    <3>3. sendQ[c] \in Run
      BY <3>1, <3>2 DEF Run
    <3> QED
      BY <3>3 DEF QueuesOK
  <2>2. [type |-> type, pid |-> c] \in Message
    BY DEF Message
  <2> DEFINE m == Append(serverQueue[sendQ[c]], [type |-> type, pid |-> c])
  <2>3. m \in Seq(Message) /\ Len(m) = Len(serverQueue[sendQ[c]]) + 1
        /\ Len(serverQueue[sendQ[c]]) \in Nat
    BY <2>1, <2>2
  <2>4. /\ serverQueue' = [serverQueue EXCEPT ![sendQ[c]] = m]
        /\ UNCHANGED <<names, queue, runs, requestsLeft, ownQ, sendQ>>
        /\ Len(serverQueue[sendQ[c]]) < MaxMessages
    BY <1>4 DEF Send, server
  <2> HIDE DEF m
  <2>5. Len(m) <= MaxMessages
    BY <2>3, <2>4
  <2> QED
    BY <2>1, <2>3, <2>4, <2>5 DEF QueuesOK
<1>5. CASE SendRequest(c) \/ SendEndMessage(c) \/ StopClient(c)
  <2>1. PICK type \in {"INIT", "TIME", "END", "STOP"} : Send(c, type)
    BY <1>5 DEF SendRequest, SendEndMessage, StopClient
  <2>2. pc[c] \notin Opening \cup Ended
    BY <1>5 DEF SendRequest, SendEndMessage, StopClient, Goto, Opening, Ended
  <2>3. QueuesOK' /\ UNCHANGED <<runs, requestsLeft, ownQ, sendQ>>
    BY <1>4, <2>1, <2>2
  <2>4. owed' \subseteq Client
    BY <1>5 DEF SendRequest, SendEndMessage, StopClient, ClientsOK
  <2>5. pc' \in [Client -> ClientPC]
    BY <1>5 DEF SendRequest, SendEndMessage, StopClient, Goto, ClientsOK, ClientPC, Ended
  <2>6. /\ pc'[c] \in Asking => pc[c] \in Asking
        /\ pc'[c] \notin Opening /\ pc[c] \notin {"openOwn", "killed"}
        /\ \A d \in Client : d # c => pc'[d] = pc[d]
    BY <1>5 DEF SendRequest, SendEndMessage, StopClient, Goto, ClientsOK, Opening, Asking
  <2>7. ClientsOK'
    BY <2>2, <2>3, <2>4, <2>5, <2>6 DEF ClientsOK
  <2> QED
    BY <1>1, <2>3, <2>7
<1>6. CASE ReceiveReply(c)
  <2>1. ownQ[c] \in Client /\ queue[ownQ[c]] \in Seq(Reply)
    BY <1>6 DEF ReceiveReply, Goto, ClientsOK, QueuesOK
  <2>2. /\ queue' = [queue EXCEPT ![ownQ[c]] = Tail(queue[ownQ[c]])]
        /\ queue[ownQ[c]] # <<>> /\ UNCHANGED <<runs, serverQueue, names, ownQ, sendQ>>
        /\ owed' = owed \ {c}
    BY <1>6 DEF ReceiveReply, server
  <2>3. /\ Tail(queue[ownQ[c]]) \in Seq(Reply) /\ Len(queue[ownQ[c]]) \in Nat
        /\ Len(Tail(queue[ownQ[c]])) = Len(queue[ownQ[c]]) - 1
    BY <2>1, <2>2
  <2>4. Len(queue[ownQ[c]]) <= MaxMessages
    BY <2>1 DEF QueuesOK
  <2>5. Len(Tail(queue[ownQ[c]])) <= MaxMessages
    BY <2>3, <2>4
  <2>6. QueuesOK'
    BY <2>1, <2>2, <2>3, <2>5 DEF QueuesOK
  <2>7. CASE Goto(c, "receiveInit", "sendTime") /\ UNCHANGED requestsLeft
    BY <1>1, <2>2, <2>6, <2>7
    DEF ClientsOK, ClientPC, Goto, Opening, Asking, Ended
  <2>8. CASE /\ Goto(c, "receiveTime", IF requestsLeft[c] > 1 THEN "sendTime" ELSE "sendEnd")
             /\ requestsLeft' = [requestsLeft EXCEPT ![c] = requestsLeft[c] - 1]
    <3>1. requestsLeft[c] \in 1 .. Requests /\ pc[c] = "receiveTime"
      BY <2>8 DEF Goto, ClientsOK, Asking
    <3> QED
      BY <1>1, <2>2, <2>6, <2>8, <3>1
      DEF ClientsOK, ClientPC, Goto, Opening, Asking, Ended
  <2> QED
    BY <1>6, <2>7, <2>8 DEF ReceiveReply
<1>7. CASE CloseQueue(c)
  <2>1. QueuesOK'
    BY <1>7 DEF CloseQueue, QueuesOK
  <2>2. ClientsOK'
    BY <1>7 DEF CloseQueue, Goto, server, ClientsOK, ClientPC, Opening, Asking, Ended
  <2> QED
    BY <1>1, <2>1, <2>2
<1> QED
  BY <1>2, <1>3, <1>5, <1>6, <1>7 DEF ClientStep

(* The types are right, for every number of clients: no queue ever holds     *)
(* more than it may, whoever reads and writes it.                            *)
THEOREM TypeCorrect == Spec => []TypeInv
<1>1. TypeInv /\ [Next]_vars => TypeInv'
  <2>1. TypeInv /\ Next => TypeInv'
    BY ServerServer, ServerQueues, ServerClients, UserType, ClientType DEF TypeInv, Next
  <2>2. TypeInv /\ UNCHANGED vars => TypeInv'
    BY DEF vars, queues, server, serverVars, clientVars, TypeInv, ServerOK, QueuesOK, ClientsOK
  <2> QED
    BY <2>1, <2>2
<1> QED
  BY InitType, <1>1, PTL DEF Spec
-------------------------------------------------------------------------------
(* A client that is about to ask has no request under way: it reads a reply  *)
(* between two requests.                                                     *)
Unasked    == {"openOwn", "openServer", "sendInit", "sendTime"}
AnswersInv == AnswersBounded /\ \A c \in Client : pc[c] \in Unasked => c \notin owed

Hand == IF InHand THEN 1 ELSE 0

LEMMA AskedIs ==
  \A p : p \in Asked <=> \E q \in Run : \E i \in Requested(serverQueue[q]) : p = <<q, i>>
  BY DEF Asked

LEMMA AnsweredIs ==
  \A p : p \in Answered <=> \E c \in Client : \E i \in DOMAIN queue[c] : p = <<c, i>>
  BY DEF Answered

\* All three sets are finite, because the queues are bounded.
LEMMA Sizes ==
  TypeInv => /\ IsFiniteSet(Asked) /\ IsFiniteSet(Answered) /\ IsFiniteSet(owed)
             /\ Cardinality(Asked) \in Nat /\ Cardinality(Answered) \in Nat
             /\ Cardinality(owed) \in Nat
<1> SUFFICES ASSUME TypeInv
             PROVE  IsFiniteSet(Asked) /\ IsFiniteSet(Answered) /\ IsFiniteSet(owed)
  BY FS_CardinalityType
<1>1. MaxMessages \in Nat /\ MaxRuns \in Nat /\ IsFiniteSet(Client)
  BY QueueServerAssumption
<1>2. IsFiniteSet(Run) /\ IsFiniteSet(1 .. MaxMessages)
  BY <1>1, FS_Interval DEF Run
<1>3. Asked \subseteq Run \X (1 .. MaxMessages)
  <2>1. \A q \in Run : Requested(serverQueue[q]) \subseteq 1 .. MaxMessages
    <3>1. ASSUME NEW q \in Run PROVE DOMAIN serverQueue[q] \subseteq 1 .. MaxMessages
      <4>1. serverQueue[q] \in Seq(Message) /\ Len(serverQueue[q]) <= MaxMessages
        BY DEF TypeInv, QueuesOK
      <4>2. DOMAIN serverQueue[q] = 1 .. Len(serverQueue[q]) /\ Len(serverQueue[q]) \in Nat
        BY <4>1
      <4> QED
        BY <1>1, <4>1, <4>2
    <3> QED
      BY <3>1 DEF Requested
  <2> QED
    BY <2>1, AskedIs
<1>4. Answered \subseteq Client \X (1 .. MaxMessages)
  <2>1. ASSUME NEW c \in Client PROVE DOMAIN queue[c] \subseteq 1 .. MaxMessages
    <3>1. queue[c] \in Seq(Reply) /\ Len(queue[c]) <= MaxMessages
      BY DEF TypeInv, QueuesOK
    <3>2. DOMAIN queue[c] = 1 .. Len(queue[c]) /\ Len(queue[c]) \in Nat
      BY <3>1
    <3> QED
      BY <1>1, <3>1, <3>2
  <2> QED
    BY <2>1, AnsweredIs
<1>5. owed \subseteq Client
  BY DEF TypeInv, ClientsOK
<1> QED
  BY <1>1, <1>2, <1>3, <1>4, <1>5, FS_Product, FS_Subset

\* The next message leaves the server's queue: what is behind it moves up.
LEMMA TakeRequest ==
  ASSUME TypeInv, TypeInv', NEW q \in Run, serverQueue[q] # <<>>,
         serverQueue' = [serverQueue EXCEPT ![q] = Tail(serverQueue[q])]
  PROVE  /\ Cardinality(Asked') <= Cardinality(Asked)
         /\ Head(serverQueue[q]).type \in {"INIT", "TIME"} =>
              Cardinality(Asked') <= Cardinality(Asked) - 1
<1> DEFINE S  == Asked \ {<<q, 1>>}
           F  == [p \in Asked' |-> IF p[1] = q THEN <<q, p[2] + 1>> ELSE p]
<1>1. serverQueue \in [Run -> Seq(Message)]
  BY DEF TypeInv, QueuesOK
<1>2. /\ serverQueue[q] \in Seq(Message) /\ Tail(serverQueue[q]) \in Seq(Message)
      /\ Len(serverQueue[q]) \in Nat /\ Len(serverQueue[q]) > 0
      /\ DOMAIN serverQueue[q] = 1 .. Len(serverQueue[q])
      /\ DOMAIN Tail(serverQueue[q]) = 1 .. Len(serverQueue[q]) - 1
      /\ \A i \in 1 .. Len(serverQueue[q]) - 1 : Tail(serverQueue[q])[i] = serverQueue[q][i + 1]
      /\ Head(serverQueue[q]) = serverQueue[q][1]
  BY <1>1
<1>3. /\ serverQueue'[q] = Tail(serverQueue[q])
      /\ \A r \in Run : r # q => serverQueue'[r] = serverQueue[r]
  BY <1>1
<1>4. \A p : p \in Asked' <=>
        \E r \in Run : \E i \in Requested(serverQueue'[r]) : p = <<r, i>>
  BY DEF Asked, Requested
<1>5. \A i \in Requested(serverQueue'[q]) :
        i \in Nat /\ i + 1 # 1 /\ i + 1 \in Requested(serverQueue[q])
  <2> SUFFICES ASSUME NEW i \in Requested(serverQueue'[q])
               PROVE  i \in Nat /\ i + 1 # 1 /\ i + 1 \in Requested(serverQueue[q])
    OBVIOUS
  <2>1. i \in DOMAIN Tail(serverQueue[q]) /\ Tail(serverQueue[q])[i].type \in {"INIT", "TIME"}
    BY <1>3 DEF Requested
  <2>2. i \in 1 .. Len(serverQueue[q]) - 1
    BY <1>2, <2>1
  <2>3. i \in Nat /\ i + 1 # 1 /\ i + 1 \in DOMAIN serverQueue[q]
    BY <1>2, <2>2
  <2>4. Tail(serverQueue[q])[i] = serverQueue[q][i + 1]
    BY <1>2, <2>2
  <2> QED
    BY <2>1, <2>3, <2>4 DEF Requested
<1>6. ASSUME NEW p \in Asked'
      PROVE  /\ F[p] \in S
             /\ \/ \E i \in Nat : p = <<q, i>> /\ F[p] = <<q, i + 1>>
                \/ p[1] # q /\ F[p] = p /\ F[p][1] # q
  <2>0. PICK r \in Run : \E i \in Requested(serverQueue'[r]) : p = <<r, i>>
    BY <1>4
  <2>1. PICK i \in Requested(serverQueue'[r]) : p = <<r, i>>
    BY <2>0
  <2>2. CASE r = q
    BY <1>5, <2>1, <2>2, AskedIs
  <2>3. CASE r # q
    <3>1. p \in Asked
      BY <1>3, <2>1, <2>3, AskedIs
    <3> QED
      BY <2>1, <2>3, <3>1
  <2> QED
    BY <2>2, <2>3
<1> HIDE DEF F
<1>7. F \in Injection(Asked', S)
  <2>1. F \in [Asked' -> S]
    BY <1>6 DEF F
  <2>2. ASSUME NEW a \in Asked', NEW b \in Asked', F[a] = F[b] PROVE a = b
    BY <1>6, <2>2
  <2> QED
    BY <2>1, <2>2, Fun_IsInj
<1>8. IsFiniteSet(Asked) /\ Cardinality(Asked) \in Nat
  BY Sizes
<1>9. /\ IsFiniteSet(S)
      /\ Cardinality(S) = IF <<q, 1>> \in Asked THEN Cardinality(Asked) - 1 ELSE Cardinality(Asked)
  BY <1>8, FS_RemoveElement
<1>10. Cardinality(Asked') <= Cardinality(S)
  BY <1>7, <1>9, FS_Injection
<1>11. (TypeInv => Cardinality(Asked) \in Nat)'
  BY Sizes, PTL
<1>12. Cardinality(Asked') \in Nat
  BY <1>11
<1>13. Head(serverQueue[q]).type \in {"INIT", "TIME"} => <<q, 1>> \in Asked
  BY <1>2, AskedIs DEF Requested
<1> HIDE DEF S
<1> QED
  BY <1>8, <1>9, <1>10, <1>12, <1>13

\* A message is added behind the others; only a request counts.
LEMMA AddMessage ==
  ASSUME TypeInv, TypeInv', NEW q \in Run, NEW m \in Message,
         serverQueue' = [serverQueue EXCEPT ![q] = Append(serverQueue[q], m)]
  PROVE  /\ Cardinality(Asked') <= Cardinality(Asked) + 1
         /\ m.type \notin {"INIT", "TIME"} => Cardinality(Asked') <= Cardinality(Asked)
<1> DEFINE n == Len(serverQueue[q]) + 1
<1>1. serverQueue \in [Run -> Seq(Message)]
  BY DEF TypeInv, QueuesOK
<1>2. /\ DOMAIN Append(serverQueue[q], m) = 1 .. n /\ DOMAIN serverQueue[q] = 1 .. n - 1
      /\ n \in Nat
      /\ \A i \in 1 .. n - 1 : Append(serverQueue[q], m)[i] = serverQueue[q][i]
      /\ Append(serverQueue[q], m)[n] = m
  <2>1. serverQueue[q] \in Seq(Message)
    BY <1>1
  <2>2. Len(serverQueue[q]) \in Nat /\ Len(Append(serverQueue[q], m)) = n
    BY <2>1
  <2> QED
    BY <2>1, <2>2
<1>3. /\ serverQueue'[q] = Append(serverQueue[q], m)
      /\ \A r \in Run : r # q => serverQueue'[r] = serverQueue[r]
  BY <1>1
<1> HIDE DEF n
<1>4. \A i \in 1 .. n : i \in 1 .. n - 1 \/ i = n
  BY <1>2
<1>5. \A i \in Requested(serverQueue'[q]) :
        i \in Requested(serverQueue[q]) \/ (i = n /\ m.type \in {"INIT", "TIME"})
  BY <1>2, <1>3, <1>4 DEF Requested
<1>6. \A p : p \in Asked' => \E r \in Run : \E i \in Requested(serverQueue'[r]) : p = <<r, i>>
  BY DEF Asked, Requested
<1>7. ASSUME NEW p \in Asked' PROVE p \in Asked \/ (p = <<q, n>> /\ m.type \in {"INIT", "TIME"})
  <2>0. PICK r \in Run : \E i \in Requested(serverQueue'[r]) : p = <<r, i>>
    BY <1>6
  <2>1. PICK i \in Requested(serverQueue'[r]) : p = <<r, i>>
    BY <2>0
  <2>2. CASE r = q
    BY <1>5, <2>1, <2>2, AskedIs
  <2>3. CASE r # q
    BY <1>3, <2>1, <2>3, AskedIs
  <2> QED
    BY <2>2, <2>3
<1>8. IsFiniteSet(Asked) /\ Cardinality(Asked) \in Nat
  BY Sizes
<1>9. /\ IsFiniteSet(Asked \cup {<<q, n>>})
      /\ Cardinality(Asked \cup {<<q, n>>}) =
           IF <<q, n>> \in Asked THEN Cardinality(Asked) ELSE Cardinality(Asked) + 1
  BY <1>8, FS_AddElement
<1>10. Cardinality(Asked') <= Cardinality(Asked \cup {<<q, n>>})
  BY <1>7, <1>9, FS_Subset
<1>11. m.type \notin {"INIT", "TIME"} => Cardinality(Asked') <= Cardinality(Asked)
  BY <1>7, <1>8, FS_Subset
<1>12. (TypeInv => Cardinality(Asked) \in Nat)'
  BY Sizes, PTL
<1>13. Cardinality(Asked') \in Nat
  BY <1>12
<1> QED
  BY <1>8, <1>9, <1>10, <1>11, <1>13

\* A reply is added behind the others, or the first is taken: the places that are
\* in use become one more or one less.
LEMMA AddReply ==
  ASSUME TypeInv, NEW q \in Client, NEW m \in Reply,
         queue' = [queue EXCEPT ![q] = Append(queue[q], m)]
  PROVE  Cardinality(Answered') <= Cardinality(Answered) + 1
<1> DEFINE n == Len(queue[q]) + 1
<1>1. queue \in [Client -> Seq(Reply)]
  BY DEF TypeInv, QueuesOK
<1>2. /\ DOMAIN Append(queue[q], m) = (DOMAIN queue[q]) \cup {n}
  <2>1. queue[q] \in Seq(Reply)
    BY <1>1
  <2>2. Len(queue[q]) \in Nat /\ Len(Append(queue[q], m)) = n
    BY <2>1
  <2>3. DOMAIN Append(queue[q], m) = 1 .. n /\ DOMAIN queue[q] = 1 .. n - 1
    BY <2>1, <2>2
  <2> QED
    BY <2>2, <2>3
<1>3. \A c \in Client : queue'[c] = IF c = q THEN Append(queue[q], m) ELSE queue[c]
  BY <1>1
<1> HIDE DEF n
<1>4. \A p : p \in Answered' <=> \E c \in Client : \E i \in DOMAIN queue'[c] : p = <<c, i>>
  BY DEF Answered
<1>5. Answered' = Answered \cup {<<q, n>>}
  <2>1. ASSUME NEW p \in Answered' PROVE p \in Answered \cup {<<q, n>>}
    <3>1. PICK c \in Client : \E i \in DOMAIN queue'[c] : p = <<c, i>>
      BY <1>4
    <3> QED
      BY <1>2, <1>3, <3>1, AnsweredIs
  <2>2. ASSUME NEW p \in Answered \cup {<<q, n>>} PROVE p \in Answered'
    <3>1. CASE p = <<q, n>>
      <4>1. n \in DOMAIN queue'[q]
        BY <1>2, <1>3
      <4> QED
        BY <1>4, <3>1, <4>1
    <3>2. CASE p \in Answered
      <4>1. PICK c \in Client : \E i \in DOMAIN queue[c] : p = <<c, i>>
        BY <3>2, AnsweredIs
      <4>2. \E i \in DOMAIN queue'[c] : p = <<c, i>>
        BY <1>2, <1>3, <4>1
      <4> QED
        BY <1>4, <4>2
    <3> QED
      BY <2>2, <3>1, <3>2
  <2> QED
    BY <2>1, <2>2
<1>6. /\ Cardinality(Answered) \in Nat
      /\ Cardinality(Answered') =
           IF <<q, n>> \in Answered THEN Cardinality(Answered) ELSE Cardinality(Answered) + 1
  BY <1>5, Sizes, FS_AddElement
<1> QED
  BY <1>6

LEMMA TakeReply ==
  ASSUME TypeInv, NEW q \in Client, queue[q] # <<>>,
         queue' = [queue EXCEPT ![q] = Tail(queue[q])]
  PROVE  Cardinality(Answered') = Cardinality(Answered) - 1
<1> DEFINE n == Len(queue[q])
<1>1. queue \in [Client -> Seq(Reply)]
  BY DEF TypeInv, QueuesOK
<1>2. DOMAIN Tail(queue[q]) = (DOMAIN queue[q]) \ {n} /\ n \in DOMAIN queue[q]
  <2>1. queue[q] \in Seq(Reply)
    BY <1>1
  <2>2. n \in Nat /\ n > 0 /\ Len(Tail(queue[q])) = n - 1
    BY <2>1
  <2>3. DOMAIN Tail(queue[q]) = 1 .. n - 1 /\ DOMAIN queue[q] = 1 .. n
    BY <2>1, <2>2
  <2> QED
    BY <2>2, <2>3
<1>3. \A c \in Client : queue'[c] = IF c = q THEN Tail(queue[q]) ELSE queue[c]
  BY <1>1
<1> HIDE DEF n
<1>4. \A p : p \in Answered' <=> \E c \in Client : \E i \in DOMAIN queue'[c] : p = <<c, i>>
  BY DEF Answered
<1>5. Answered' = Answered \ {<<q, n>>}
  <2>1. ASSUME NEW p \in Answered' PROVE p \in Answered \ {<<q, n>>}
    <3>1. PICK c \in Client : \E i \in DOMAIN queue'[c] : p = <<c, i>>
      BY <1>4
    <3>2. CASE c = q
      <4>1. PICK i \in (DOMAIN queue[q]) \ {n} : p = <<q, i>>
        BY <1>2, <1>3, <3>1, <3>2
      <4>2. p # <<q, n>> /\ p \in Answered
        BY <4>1, AnsweredIs
      <4> QED
        BY <4>2
    <3>3. CASE c # q
      BY <1>3, <3>1, <3>3, AnsweredIs
    <3> QED
      BY <3>2, <3>3
  <2>2. ASSUME NEW p \in Answered, p # <<q, n>> PROVE p \in Answered'
    <3>1. PICK c \in Client : \E i \in DOMAIN queue[c] : p = <<c, i>>
      BY AnsweredIs
    <3>2. \E i \in DOMAIN queue'[c] : p = <<c, i>>
      BY <1>2, <1>3, <2>2, <3>1
    <3> QED
      BY <1>4, <3>2
  <2> QED
    BY <2>1, <2>2
<1>6. <<q, n>> \in Answered
  BY <1>2, AnsweredIs
<1> QED
  BY <1>5, <1>6, Sizes, FS_RemoveElement

\* Where nothing is asked and nothing answered, a request in hand may be dropped.
LEMMA Quiet ==
  ASSUME TypeInv, AnswersInv, UNCHANGED <<serverQueue, queue, owed>>, InHand' => InHand,
         \A c \in Client : pc'[c] \in Unasked => pc[c] \in Unasked
  PROVE  AnswersInv'
<1>1. Asked' = Asked /\ Answered' = Answered
  BY DEF Asked, Answered, Requested
<1>2. Hand \in {0, 1} /\ Hand' \in {0, 1} /\ Hand' <= Hand
  BY DEF Hand
<1>3. Cardinality(Asked) + Hand + Cardinality(Answered) <= Cardinality(owed)
  BY DEF AnswersInv, AnswersBounded, Hand
<1>4. Cardinality(Asked') + Hand' + Cardinality(Answered') <= Cardinality(owed')
  BY <1>1, <1>2, <1>3, Sizes
<1> QED
  BY <1>4 DEF AnswersInv, AnswersBounded, Hand

\* Every clause of the budget of answers changes as the step says.
LEMMA Budget ==
  ASSUME TypeInv, TypeInv', AnswersInv,
         NEW a \in Int, NEW h \in Int, NEW w \in Int, NEW o \in Int,
         Cardinality(Asked') <= Cardinality(Asked) + a, Hand' <= Hand + h,
         Cardinality(Answered') <= Cardinality(Answered) + w,
         Cardinality(owed') >= Cardinality(owed) + o, a + h + w <= o
  PROVE  AnswersBounded'
<1>1. /\ Cardinality(Asked) \in Nat /\ Cardinality(Answered) \in Nat /\ Cardinality(owed) \in Nat
      /\ Hand \in Nat
  BY Sizes DEF Hand
<1>2. (TypeInv => /\ Cardinality(Asked) \in Nat /\ Cardinality(Answered) \in Nat
                  /\ Cardinality(owed) \in Nat)'
  BY Sizes, PTL
<1>3. /\ Cardinality(Asked') \in Nat /\ Cardinality(Answered') \in Nat
      /\ Cardinality(owed') \in Nat /\ Hand' \in Nat
  BY <1>2 DEF Hand
<1>4. Cardinality(Asked) + Hand + Cardinality(Answered) <= Cardinality(owed)
  BY DEF AnswersInv, AnswersBounded, Hand
<1>5. Cardinality(Asked') + Hand' + Cardinality(Answered') <= Cardinality(owed')
  BY <1>1, <1>3, <1>4
<1> QED
  BY <1>5 DEF AnswersBounded, Hand

LEMMA AnswersInit == Init => AnswersInv
<1> SUFFICES ASSUME Init PROVE AnswersInv
  OBVIOUS
<1>1. Asked = {}
  BY DEF Init, Asked, Requested
<1>2. Answered = {}
  BY DEF Init, Answered
<1>3. owed = {} /\ ~ InHand
  BY DEF Init, InHand
<1>4. Cardinality({}) = 0
  BY FS_EmptySet
<1> QED
  BY <1>1, <1>2, <1>3, <1>4 DEF AnswersInv, AnswersBounded

LEMMA AnswersServer ==
  ASSUME TypeInv, TypeInv', AnswersInv, ServerStep \/ RestartServer \/ InterruptServer
  PROVE  AnswersInv'
<1>1. CASE StartServer \/ RestartServer \/ BlockSignals \/ Refuse \/ RegisterNewClient
           \/ CopyName \/ ServeTimeMessage \/ ServeEndMessage \/ ServeStopMessage \/ InterruptServer
  <2>1. UNCHANGED <<serverQueue, queue, owed, pc>>
    BY <1>1
    DEF StartServer, RestartServer, Start, BlockSignals, Refuse, RegisterNewClient,
        CopyName, ServeTimeMessage, ServeEndMessage, ServeStopMessage, InterruptServer,
        queues, clientVars
  <2>2. InHand' => InHand
    BY <1>1
    DEF StartServer, RestartServer, Start, BlockSignals, Refuse, RegisterNewClient,
        CopyName, ServeTimeMessage, ServeEndMessage, ServeStopMessage, InterruptServer,
        serverVars, ServerGoto, InHand
  <2> QED
    BY <2>1, <2>2, Quiet
<1>2. CASE StopServer
  <2>1. UNCHANGED <<serverQueue, queue, owed>> /\ ~ InHand'
    BY <1>2 DEF StopServer, InHand
  <2>2. pc' = [c \in Client |-> IF c \in Registered /\ pc[c] \notin Ended
                                THEN "killed" ELSE pc[c]]
    BY <1>2 DEF StopServer
  <2>3. \A c \in Client : pc'[c] \in Unasked => pc[c] \in Unasked
    BY <2>2 DEF Unasked
  <2> QED
    BY <2>1, <2>3, Quiet
<1>3. CASE Receive
  <2>1. /\ serverQueue[serverQ] # <<>>
        /\ serverQueue' = [serverQueue EXCEPT ![serverQ] = Tail(serverQueue[serverQ])]
        /\ UNCHANGED <<queue, owed, pc>>
        /\ receivedMessage' = Head(serverQueue[serverQ])
        /\ serverPc = "receive" /\ serverPc' = "handle"
    BY <1>3 DEF Receive, clientVars, ServerGoto
  <2>2. serverQ \in Run
    BY <2>1, ServerHasOpen
  <2> DEFINE request == Head(serverQueue[serverQ]).type \in {"INIT", "TIME"}
             n == IF request THEN 1 ELSE 0
  <2>3. Hand' <= Hand + n /\ n \in {0, 1}
    BY <2>1 DEF Hand, InHand
  <2>4. Cardinality(Asked') <= Cardinality(Asked) + (-n)
    <3>1. /\ Cardinality(Asked') <= Cardinality(Asked)
          /\ request => Cardinality(Asked') <= Cardinality(Asked) - 1
      BY <2>1, <2>2, TakeRequest
    <3>2. Cardinality(Asked) \in Nat
      BY Sizes
    <3> QED
      BY <3>1, <3>2
  <2>5. Answered' = Answered
    BY <2>1 DEF Answered
  <2>6. /\ Cardinality(Answered) \in Nat /\ Cardinality(owed) \in Nat
    BY Sizes
  <2>7. AnswersBounded'
    <3> HIDE DEF n
    <3>1. -n \in Int /\ n \in Int /\ (-n) + n + 0 <= 0
      BY <2>3
    <3>2. /\ Cardinality(Answered') <= Cardinality(Answered) + 0
          /\ Cardinality(owed') >= Cardinality(owed) + 0
      BY <2>1, <2>5, <2>6
    <3> QED
      BY <2>3, <2>4, <3>1, <3>2, Budget
  <2> QED
    BY <2>1, <2>7 DEF AnswersInv
<1>4. CASE SendReply
  <2>1. /\ queue' = [queue EXCEPT ![clientQ] = Append(queue[clientQ], sendMessage)]
        /\ UNCHANGED <<serverQueue, owed, pc>>
        /\ serverPc = "send" /\ serverPc' = "loop"
    BY <1>4 DEF SendReply, clientVars, ServerGoto
  <2>2. clientQ \in Client /\ sendMessage \in Reply
    BY <2>1 DEF TypeInv, ServerOK
  <2>3. Cardinality(Answered') <= Cardinality(Answered) + 1
    BY <2>1, <2>2, AddReply
  <2>4. Hand' <= Hand + (-1)
    BY <2>1 DEF Hand, InHand
  <2>5. Asked' = Asked
    BY <2>1 DEF Asked, Requested
  <2>6. Cardinality(Asked) \in Nat /\ Cardinality(owed) \in Nat
    BY Sizes
  <2>7. AnswersBounded'
    <3>1. /\ Cardinality(Asked') <= Cardinality(Asked) + 0
          /\ Cardinality(owed') >= Cardinality(owed) + 0
      BY <2>1, <2>5, <2>6
    <3> QED
      BY <2>3, <2>4, <3>1, Budget
  <2> QED
    BY <2>1, <2>7 DEF AnswersInv
<1> QED
  BY <1>1, <1>2, <1>3, <1>4 DEF ServerStep

LEMMA AnswersClient ==
  ASSUME TypeInv, TypeInv', AnswersInv, NEW c \in Client, ClientStep(c) \/ InterruptClient(c)
  PROVE  AnswersInv'
<1>0. pc \in [Client -> ClientPC] /\ owed \subseteq Client
  BY DEF TypeInv, ClientsOK
<1>1. CASE OpenOwn(c) \/ OpenServer(c) \/ CloseQueue(c) \/ InterruptClient(c)
  <2>1. UNCHANGED <<serverQueue, queue, owed, serverVars>>
    BY <1>1 DEF OpenOwn, OpenServer, CloseQueue, InterruptClient, queues
  <2>2. InHand' <=> InHand
    BY <2>1 DEF InHand, serverVars
  <2>3. \A d \in Client : pc'[d] \in Unasked => pc[d] \in Unasked
    BY <1>0, <1>1 DEF OpenOwn, OpenServer, CloseQueue, InterruptClient, Goto, Unasked
  <2> QED
    BY <2>1, <2>2, <2>3, Quiet
<1>2. ASSUME NEW type \in {"INIT", "TIME", "END", "STOP"}, Send(c, type),
             pc[c] \notin Opening \cup Ended
      PROVE  /\ Cardinality(Asked') <= Cardinality(Asked) + 1
             /\ type \notin {"INIT", "TIME"} => Cardinality(Asked') <= Cardinality(Asked) + 0
             /\ Hand' <= Hand + 0 /\ Cardinality(Answered') <= Cardinality(Answered) + 0
  <2>1. sendQ[c] \in Run
    BY <1>2, HasServerOpen
  <2> DEFINE m == [type |-> type, pid |-> c]
  <2>2. m \in Message /\ m.type = type
    BY DEF Message
  <2>3. /\ serverQueue' = [serverQueue EXCEPT ![sendQ[c]] = Append(serverQueue[sendQ[c]], m)]
        /\ UNCHANGED <<queue, serverVars>>
    BY <1>2 DEF Send
  <2>4. Answered' = Answered /\ Hand' = Hand
    BY <2>3 DEF Answered, Hand, InHand, serverVars
  <2>5. /\ Cardinality(Asked) \in Nat /\ Cardinality(Answered) \in Nat /\ Hand \in {0, 1}
    BY Sizes DEF Hand
  <2>6. /\ Cardinality(Asked') <= Cardinality(Asked) + 1
        /\ m.type \notin {"INIT", "TIME"} => Cardinality(Asked') <= Cardinality(Asked)
    BY <2>1, <2>2, <2>3, AddMessage
  <2> HIDE DEF m
  <2> QED
    BY <2>2, <2>4, <2>5, <2>6
<1>3. CASE SendRequest(c)
  <2>1. PICK type \in {"INIT", "TIME"} : Send(c, type)
    BY <1>3 DEF SendRequest
  <2>2. /\ owed' = owed \cup {c} /\ pc[c] \in {"sendInit", "sendTime"}
        /\ pc' = [pc EXCEPT ![c] = IF pc[c] = "sendInit" THEN "receiveInit" ELSE "receiveTime"]
    BY <1>3 DEF SendRequest, Goto
  <2>3. c \notin owed
    BY <2>2 DEF AnswersInv, Unasked
  <2>4. Cardinality(owed') = Cardinality(owed) + 1 /\ Cardinality(owed) \in Nat
    BY <2>2, <2>3, Sizes, FS_AddElement
  <2>5. /\ Cardinality(Asked') <= Cardinality(Asked) + 1 /\ Hand' <= Hand + 0
        /\ Cardinality(Answered') <= Cardinality(Answered) + 0
    BY <1>2, <2>1, <2>2 DEF Opening, Ended
  <2>6. Cardinality(owed') >= Cardinality(owed) + 1
    BY <2>4
  <2>7. AnswersBounded'
    BY <2>5, <2>6, Budget
  <2>8. \A d \in Client : pc'[d] \in Unasked => d \notin owed'
    BY <1>0, <2>2 DEF AnswersInv, Unasked
  <2> QED
    BY <2>7, <2>8 DEF AnswersInv
<1>4. CASE SendEndMessage(c) \/ StopClient(c)
  <2>1. PICK type \in {"END", "STOP"} : Send(c, type)
    BY <1>4 DEF SendEndMessage, StopClient
  <2>2. /\ owed' = owed /\ pc[c] \in {"sendEnd", "sendStop"}
        /\ pc' = [pc EXCEPT ![c] = IF pc[c] = "sendEnd" THEN "closeQueue" ELSE "exited"]
    BY <1>4 DEF SendEndMessage, StopClient, Goto
  <2>3. /\ Cardinality(Asked') <= Cardinality(Asked) + 0 /\ Hand' <= Hand + 0
        /\ Cardinality(Answered') <= Cardinality(Answered) + 0
    BY <1>2, <2>1, <2>2 DEF Opening, Ended
  <2>4. Cardinality(owed') >= Cardinality(owed) + 0
    BY <2>2, Sizes
  <2>5. AnswersBounded'
    BY <2>3, <2>4, Budget
  <2>6. \A d \in Client : pc'[d] \in Unasked => d \notin owed'
    BY <1>0, <2>2 DEF AnswersInv, Unasked
  <2> QED
    BY <2>5, <2>6 DEF AnswersInv
<1>5. CASE ReceiveReply(c)
  <2>1. /\ queue[ownQ[c]] # <<>> /\ owed' = owed \ {c}
        /\ queue' = [queue EXCEPT ![ownQ[c]] = Tail(queue[ownQ[c]])]
        /\ UNCHANGED <<serverQueue, serverVars, ownQ>>
        /\ pc[c] \in {"receiveInit", "receiveTime"}
        /\ \A d \in Client : d # c => pc'[d] = pc[d]
    BY <1>0, <1>5 DEF ReceiveReply, Goto
  <2>2. ownQ[c] \in Client
    BY <2>1 DEF TypeInv, ClientsOK
  <2>3. Cardinality(Answered') = Cardinality(Answered) - 1
    BY <2>1, <2>2, TakeReply
  <2>4. Asked' = Asked /\ Hand' = Hand
    BY <2>1 DEF Asked, Requested, Hand, InHand, serverVars
  <2>5. /\ Cardinality(Asked) \in Nat /\ Cardinality(Answered) \in Nat /\ Hand \in {0, 1}
        /\ Cardinality(owed) \in Nat
    BY Sizes DEF Hand
  <2>6. Cardinality(owed') = IF c \in owed THEN Cardinality(owed) - 1 ELSE Cardinality(owed)
    BY <2>1, Sizes, FS_RemoveElement
  <2>7. /\ Cardinality(Asked') <= Cardinality(Asked) + 0 /\ Hand' <= Hand + 0
        /\ Cardinality(Answered') <= Cardinality(Answered) + (-1)
        /\ Cardinality(owed') >= Cardinality(owed) + (-1)
    BY <2>3, <2>4, <2>5, <2>6
  <2>8. AnswersBounded'
    BY <2>7, Budget
  <2>9. \A d \in Client : pc'[d] \in Unasked => d \notin owed'
    BY <2>1 DEF AnswersInv
  <2> QED
    BY <2>8, <2>9 DEF AnswersInv
<1> QED
  BY <1>1, <1>3, <1>4, <1>5 DEF ClientStep

(* A request is answered at most once: requests and replies under way are    *)
(* never more than clients that asked and read no reply, in whatever order    *)
(* the clients and any number of servers take their turns.                   *)
THEOREM AnswersHold == Spec => []AnswersBounded
<1>1. TypeInv /\ TypeInv' /\ AnswersInv /\ [Next]_vars => AnswersInv'
  <2>1. TypeInv /\ TypeInv' /\ AnswersInv /\ Next => AnswersInv'
    BY AnswersServer, AnswersClient DEF Next, UserStep
  <2>2. TypeInv /\ AnswersInv /\ UNCHANGED vars => AnswersInv'
    <3> SUFFICES ASSUME TypeInv, AnswersInv, UNCHANGED vars PROVE AnswersInv'
      OBVIOUS
    <3>1. UNCHANGED <<serverQueue, queue, owed, pc>> /\ (InHand' => InHand)
      BY DEF vars, queues, serverVars, clientVars, InHand
    <3> QED
      BY <3>1, Quiet
  <2> QED
    BY <2>1, <2>2
<1>2. AnswersInv => AnswersBounded
  BY DEF AnswersInv
<1> QED
  BY AnswersInit, TypeCorrect, <1>1, <1>2, PTL DEF Spec

(* With room for one message of every client, no queue is ever full when the *)
(* server sends to it, whoever's queue it is; all that QueuesInv says.       *)
THEOREM QueuesInvHolds ==
  ASSUME Cardinality(Client) <= MaxMessages
  PROVE  Spec => []QueuesInv
<1>1. TypeInv /\ AnswersBounded => NeverBlockedInSend
  <2> SUFFICES ASSUME TypeInv, AnswersBounded, serverPc = "send"
               PROVE  Len(queue[clientQ]) < MaxMessages
    BY DEF NeverBlockedInSend
  <2>1. clientQ \in Client /\ queue[clientQ] \in Seq(Reply)
    BY DEF TypeInv, ServerOK, QueuesOK
  <2> DEFINE n == Len(queue[clientQ])
  <2>2. n \in Nat /\ DOMAIN queue[clientQ] = 1 .. n
    BY <2>1
  <2> DEFINE F == [i \in 1 .. n |-> <<clientQ, i>>]
  <2> HIDE DEF n
  <2>3. F \in Injection(1 .. n, Answered)
    <3>1. \A i \in 1 .. n : <<clientQ, i>> \in Answered
      BY <2>1, <2>2, AnsweredIs
    <3>2. F \in [1 .. n -> Answered]
      BY <3>1
    <3>3. \A i, j \in 1 .. n : F[i] = F[j] => i = j
      OBVIOUS
    <3> HIDE DEF F
    <3> QED
      BY <3>2, <3>3, Fun_IsInj
  <2> HIDE DEF F
  <2>4. Cardinality(1 .. n) <= Cardinality(Answered)
    BY <2>3, Sizes, FS_Injection
  <2>5. Cardinality(1 .. n) = n
    BY <2>2, FS_Interval
  <2>6. Cardinality(Asked) + 1 + Cardinality(Answered) <= Cardinality(owed)
    BY DEF AnswersBounded, InHand
  <2>7. Cardinality(owed) <= Cardinality(Client) /\ Cardinality(Client) \in Nat
    BY QueueServerAssumption, FS_Subset, FS_CardinalityType DEF TypeInv, ClientsOK
  <2>8. /\ Cardinality(Asked) \in Nat /\ Cardinality(Answered) \in Nat
        /\ Cardinality(owed) \in Nat /\ MaxMessages \in Nat
    BY Sizes, QueueServerAssumption
  <2>9. n < MaxMessages
    BY <2>2, <2>4, <2>5, <2>6, <2>7, <2>8
  <2> QED
    BY <2>9 DEF n
<1> QED
  BY <1>1, TypesAreOK, TypeCorrect, AnswersHold, PTL DEF QueuesInv
-------------------------------------------------------------------------------
(* Registration.  A client sends INIT once, so its INIT is under way at one  *)
(* place, if anywhere, and nobody is in clientDataArray twice.               *)
InitOf(c)  == [type |-> "INIT", pid |-> c]
IsAt(c, q, i) == q \in Run /\ i \in DOMAIN serverQueue[q] /\ serverQueue[q][i] = InitOf(c)
InQueue(c) == \E q \in Run : \E i \in DOMAIN serverQueue[q] : IsAt(c, q, i)
IsHandled(c) == serverPc = "handle" /\ receivedMessage = InitOf(c)
Waiting(c) == InQueue(c) \/ IsHandled(c)
Before     == {"openOwn", "openServer", "sendInit"}
InArray(c) == c \in Range(clientDataArray)

OnceInv ==
  /\ \A c \in Client : \A q, r, i, j : IsAt(c, q, i) /\ IsAt(c, r, j) => q = r /\ i = j
  /\ \A c \in Client : IsHandled(c) => ~ InQueue(c)
  /\ \A c \in Client : Waiting(c) => ~ InArray(c)
  /\ \A c \in Client : pc[c] \in Before => ~ Waiting(c) /\ ~ InArray(c)
  /\ \A i, j \in DOMAIN clientDataArray : clientDataArray[i] = clientDataArray[j] => i = j

\* The message that is taken was the first, the others move up.
LEMMA TakeMoves ==
  ASSUME TypeInv, NEW q \in Run, serverQueue[q] # <<>>,
         serverQueue' = [serverQueue EXCEPT ![q] = Tail(serverQueue[q])]
  PROVE  /\ \A c : Head(serverQueue[q]) = InitOf(c) => IsAt(c, q, 1)
         /\ \A c, r, i : IsAt(c, r, i)' /\ r # q => IsAt(c, r, i)
         /\ \A c, i : IsAt(c, q, i)' => i \in Nat /\ i + 1 # 1 /\ IsAt(c, q, i + 1)
<1>1. serverQueue \in [Run -> Seq(Message)]
  BY DEF TypeInv, QueuesOK
<1>2. /\ DOMAIN serverQueue[q] = 1 .. Len(serverQueue[q]) /\ Len(serverQueue[q]) \in Nat
      /\ Len(serverQueue[q]) > 0
      /\ DOMAIN Tail(serverQueue[q]) = 1 .. Len(serverQueue[q]) - 1
      /\ \A i \in 1 .. Len(serverQueue[q]) - 1 : Tail(serverQueue[q])[i] = serverQueue[q][i + 1]
      /\ Head(serverQueue[q]) = serverQueue[q][1]
  <2>1. serverQueue[q] \in Seq(Message)
    BY <1>1
  <2> QED
    BY <2>1
<1>3. /\ serverQueue'[q] = Tail(serverQueue[q])
      /\ \A r \in Run : r # q => serverQueue'[r] = serverQueue[r]
  BY <1>1
<1>4. 1 \in DOMAIN serverQueue[q]
  BY <1>2
<1>5. \A i \in DOMAIN serverQueue'[q] :
        /\ i \in Nat /\ i + 1 # 1 /\ i + 1 \in DOMAIN serverQueue[q]
        /\ serverQueue'[q][i] = serverQueue[q][i + 1]
  <2> SUFFICES ASSUME NEW i \in DOMAIN Tail(serverQueue[q])
               PROVE  /\ i \in Nat /\ i + 1 # 1 /\ i + 1 \in DOMAIN serverQueue[q]
                      /\ Tail(serverQueue[q])[i] = serverQueue[q][i + 1]
    BY <1>3
  <2>1. i \in 1 .. Len(serverQueue[q]) - 1
    BY <1>2
  <2>2. i \in Nat /\ i + 1 # 1 /\ i + 1 \in DOMAIN serverQueue[q]
    BY <1>2, <2>1
  <2> QED
    BY <1>2, <2>1, <2>2
<1>6. \A c : Head(serverQueue[q]) = InitOf(c) => IsAt(c, q, 1)
  BY <1>2, <1>4 DEF IsAt
<1>7. \A c, r, i : IsAt(c, r, i)' /\ r # q => IsAt(c, r, i)
  BY <1>3 DEF IsAt, InitOf
<1>8. \A c, i : IsAt(c, q, i)' => i \in Nat /\ i + 1 # 1 /\ IsAt(c, q, i + 1)
  BY <1>5 DEF IsAt, InitOf
<1> QED
  BY <1>6, <1>7, <1>8

\* A message that is sent comes after the others.
LEMMA AddMoves ==
  ASSUME TypeInv, NEW q \in Run, NEW m \in Message,
         serverQueue' = [serverQueue EXCEPT ![q] = Append(serverQueue[q], m)]
  PROVE  \A c, r, i : IsAt(c, r, i)' =>
           IsAt(c, r, i) \/ (r = q /\ i = Len(serverQueue[q]) + 1 /\ m = InitOf(c))
<1> DEFINE n == Len(serverQueue[q]) + 1
<1>1. serverQueue \in [Run -> Seq(Message)]
  BY DEF TypeInv, QueuesOK
<1>2. /\ DOMAIN Append(serverQueue[q], m) = (DOMAIN serverQueue[q]) \cup {n}
      /\ \A i \in DOMAIN serverQueue[q] : Append(serverQueue[q], m)[i] = serverQueue[q][i]
      /\ Append(serverQueue[q], m)[n] = m
  <2>1. serverQueue[q] \in Seq(Message)
    BY <1>1
  <2>2. Len(serverQueue[q]) \in Nat /\ Len(Append(serverQueue[q], m)) = n
    BY <2>1
  <2>3. DOMAIN Append(serverQueue[q], m) = 1 .. n /\ DOMAIN serverQueue[q] = 1 .. n - 1
    BY <2>1, <2>2
  <2>4. /\ \A i \in 1 .. n - 1 : Append(serverQueue[q], m)[i] = serverQueue[q][i]
        /\ Append(serverQueue[q], m)[n] = m
    BY <2>1, <2>2
  <2> QED
    BY <2>2, <2>3, <2>4
<1>3. /\ serverQueue'[q] = Append(serverQueue[q], m)
      /\ \A r \in Run : r # q => serverQueue'[r] = serverQueue[r]
  BY <1>1
<1> HIDE DEF n
<1>4. \A c, r, i : IsAt(c, r, i)' => IsAt(c, r, i) \/ (r = q /\ i = n /\ m = InitOf(c))
  BY <1>2, <1>3 DEF IsAt, InitOf
<1> QED
  BY <1>4 DEF n

LEMMA OnceInit == Init => OnceInv
<1> SUFFICES ASSUME Init PROVE OnceInv
  OBVIOUS
<1>1. \A c : ~ InQueue(c)
  BY DEF Init, InQueue, IsAt
<1>2. \A c : ~ IsHandled(c)
  BY DEF Init, IsHandled
<1>3. DOMAIN clientDataArray = {} /\ \A c : ~ InArray(c)
  BY DEF Init, InArray, Range
<1>4. \A c, q, i : ~ IsAt(c, q, i)
  BY DEF Init, IsAt
<1> QED
  BY <1>1, <1>2, <1>3, <1>4 DEF OnceInv, Waiting

\* Where no message moves, an INIT in hand may be dropped and all clients be
\* forgotten.
LEMMA OnceQuiet ==
  ASSUME OnceInv, UNCHANGED serverQueue,
         clientDataArray' = clientDataArray \/ clientDataArray' = <<>>,
         \A c \in Client : IsHandled(c)' => IsHandled(c),
         \A c \in Client : pc'[c] \in Before => pc[c] \in Before
  PROVE  OnceInv'
<1>1. \A c, q, i : IsAt(c, q, i)' <=> IsAt(c, q, i)
  BY DEF IsAt, InitOf
<1>2. \A c : InQueue(c)' <=> InQueue(c)
  BY <1>1 DEF InQueue
<1>3. \A c : InArray(c)' => InArray(c)
  BY DEF InArray, Range
<1>4. \A i, j \in DOMAIN clientDataArray' : clientDataArray'[i] = clientDataArray'[j] => i = j
  BY DEF OnceInv
<1> QED
  BY <1>1, <1>2, <1>3, <1>4 DEF OnceInv, Waiting

LEMMA InQueueIs == \A c : InQueue(c) <=> \E q, i : IsAt(c, q, i)
  BY DEF InQueue, IsAt

LEMMA InQueueNext == \A c : InQueue(c)' <=> \E q, i : IsAt(c, q, i)'
  BY DEF InQueue, IsAt

\* The INIT that registers a client was his only one.
LEMMA OnceRegister ==
  ASSUME TypeInv, OnceInv, RegisterNewClient
  PROVE  OnceInv'
<1> DEFINE p == receivedMessage.pid
<1>1. /\ receivedMessage = InitOf(p) /\ p \in Client /\ IsHandled(p)
  BY DEF RegisterNewClient, TypeInv, ServerOK, Message, InitOf, IsHandled, Nothing
<1>2. /\ UNCHANGED <<serverQueue, pc>>
      /\ clientDataArray' = clientDataArray \/ clientDataArray' = Append(clientDataArray, p)
      /\ \A c \in Client : ~ IsHandled(c)'
  BY DEF RegisterNewClient, queues, clientVars, IsHandled
<1>3. CASE clientDataArray' = clientDataArray
  BY <1>2, <1>3, OnceQuiet
<1>4. CASE clientDataArray' = Append(clientDataArray, p)
  <2>1. clientDataArray \in Seq(Client)
    BY DEF TypeInv, ServerOK
  <2> DEFINE n == Len(clientDataArray) + 1
  <2>2. /\ DOMAIN clientDataArray' = (DOMAIN clientDataArray) \cup {n}
        /\ \A i \in DOMAIN clientDataArray : clientDataArray'[i] = clientDataArray[i]
        /\ clientDataArray'[n] = p
    <3>1. Len(clientDataArray) \in Nat /\ Len(clientDataArray') = n
      BY <1>1, <1>4, <2>1
    <3>2. DOMAIN clientDataArray' = 1 .. n /\ DOMAIN clientDataArray = 1 .. n - 1
      BY <1>1, <1>4, <2>1, <3>1
    <3>3. /\ \A i \in 1 .. n - 1 : clientDataArray'[i] = clientDataArray[i]
          /\ clientDataArray'[n] = p
      BY <1>1, <1>4, <2>1, <3>1
    <3> QED
      BY <3>1, <3>2, <3>3
  <2> HIDE DEF n, p
  <2>3. \A c : InArray(c)' => InArray(c) \/ c = p
    BY <2>2 DEF InArray, Range
  <2>4. ~ InArray(p) /\ ~ InQueue(p) /\ pc[p] \notin Before
    BY <1>1 DEF OnceInv, Waiting
  <2>5. \A c, q, i : IsAt(c, q, i)' <=> IsAt(c, q, i)
    BY <1>2 DEF IsAt, InitOf
  <2>6. \A c : InQueue(c)' <=> InQueue(c)
    BY <2>5, InQueueIs, InQueueNext
  <2>7. \A i, j \in DOMAIN clientDataArray' : clientDataArray'[i] = clientDataArray'[j] => i = j
    <3>1. \A i \in DOMAIN clientDataArray : clientDataArray[i] # p
      BY <2>4 DEF InArray, Range
    <3>2. \A i, j \in DOMAIN clientDataArray : clientDataArray[i] = clientDataArray[j] => i = j
      BY DEF OnceInv
    <3> QED
      BY <2>2, <3>1, <3>2
  <2>8. \A c \in Client : Waiting(c)' => ~ InArray(c)'
    BY <1>2, <2>3, <2>4, <2>6 DEF OnceInv, Waiting
  <2>9. \A c \in Client : pc'[c] \in Before => ~ Waiting(c)' /\ ~ InArray(c)'
    BY <1>2, <2>3, <2>4, <2>6 DEF OnceInv, Waiting
  <2>10. \A c \in Client : \A q, r, i, j : IsAt(c, q, i)' /\ IsAt(c, r, j)' => q = r /\ i = j
    BY <2>5 DEF OnceInv
  <2> QED
    BY <1>2, <2>7, <2>8, <2>9, <2>10 DEF OnceInv
<1> QED
  BY <1>2, <1>3, <1>4

LEMMA OnceReceive ==
  ASSUME TypeInv, OnceInv, Receive
  PROVE  OnceInv'
<1>0. PICK o : o = serverQ
  OBVIOUS
<1>1. /\ serverQueue[o] # <<>> /\ serverPc = "receive"
      /\ serverQueue' = [serverQueue EXCEPT ![o] = Tail(serverQueue[o])]
      /\ UNCHANGED <<clientDataArray, pc>>
      /\ receivedMessage' = Head(serverQueue[o])
  BY <1>0 DEF Receive, clientVars, ServerGoto
<1>2. o \in Run
  BY <1>0, <1>1, ServerHasOpen
<1>3. /\ \A c : Head(serverQueue[o]) = InitOf(c) => IsAt(c, o, 1)
      /\ \A c, r, i : IsAt(c, r, i)' /\ r # o => IsAt(c, r, i)
      /\ \A c, i : IsAt(c, o, i)' => i \in Nat /\ i + 1 # 1 /\ IsAt(c, o, i + 1)
  BY <1>1, <1>2, TakeMoves
<1>4. \A c : IsHandled(c)' => IsAt(c, o, 1)
  BY <1>1, <1>3 DEF IsHandled, InitOf
<1>5. \A c : InQueue(c)' => InQueue(c)
  <2>1. \A c, r, i : IsAt(c, r, i)' => \E j : IsAt(c, r, j)
    BY <1>3
  <2> QED
    BY <2>1, InQueueIs, InQueueNext
<1>6. \A c : Waiting(c)' => Waiting(c)
  BY <1>4, <1>5, InQueueIs DEF Waiting
<1>7. \A c : InArray(c)' <=> InArray(c)
  BY <1>1 DEF InArray
<1>8. ASSUME NEW c \in Client, NEW q, NEW r, NEW i, NEW j, IsAt(c, q, i)', IsAt(c, r, j)'
      PROVE  q = r /\ i = j
  <2>1. \A s, t, x, y : IsAt(c, s, x) /\ IsAt(c, t, y) => s = t /\ x = y
    BY DEF OnceInv
  <2>2. CASE q = o /\ r = o
    <3>1. IsAt(c, o, i)' /\ IsAt(c, o, j)'
      BY <1>8, <2>2
    <3>2. i \in Nat /\ j \in Nat /\ IsAt(c, o, i + 1) /\ IsAt(c, o, j + 1)
      BY <1>3, <3>1
    <3>3. i + 1 = j + 1
      BY <2>1, <3>2
    <3>4. i = j
      BY <3>2, <3>3
    <3> QED
      BY <2>2, <3>4
  <2>3. CASE q = o /\ r # o
    <3>1. IsAt(c, o, i)' /\ IsAt(c, r, j)
      BY <1>3, <1>8, <2>3
    <3>2. IsAt(c, o, i + 1)
      BY <1>3, <3>1
    <3> QED
      BY <2>1, <2>3, <3>1, <3>2
  <2>4. CASE q # o /\ r = o
    <3>1. IsAt(c, q, i) /\ IsAt(c, o, j)'
      BY <1>3, <1>8, <2>4
    <3>2. IsAt(c, o, j + 1)
      BY <1>3, <3>1
    <3> QED
      BY <2>1, <2>4, <3>1, <3>2
  <2>5. CASE q # o /\ r # o
    BY <1>3, <1>8, <2>1, <2>5
  <2> QED
    BY <2>2, <2>3, <2>4, <2>5
<1>9. ASSUME NEW c \in Client, IsHandled(c)', InQueue(c)' PROVE FALSE
  <2>1. \A s, t, x, y : IsAt(c, s, x) /\ IsAt(c, t, y) => s = t /\ x = y
    BY DEF OnceInv
  <2>2. PICK q, i : IsAt(c, q, i)'
    BY <1>9, InQueueNext
  <2>3. IsAt(c, o, 1)
    BY <1>4, <1>9
  <2>4. CASE q = o
    <3>1. i + 1 # 1 /\ IsAt(c, o, i + 1)
      BY <1>3, <2>2, <2>4
    <3> QED
      BY <2>1, <2>3, <3>1
  <2>5. CASE q # o
    BY <1>3, <2>1, <2>2, <2>3, <2>5
  <2> QED
    BY <2>4, <2>5
<1> QED
  BY <1>1, <1>6, <1>7, <1>8, <1>9 DEF OnceInv

\* An INIT is sent by a client whose INIT was nowhere.
LEMMA OnceSend ==
  ASSUME TypeInv, OnceInv, NEW c \in Client, NEW type \in {"INIT", "TIME", "END", "STOP"},
         Send(c, type), pc[c] \notin Opening \cup Ended,
         type = "INIT" => pc[c] = "sendInit",
         \A d \in Client : d # c => pc'[d] = pc[d], pc'[c] \notin Before
  PROVE  OnceInv'
<1>0. PICK o : o = sendQ[c]
  OBVIOUS
<1> DEFINE m == [type |-> type, pid |-> c]
<1>1. /\ serverQueue' = [serverQueue EXCEPT ![o] = Append(serverQueue[o], m)]
      /\ UNCHANGED <<clientDataArray, serverPc, receivedMessage>>
  BY <1>0 DEF Send, serverVars
<1>2. o \in Run
  BY <1>0, HasServerOpen
<1>3. m \in Message /\ \A d : m = InitOf(d) => d = c /\ type = "INIT"
  BY DEF Message, InitOf
<1> DEFINE n == Len(serverQueue[o]) + 1
<1> HIDE DEF m
<1>4. \A d, r, i : IsAt(d, r, i)' =>
        IsAt(d, r, i) \/ (r = o /\ i = n /\ m = InitOf(d))
  BY <1>1, <1>2, <1>3, AddMoves
<1> HIDE DEF n
<1>5. \A d, r, i : IsAt(d, r, i)' =>
        IsAt(d, r, i) \/ (r = o /\ i = n /\ d = c /\ type = "INIT")
  BY <1>3, <1>4
<1>6. type = "INIT" => ~ Waiting(c) /\ ~ InArray(c)
  BY DEF OnceInv, Before
<1>7. type = "INIT" => \A q, i : ~ IsAt(c, q, i)
  BY <1>6, InQueueIs DEF Waiting
<1>8. \A d : InArray(d)' <=> InArray(d)
  BY <1>1 DEF InArray
<1>9. \A d : IsHandled(d)' <=> IsHandled(d)
  BY <1>1 DEF IsHandled, InitOf
<1>10. \A d : InQueue(d)' => InQueue(d) \/ (d = c /\ type = "INIT")
  BY <1>5, InQueueIs, InQueueNext
<1>11. \A d \in Client : \A q, r, i, j : IsAt(d, q, i)' /\ IsAt(d, r, j)' => q = r /\ i = j
  BY <1>5, <1>7 DEF OnceInv
<1>12. \A d \in Client : IsHandled(d)' => ~ InQueue(d)'
  BY <1>6, <1>9, <1>10 DEF OnceInv, Waiting
<1>13. \A d \in Client : Waiting(d)' => ~ InArray(d)'
  BY <1>6, <1>8, <1>9, <1>10 DEF OnceInv, Waiting
<1>14. \A d \in Client : pc'[d] \in Before => ~ Waiting(d)' /\ ~ InArray(d)'
  BY <1>8, <1>9, <1>10 DEF OnceInv, Waiting
<1> QED
  BY <1>1, <1>11, <1>12, <1>13, <1>14 DEF OnceInv

LEMMA OnceServer ==
  ASSUME TypeInv, OnceInv, ServerStep \/ RestartServer \/ InterruptServer
  PROVE  OnceInv'
<1>1. CASE StartServer \/ RestartServer \/ BlockSignals \/ Refuse \/ CopyName
           \/ ServeTimeMessage \/ ServeEndMessage \/ ServeStopMessage \/ SendReply \/ InterruptServer
  <2>1. /\ UNCHANGED <<serverQueue, pc>>
        /\ clientDataArray' = clientDataArray \/ clientDataArray' = <<>>
    BY <1>1
    DEF StartServer, RestartServer, Start, BlockSignals, Refuse, CopyName, ServeTimeMessage,
        ServeEndMessage, ServeStopMessage, SendReply, InterruptServer, queues, clientVars,
        serverVars
  <2>2. \A c \in Client : IsHandled(c)' => IsHandled(c)
    BY <1>1
    DEF StartServer, RestartServer, Start, BlockSignals, Refuse, CopyName, ServeTimeMessage,
        ServeEndMessage, ServeStopMessage, SendReply, InterruptServer, serverVars,
        ServerGoto, IsHandled, InitOf
  <2> QED
    BY <2>1, <2>2, OnceQuiet
<1>2. CASE StopServer
  <2>1. /\ UNCHANGED <<serverQueue, clientDataArray>> /\ serverPc' = "gone"
        /\ pc' = [c \in Client |-> IF c \in Registered /\ pc[c] \notin Ended
                                   THEN "killed" ELSE pc[c]]
    BY <1>2 DEF StopServer
  <2> QED
    BY <2>1, OnceQuiet DEF IsHandled, Before
<1> QED
  BY <1>1, <1>2, OnceReceive, OnceRegister DEF ServerStep

LEMMA OnceClient ==
  ASSUME TypeInv, OnceInv, NEW c \in Client, ClientStep(c) \/ InterruptClient(c)
  PROVE  OnceInv'
<1>0. pc \in [Client -> ClientPC]
  BY DEF TypeInv, ClientsOK
<1>1. CASE OpenOwn(c) \/ OpenServer(c) \/ ReceiveReply(c) \/ CloseQueue(c) \/ InterruptClient(c)
  <2>1. UNCHANGED <<serverQueue, clientDataArray, serverPc, receivedMessage>>
    BY <1>1
    DEF OpenOwn, OpenServer, ReceiveReply, CloseQueue, InterruptClient, queues, serverVars
  <2>2. \A d \in Client : pc'[d] \in Before => pc[d] \in Before
    BY <1>0, <1>1
    DEF OpenOwn, OpenServer, ReceiveReply, CloseQueue, InterruptClient, Goto, Before
  <2>3. \A d \in Client : IsHandled(d)' => IsHandled(d)
    BY <2>1 DEF IsHandled, InitOf
  <2> QED
    BY <2>1, <2>2, <2>3, OnceQuiet
<1>2. CASE SendRequest(c) \/ SendEndMessage(c) \/ StopClient(c)
  <2>1. PICK type \in {"INIT", "TIME", "END", "STOP"} :
          Send(c, type) /\ (type = "INIT" => pc[c] = "sendInit")
    BY <1>2 DEF SendRequest, SendEndMessage, StopClient, Goto
  <2>2. /\ pc[c] \notin Opening \cup Ended /\ pc'[c] \notin Before
        /\ \A d \in Client : d # c => pc'[d] = pc[d]
    BY <1>0, <1>2 DEF SendRequest, SendEndMessage, StopClient, Goto, Opening, Ended, Before
  <2> QED
    BY <2>1, <2>2, OnceSend
<1> QED
  BY <1>1, <1>2 DEF ClientStep

(* Nobody is registered twice, however often the server is started again on  *)
(* a queue with requests in it.                                              *)
THEOREM RegisteredOnce == Spec => []OnceInv
<1>1. TypeInv /\ OnceInv /\ [Next]_vars => OnceInv'
  <2>1. TypeInv /\ OnceInv /\ Next => OnceInv'
    BY OnceServer, OnceClient DEF Next, UserStep
  <2>2. OnceInv /\ UNCHANGED vars => OnceInv'
    <3> SUFFICES ASSUME OnceInv, UNCHANGED vars PROVE OnceInv'
      OBVIOUS
    <3>1. UNCHANGED <<serverQueue, clientDataArray, serverPc, receivedMessage, pc>>
      BY DEF vars, queues, serverVars, clientVars
    <3>2. \A c \in Client : IsHandled(c)' => IsHandled(c)
      BY <3>1 DEF IsHandled, InitOf
    <3> QED
      BY <3>1, <3>2, OnceQuiet
  <2> QED
    BY <2>1, <2>2
<1> QED
  BY OnceInit, TypeCorrect, <1>1, PTL DEF Spec
-------------------------------------------------------------------------------
(* With names that differ.  A client uses its own queue only; its name stands *)
(* while its INIT is under way, so the server that handles it finds a queue;  *)
(* who is answered is registered, and dies with the server.                   *)
ToldOf(c) ==
  /\ ownQ[c] \in {NULL, c} /\ names[NameOf[c]] \in {NULL, c}
  /\ Waiting(c) => names[NameOf[c]] = c /\ pc[c] \in {"receiveInit", "sendStop", "exited"}
  /\ pc[c] \in {"openServer", "sendInit"} => names[NameOf[c]] = c
  /\ clientQ = c => InArray(c)
  /\ queue[c] # <<>> /\ pc[c] \notin Ended => InArray(c)
  /\ Told(c) => InArray(c)
  /\ serverPc = "gone" /\ InArray(c) => pc[c] \in Ended

ToldInv == DistinctNames => \A c \in Client : ToldOf(c)

\* The array has room for every client once, so getClient and stopServer see all
\* that registerNewClient wrote.
LEMMA AllAreSeen ==
  ASSUME TypeInv, OnceInv, Cardinality(Client) <= MAX_CLIENT_NUMBER
  PROVE  \A c : c \in Registered <=> InArray(c)
<1>1. clientDataArray \in Seq(Client)
  BY DEF TypeInv, ServerOK
<1> DEFINE n == Len(clientDataArray)
<1>2. n \in Nat /\ DOMAIN clientDataArray = 1 .. n /\ clientDataArray \in [1 .. n -> Client]
  BY <1>1
<1> HIDE DEF n
<1>3. clientDataArray \in Injection(1 .. n, Client)
  <2>1. \A i, j \in 1 .. n : clientDataArray[i] = clientDataArray[j] => i = j
    BY <1>2 DEF OnceInv
  <2> QED
    BY <1>2, <2>1, Fun_IsInj
<1>4. Cardinality(1 .. n) = n
  BY <1>2, FS_Interval
<1>5. n <= Cardinality(Client)
  BY <1>3, <1>4, QueueServerAssumption, FS_Injection
<1>6. Cardinality(Client) \in Nat /\ MAX_CLIENT_NUMBER \in Nat
  BY QueueServerAssumption, FS_CardinalityType
<1>7. \A j \in DOMAIN clientDataArray : j <= MAX_CLIENT_NUMBER
  BY <1>2, <1>5, <1>6
<1> QED
  BY <1>7 DEF Registered, InArray, Range

LEMMA ToldInit == Init => ToldInv
<1> SUFFICES ASSUME Init PROVE ToldInv
  OBVIOUS
<1>1. \A c : ~ Waiting(c)
  BY DEF Init, Waiting, InQueue, IsAt, IsHandled
<1>2. \A c \in Client : NameOf[c] \in Name
  BY QueueServerAssumption DEF Init
<1>3. \A c \in Client : ownQ[c] = NULL /\ names[NameOf[c]] = NULL
  BY <1>2 DEF Init
<1>4. \A c \in Client : pc[c] = "openOwn" /\ queue[c] = <<>>
  BY DEF Init
<1>5. clientQ \notin Client /\ serverPc = "start"
  BY QueueServerAssumption DEF Init
<1> QED
  BY <1>1, <1>3, <1>4, <1>5 DEF ToldInv, ToldOf, Told

\* What the server does without registering, answering or unlinking.
LEMMA ToldQuiet ==
  ASSUME ToldInv,
         UNCHANGED <<NameOf, names, queue, pc, ownQ, clientDataArray, clientQ>>,
         \A c : Waiting(c)' => Waiting(c), serverPc' # "gone"
  PROVE  ToldInv'
<1>1. \A c : InArray(c)' <=> InArray(c)
  BY DEF InArray
<1> QED
  BY <1>1 DEF ToldInv, ToldOf, Told, DistinctNames

\* A server that starts finds no client that was told by an earlier one.
LEMMA ToldStart ==
  ASSUME ToldInv, NEW from \in {"start", "gone"}, Start(from), UNCHANGED NameOf,
         from = "start" => \A c \in Client : ~ InArray(c)
  PROVE  ToldInv'
<1> SUFFICES ASSUME DistinctNames' PROVE ToldInv'
  BY DEF ToldInv
<1>1. /\ UNCHANGED <<serverQueue, names, queue, pc, ownQ>> /\ clientQ' = NULL
      /\ serverPc = from /\ serverPc' = "loop"
  BY DEF Start, ServerGoto, clientVars
<1>2. DistinctNames
  BY DEF DistinctNames
<1>3. \A c : Waiting(c)' => Waiting(c)
  BY <1>1 DEF Waiting, InQueue, IsAt, InitOf, IsHandled
<1>4. \A c \in Client : InArray(c) => pc[c] \in Ended
  BY <1>1, <1>2 DEF ToldInv, ToldOf
<1>5. \A c \in Client : ~ Told(c) /\ (queue[c] # <<>> => pc[c] \in Ended)
  BY <1>2, <1>4 DEF ToldInv, ToldOf, Told, Ended
<1>6. \A c \in Client : ~ Told(c)' /\ (queue'[c] # <<>> => pc'[c] \in Ended)
  BY <1>1, <1>5 DEF Told
<1>7. \A c \in Client : clientQ' # c
  BY <1>1, QueueServerAssumption
<1> QED
  BY <1>1, <1>2, <1>3, <1>6, <1>7 DEF ToldInv, ToldOf

\* The queue that an INIT names is there, and is its sender's.
LEMMA ToldRegister ==
  ASSUME TypeInv, OnceInv, ToldInv, RegisterNewClient, UNCHANGED NameOf
  PROVE  ToldInv'
<1> SUFFICES ASSUME DistinctNames' PROVE ToldInv'
  BY DEF ToldInv
<1> DEFINE p == receivedMessage.pid
<1>1. receivedMessage = InitOf(p) /\ p \in Client /\ IsHandled(p)
  BY DEF RegisterNewClient, TypeInv, ServerOK, Message, InitOf, IsHandled, Nothing
<1>2. DistinctNames
  BY DEF DistinctNames
<1>3. names[NameOf[p]] = p /\ p # NULL
  BY <1>1, <1>2, QueueServerAssumption DEF ToldInv, ToldOf, Waiting
<1>4. /\ UNCHANGED <<serverQueue, names, queue, pc, ownQ>>
      /\ clientDataArray' = Append(clientDataArray, p) /\ clientQ' = p
      /\ serverPc' = "copyName"
  BY <1>3 DEF RegisterNewClient, queues, clientVars
<1>5. clientDataArray \in Seq(Client)
  BY DEF TypeInv, ServerOK
<1> HIDE DEF p
<1>6. \A c : InArray(c) \/ c = p => InArray(c)'
  <2> DEFINE n == Len(clientDataArray) + 1
  <2>1. Len(clientDataArray) \in Nat /\ Len(clientDataArray') = n
    BY <1>1, <1>4, <1>5
  <2>2. DOMAIN clientDataArray' = 1 .. n /\ DOMAIN clientDataArray = 1 .. n - 1
    BY <1>1, <1>4, <1>5, <2>1
  <2>3. /\ \A i \in 1 .. n - 1 : clientDataArray'[i] = clientDataArray[i]
        /\ clientDataArray'[n] = p
    BY <1>1, <1>4, <1>5, <2>1
  <2>4. n \in DOMAIN clientDataArray' /\ DOMAIN clientDataArray \subseteq DOMAIN clientDataArray'
    BY <2>1, <2>2
  <2> HIDE DEF n
  <2> QED
    BY <2>2, <2>3, <2>4 DEF InArray, Range
<1>7. \A c : Waiting(c)' => Waiting(c)
  BY <1>4 DEF Waiting, InQueue, IsAt, InitOf, IsHandled
<1>8. \A c \in Client :
        /\ Waiting(c) => names[NameOf[c]] = c /\ pc[c] \in {"receiveInit", "sendStop", "exited"}
        /\ ownQ[c] \in {NULL, c} /\ names[NameOf[c]] \in {NULL, c}
        /\ pc[c] \in {"openServer", "sendInit"} => names[NameOf[c]] = c
        /\ queue[c] # <<>> /\ pc[c] \notin Ended => InArray(c)
        /\ Told(c) => InArray(c)
  BY <1>2 DEF ToldInv, ToldOf
<1>9. \A c : Told(c)' <=> Told(c)
  BY <1>4 DEF Told
<1> QED
  BY <1>4, <1>6, <1>7, <1>8, <1>9 DEF ToldInv, ToldOf

LEMMA ReceiveWaits == ASSUME TypeInv, Receive PROVE \A c : Waiting(c)' => Waiting(c)
<1>0. PICK o : o = serverQ
  OBVIOUS
<1>1. /\ serverQueue[o] # <<>> /\ serverPc = "receive"
      /\ serverQueue' = [serverQueue EXCEPT ![o] = Tail(serverQueue[o])]
      /\ receivedMessage' = Head(serverQueue[o])
  BY <1>0 DEF Receive, ServerGoto
<1>2. o \in Run
  BY <1>0, <1>1, ServerHasOpen
<1>3. /\ \A c : Head(serverQueue[o]) = InitOf(c) => IsAt(c, o, 1)
      /\ \A c, r, i : IsAt(c, r, i)' => \E j : IsAt(c, r, j)
  BY <1>1, <1>2, TakeMoves
<1>4. \A c : IsHandled(c)' => InQueue(c)
  BY <1>1, <1>3, InQueueIs DEF IsHandled, InitOf
<1>5. \A c : InQueue(c)' => InQueue(c)
  BY <1>3, InQueueIs, InQueueNext
<1> QED
  BY <1>4, <1>5 DEF Waiting

LEMMA ToldServer ==
  ASSUME TypeInv, OnceInv, ToldInv, Cardinality(Client) <= MAX_CLIENT_NUMBER,
         ServerStep \/ RestartServer \/ InterruptServer, UNCHANGED NameOf
  PROVE  ToldInv'
<1> SUFFICES ASSUME DistinctNames' PROVE ToldInv'
  BY DEF ToldInv
<1>0. DistinctNames
  BY DEF DistinctNames
<1>1. CASE StartServer
  <2>1. \A c \in Client : ~ InArray(c)
    BY <1>1 DEF StartServer, Start, ServerGoto, TypeInv, ServerOK, InArray, Range
  <2> QED
    BY <1>1, <2>1, ToldStart DEF StartServer
<1>2. CASE RestartServer
  BY <1>2, ToldStart DEF RestartServer
<1>3. CASE BlockSignals \/ Refuse \/ CopyName \/ ServeTimeMessage \/ ServeEndMessage
  <2>1. /\ UNCHANGED <<serverQueue, names, queue, pc, ownQ, clientDataArray, clientQ>>
        /\ serverPc' \in {"receive", "loop", "send"}
    BY <1>3
    DEF BlockSignals, Refuse, CopyName, ServeTimeMessage, ServeEndMessage, queues,
        clientVars, serverVars, ServerGoto
  <2>2. \A c : Waiting(c)' => Waiting(c)
    BY <2>1 DEF Waiting, InQueue, IsAt, InitOf, IsHandled
  <2> QED
    BY <2>1, <2>2, ToldQuiet
<1>4. CASE Receive
  <2>1. /\ UNCHANGED <<names, queue, pc, ownQ, clientDataArray, clientQ>>
        /\ serverPc' = "handle"
    BY <1>4 DEF Receive, clientVars, ServerGoto
  <2> QED
    BY <1>4, <2>1, ReceiveWaits, ToldQuiet
<1>5. CASE InterruptServer
  <2>1. /\ UNCHANGED <<serverQueue, names, queue, pc, ownQ, clientDataArray, clientQ>>
        /\ serverPc' # "gone" /\ UNCHANGED <<serverPc, receivedMessage>>
    BY <1>5 DEF InterruptServer, queues, clientVars, serverVars
  <2>2. \A c : Waiting(c)' => Waiting(c)
    BY <2>1 DEF Waiting, InQueue, IsAt, InitOf, IsHandled
  <2> QED
    BY <2>1, <2>2, ToldQuiet
<1>6. CASE SendReply
  <2>1. /\ queue' = [queue EXCEPT ![clientQ] = Append(queue[clientQ], sendMessage)]
        /\ UNCHANGED <<serverQueue, names, pc, ownQ, clientDataArray, clientQ>>
        /\ serverPc' = "loop"
    BY <1>6 DEF SendReply, clientVars, ServerGoto
  <2>2. \A c : Waiting(c)' => Waiting(c)
    BY <2>1 DEF Waiting, InQueue, IsAt, InitOf, IsHandled
  <2>3. \A c \in Client : c # clientQ => queue'[c] = queue[c]
    BY <2>1 DEF TypeInv, QueuesOK
  <2>4. \A c : /\ Told(c)' <=> Told(c)
               /\ InArray(c)' <=> InArray(c)
    BY <2>1 DEF Told, InArray
  <2> QED
    BY <1>0, <2>1, <2>2, <2>3, <2>4 DEF ToldInv, ToldOf
<1>7. CASE ServeStopMessage
  <2> DEFINE p == receivedMessage.pid
  <2>1. /\ names' = [names EXCEPT ![NameOf[p]] = NULL] /\ p \in Registered
        /\ UNCHANGED <<serverQueue, queue, pc, ownQ, clientDataArray, clientQ>>
        /\ serverPc' = "loop"
    BY <1>7 DEF ServeStopMessage, clientVars, ServerGoto
  <2>2. InArray(p) /\ p \in Client
    BY <2>1, AllAreSeen DEF TypeInv, ServerOK, InArray, Range
  <2> HIDE DEF p
  <2>3. \A c : Waiting(c)' => Waiting(c)
    BY <2>1 DEF Waiting, InQueue, IsAt, InitOf, IsHandled
  <2>4. \A c : (Told(c)' <=> Told(c)) /\ (InArray(c)' <=> InArray(c))
    BY <2>1 DEF Told, InArray
  <2>5. names \in [Name -> Client \cup {NULL}] /\ \A c \in Client : NameOf[c] \in Name
    BY QueueServerAssumption DEF TypeInv, QueuesOK, ServerOK
  <2>6. \A c \in Client : names'[NameOf[c]] = IF c = p THEN NULL ELSE names[NameOf[c]]
    BY <1>0, <2>1, <2>2, <2>5 DEF DistinctNames
  <2>7. ~ Waiting(p) /\ pc[p] \notin {"openServer", "sendInit"}
    BY <2>2 DEF OnceInv, Before
  <2> QED
    BY <1>0, <2>1, <2>3, <2>4, <2>6, <2>7 DEF ToldInv, ToldOf
<1>8. CASE StopServer
  <2>1. /\ pc' = [c \in Client |-> IF c \in Registered /\ pc[c] \notin Ended
                                   THEN "killed" ELSE pc[c]]
        /\ names' = [n \in Name |-> IF n \in Recorded THEN NULL ELSE names[n]]
        /\ UNCHANGED <<serverQueue, queue, ownQ, clientDataArray, clientQ>>
        /\ serverPc' = "gone"
    BY <1>8 DEF StopServer
  <2>2. \A c : c \in Registered <=> InArray(c)
    BY AllAreSeen
  <2>3. \A c : Waiting(c)' => Waiting(c)
    BY <2>1 DEF Waiting, InQueue, IsAt, InitOf, IsHandled
  <2>4. \A c : InArray(c)' <=> InArray(c)
    BY <2>1 DEF InArray
  <2>5. \A c \in Client : NameOf[c] \in Name
    BY QueueServerAssumption DEF TypeInv, ServerOK
  <2>6. \A c : InArray(c) => c \in Client
    BY DEF InArray, Range, TypeInv, ServerOK
  <2>7. \A c \in Client : /\ names'[NameOf[c]] \in {NULL, names[NameOf[c]]}
                          /\ ~ InArray(c) => names'[NameOf[c]] = names[NameOf[c]]
    <3>1. \A c \in Client : NameOf[c] \in Recorded => InArray(c)
      BY <1>0, <2>6 DEF Recorded, InArray, Range, DistinctNames
    <3> QED
      BY <2>1, <2>5, <3>1
  <2>8. \A c \in Client : /\ InArray(c) => pc'[c] \in Ended
                          /\ ~ InArray(c) => pc'[c] = pc[c]
    BY <2>1, <2>2 DEF Ended
  <2>9. \A c \in Client : Waiting(c) \/ pc[c] \in {"openServer", "sendInit"} => ~ InArray(c)
    BY DEF OnceInv, Before
  <2>10. \A c \in Client : Told(c)' => Told(c) /\ ~ InArray(c)
    BY <2>8 DEF Told, Ended
  <2> QED
    BY <1>0, <2>1, <2>3, <2>4, <2>7, <2>8, <2>9, <2>10 DEF ToldInv, ToldOf, Ended
<1> QED
  BY <1>1, <1>2, <1>3, <1>4, <1>5, <1>6, <1>7, <1>8, ToldRegister DEF ServerStep

\* What a client does leaves alone what is said of the others.
LEMMA ToldOther ==
  ASSUME NEW d \in Client, ToldOf(d),
         UNCHANGED <<NameOf, clientDataArray, clientQ, serverPc, pc[d], ownQ[d],
                     names[NameOf[d]], queue[d]>>,
         Waiting(d)' => Waiting(d)
  PROVE  ToldOf(d)'
<1>1. InArray(d)' <=> InArray(d)
  BY DEF InArray
<1>2. Told(d)' <=> Told(d)
  BY DEF Told
<1> QED
  BY <1>1, <1>2 DEF ToldOf

LEMMA ToldClient ==
  ASSUME TypeInv, OnceInv, ToldInv, NEW c \in Client, ClientStep(c) \/ InterruptClient(c),
         UNCHANGED NameOf
  PROVE  ToldInv'
<1> SUFFICES ASSUME DistinctNames' PROVE ToldInv'
  BY DEF ToldInv
<1>0. DistinctNames /\ \A d \in Client : ToldOf(d)
  BY DEF DistinctNames, ToldInv
<1>1. /\ pc \in [Client -> ClientPC] /\ ownQ \in [Client -> Client \cup {NULL}]
      /\ names \in [Name -> Client \cup {NULL}] /\ queue \in [Client -> Seq(Reply)]
      /\ \A d \in Client : NameOf[d] \in Name
      /\ NULL \notin Client
  BY QueueServerAssumption DEF TypeInv, ServerOK, QueuesOK, ClientsOK
<1>2. UNCHANGED <<clientDataArray, clientQ, serverPc, receivedMessage>>
  BY DEF ClientStep, OpenOwn, OpenServer, SendRequest, Send, ReceiveReply, SendEndMessage,
         CloseQueue, StopClient, InterruptClient, serverVars
<1>3. \A d : /\ InArray(d)' <=> InArray(d)
             /\ IsHandled(d)' <=> IsHandled(d)
  BY <1>2 DEF InArray, IsHandled, InitOf
<1>4. (UNCHANGED serverQueue) => \A d : Waiting(d)' <=> Waiting(d)
  BY <1>3 DEF Waiting, InQueue, IsAt, InitOf
<1>5. pc[c] \notin Ended => (serverPc = "gone" => ~ InArray(c))
  BY <1>0 DEF ToldOf
<1>6. ASSUME ToldOf(c)', \A d \in Client : Waiting(d)' => Waiting(d) \/ d = c,
             \A d \in Client \ {c} :
               UNCHANGED <<pc[d], ownQ[d], names[NameOf[d]], queue[d]>>
      PROVE  ToldInv'
  <2>1. ASSUME NEW d \in Client, d # c PROVE ToldOf(d)'
    BY <1>0, <1>2, <1>6, <2>1, ToldOther
  <2>2. \A d \in Client : ToldOf(d)'
    BY <1>6, <2>1
  <2> QED
    BY <2>2 DEF ToldInv
<1>7. CASE OpenOwn(c)
  <2>1. /\ UNCHANGED <<serverQueue, queue>>
        /\ pc[c] = "openOwn" /\ pc' = [pc EXCEPT ![c] = "openServer"]
    BY <1>7 DEF OpenOwn, Goto
  <2>2. names[NameOf[c]] \in {NULL, c}
    BY <1>0 DEF ToldOf
  <2>3. /\ ownQ' = [ownQ EXCEPT ![c] = c]
        /\ \/ names' = [names EXCEPT ![NameOf[c]] = c]
           \/ names' = names /\ names[NameOf[c]] = c
    <3>1. CASE names[NameOf[c]] = NULL
      BY <1>7, <3>1 DEF OpenOwn
    <3>2. CASE names[NameOf[c]] = c
      BY <1>1, <1>7, <3>2 DEF OpenOwn
    <3> QED
      BY <2>2, <3>1, <3>2
  <2>4. ~ Waiting(c) /\ ~ InArray(c)
    BY <2>1 DEF OnceInv, Before
  <2>5. /\ names'[NameOf[c]] = c /\ ownQ'[c] = c /\ pc'[c] = "openServer"
        /\ \A d \in Client \ {c} : UNCHANGED <<pc[d], ownQ[d], names[NameOf[d]], queue[d]>>
    BY <1>0, <1>1, <2>1, <2>3 DEF DistinctNames
  <2>6. ToldOf(c)'
    <3>1. clientQ' # c /\ queue'[c] = <<>>
      BY <1>0, <1>2, <2>1, <2>4 DEF ToldOf, Ended
    <3> QED
      BY <1>2, <1>3, <1>4, <2>1, <2>4, <2>5, <3>1 DEF ToldOf, Told, Ended
  <2> QED
    BY <1>4, <1>6, <2>1, <2>5, <2>6
<1>8. CASE OpenServer(c) \/ InterruptClient(c)
  <2>1. /\ UNCHANGED <<serverQueue, queue, names, ownQ>>
        /\ \A d \in Client \ {c} : pc'[d] = pc[d]
        /\ pc[c] \notin Ended
        /\ \/ pc[c] = "openServer" /\ pc'[c] \in {"sendInit", "failed"}
           \/ pc[c] \in {"openOwn", "openServer"} /\ pc'[c] = "killed"
           \/ pc[c] \notin {"openOwn", "openServer", "exited"} /\ pc'[c] = "sendStop"
    BY <1>1, <1>8 DEF OpenServer, InterruptClient, Goto, queues, Ended
  <2>2. Waiting(c) => pc[c] \notin {"openOwn", "openServer"}
    BY DEF OnceInv, Before
  <2>3. ToldOf(c)'
    BY <1>0, <1>2, <1>3, <1>4, <1>5, <2>1, <2>2 DEF ToldOf, Told
  <2> QED
    BY <1>4, <1>6, <2>1, <2>3
<1>9. ASSUME NEW type \in {"INIT", "TIME", "END", "STOP"}, Send(c, type),
             pc[c] \notin Opening \cup Ended
      PROVE  \A d : Waiting(d)' => Waiting(d) \/ (d = c /\ type = "INIT")
  <2>0. PICK o : o = sendQ[c]
    OBVIOUS
  <2> DEFINE m == [type |-> type, pid |-> c]
  <2>1. serverQueue' = [serverQueue EXCEPT ![o] = Append(serverQueue[o], m)]
    BY <1>9, <2>0 DEF Send
  <2>2. o \in Run
    BY <1>9, <2>0, HasServerOpen
  <2>3. m \in Message /\ \A d : m = InitOf(d) => d = c /\ type = "INIT"
    BY DEF Message, InitOf
  <2> HIDE DEF m
  <2>4. \A d, r, i : IsAt(d, r, i)' => IsAt(d, r, i) \/ m = InitOf(d)
    BY <2>1, <2>2, <2>3, AddMoves
  <2>5. \A d : InQueue(d)' => InQueue(d) \/ (d = c /\ type = "INIT")
    BY <2>3, <2>4, InQueueIs, InQueueNext
  <2> QED
    BY <1>3, <2>5 DEF Waiting
<1>10. CASE SendRequest(c) \/ SendEndMessage(c) \/ StopClient(c)
  <2>1. PICK type \in {"INIT", "TIME", "END", "STOP"} :
          Send(c, type) /\ (type = "INIT" => pc[c] = "sendInit")
    BY <1>10 DEF SendRequest, SendEndMessage, StopClient, Goto
  <2>2. /\ \A d \in Client \ {c} : pc'[d] = pc[d]
        /\ UNCHANGED <<queue, names, ownQ>>
        /\ \/ pc[c] = "sendInit" /\ pc'[c] = "receiveInit"
           \/ pc[c] = "sendTime" /\ pc'[c] = "receiveTime"
           \/ pc[c] = "sendEnd" /\ pc'[c] = "closeQueue"
           \/ pc[c] = "sendStop" /\ pc'[c] = "exited"
    BY <1>1, <1>10 DEF SendRequest, SendEndMessage, StopClient, Goto, Send
  <2>3. \A d : Waiting(d)' => Waiting(d) \/ (d = c /\ pc[c] = "sendInit")
    BY <1>9, <2>1, <2>2 DEF Opening, Ended
  <2>4. ToldOf(c)'
    BY <1>0, <1>2, <1>3, <1>5, <2>2, <2>3 DEF ToldOf, Told, Ended
  <2> QED
    BY <1>6, <2>2, <2>3, <2>4
<1>11. CASE ReceiveReply(c)
  <2>1. /\ pc[c] \in {"receiveInit", "receiveTime"} /\ pc'[c] \in {"sendTime", "sendEnd"}
        /\ \A d \in Client \ {c} : pc'[d] = pc[d]
        /\ queue[ownQ[c]] # <<>>
        /\ queue' = [queue EXCEPT ![ownQ[c]] = Tail(queue[ownQ[c]])]
        /\ UNCHANGED <<serverQueue, names, ownQ>>
    BY <1>1, <1>11 DEF ReceiveReply, Goto
  <2>2. ownQ[c] = c
    BY <1>0, <2>1 DEF ToldOf, TypeInv, ClientsOK
  <2>3. InArray(c)
    BY <1>0, <2>1, <2>2 DEF ToldOf, Ended
  <2>4. ~ Waiting(c)
    BY <2>3 DEF OnceInv
  <2>5. \A d \in Client \ {c} : queue'[d] = queue[d]
    BY <1>1, <2>1, <2>2
  <2>6. ToldOf(c)'
    BY <1>0, <1>2, <1>3, <1>4, <1>5, <2>1, <2>3, <2>4 DEF ToldOf, Told, Ended
  <2> QED
    BY <1>4, <1>6, <2>1, <2>5, <2>6
<1>12. CASE CloseQueue(c)
  <2>1. /\ pc[c] = "closeQueue" /\ pc'[c] \in {"failed", "done"}
        /\ \A d \in Client \ {c} : pc'[d] = pc[d]
        /\ names' = [names EXCEPT ![NameOf[c]] = NULL]
        /\ UNCHANGED <<serverQueue, queue, ownQ>>
    BY <1>1, <1>12 DEF CloseQueue, Goto
  <2>2. ~ Waiting(c)
    BY <1>0, <2>1 DEF ToldOf
  <2>3. names'[NameOf[c]] = NULL /\ \A d \in Client \ {c} : names'[NameOf[d]] = names[NameOf[d]]
    BY <1>0, <1>1, <2>1 DEF DistinctNames
  <2>4. ToldOf(c)'
    BY <1>0, <1>2, <1>3, <1>4, <2>1, <2>2, <2>3 DEF ToldOf, Told, Ended
  <2> QED
    BY <1>4, <1>6, <2>1, <2>3, <2>4
<1> QED
  BY <1>7, <1>8, <1>10, <1>11, <1>12 DEF ClientStep

LEMMA ToldInvariant ==
  ASSUME Cardinality(Client) <= MAX_CLIENT_NUMBER
  PROVE  Spec => []ToldInv
<1>1. TypeInv /\ OnceInv /\ ToldInv /\ [Next]_vars => ToldInv'
  <2>1. TypeInv /\ OnceInv /\ ToldInv /\ Next => ToldInv'
    <3> SUFFICES ASSUME TypeInv, OnceInv, ToldInv, Next PROVE ToldInv'
      OBVIOUS
    <3>1. UNCHANGED NameOf
      BY DEF Next, ServerStep, UserStep, ClientStep
    <3> QED
      BY <3>1, ToldServer, ToldClient DEF Next, UserStep
  <2>2. ToldInv /\ UNCHANGED vars => ToldInv'
    <3> SUFFICES ASSUME ToldInv, UNCHANGED vars PROVE ToldInv'
      OBVIOUS
    <3>1. /\ UNCHANGED <<serverQueue, names, queue, pc, ownQ, clientDataArray, clientQ>>
          /\ UNCHANGED <<NameOf, serverPc, receivedMessage>>
      BY DEF vars, queues, serverVars, clientVars
    <3>2. \A c : /\ Waiting(c)' <=> Waiting(c)
                 /\ InArray(c)' <=> InArray(c)
                 /\ Told(c)' <=> Told(c)
      BY <3>1 DEF Waiting, InQueue, IsAt, InitOf, IsHandled, InArray, Told
    <3> QED
      BY <3>1, <3>2 DEF ToldInv, ToldOf, DistinctNames
  <2> QED
    BY <2>1, <2>2
<1> QED
  BY ToldInit, TypeCorrect, RegisteredOnce, <1>1, PTL DEF Spec

(* Where clients have names of their own and the array has room for them, a  *)
(* client that was told it is registered is, through any interruption and    *)
(* any restart of the server.                                                *)
THEOREM ToldHolds ==
  ASSUME Cardinality(Client) <= MAX_CLIENT_NUMBER
  PROVE  Spec => []ToldMeansRegistered
<1>1. ToldInv => ToldMeansRegistered
  BY DEF ToldInv, ToldOf, ToldMeansRegistered, InArray
<1> QED
  BY ToldInvariant, <1>1, PTL

(* Then a server that ends leaves no client behind that was told.            *)
THEOREM NoSurvivorHolds ==
  ASSUME Cardinality(Client) <= MAX_CLIENT_NUMBER
  PROVE  Spec => []NoSurvivor
<1>1. ToldInv => NoSurvivor
  BY DEF ToldInv, ToldOf, NoSurvivor, Told, Ended
<1> QED
  BY ToldInvariant, <1>1, PTL
===============================================================================
