----------------------------- MODULE TcpServer -----------------------------
(***************************************************************************)
(* src/tcp/TcpServer.cpp: one listening socket and at most one client.     *)
(* The server thread accepts, receives and cuts the stream into lines; the *)
(* main thread sends (sendMessage) and finally stops the server (stop).    *)
(* clientSocket is shared under clientMutex, but both threads work on a    *)
(* copy of it after the unlock.  Descriptors are numbers the system reuses *)
(* once they are closed; connections are not reused.                       *)
(*                                                                         *)
(* A command travels in two fragments, the second one ending in newline.   *)
(***************************************************************************)
EXTENDS Integers, Sequences, FiniteSets

CONSTANTS
    Conns,        \* connections that clients make
    Fds,          \* descriptors for accepted connections
    NoConn,       \* a descriptor that is not open
    Invalid,      \* INVALID_SOCKET
    Backlog,      \* connections the system holds for accept()
    MaxMessages   \* bound: commands a client sends on one connection

ASSUME NoneAssumption == NoConn \notin Conns /\ Invalid \notin Fds
ASSUME NumberAssumption == Backlog \in Nat \ {0} /\ MaxMessages \in Nat

VARIABLES
    running,       \* TCPServer::running
    serverSocket,  \* "none", "listening" or "closed"
    clientSocket,  \* TCPServer::clientSocket
    fd,            \* the system: the connection a descriptor stands for
    backlog,       \* connections waiting for accept()
    peer,          \* the client's end: "away", "here" or "left"
    sent,          \* fragments a client has sent
    full,          \* connections whose buffers hold no more for the client to read
    received,      \* fragments recv() has returned
    serverPc,      \* where the server thread is
    newClient,     \* its local variables
    currentClient,
    recvBuffer,
    mainPc,        \* where the main thread is
    sendTo,        \* sendMessage's currentClient
    handled        \* history: lines given to onMessage

socketVars == <<serverSocket, clientSocket, fd>>
clientVars == <<backlog, peer, sent>>
serverVars == <<serverPc, newClient, currentClient, recvBuffer, received, handled>>
mainVars   == <<mainPc, sendTo, full>>
vars == <<running, socketVars, clientVars, serverVars, mainVars>>

\* The k-th fragment of a connection; the even ones end a line.
Fragment == [conn : Conns, k : 1 .. 2 * MaxMessages]
EndsLine(fragment) == fragment.k % 2 = 0

TypeOK ==
    /\ running \in BOOLEAN
    /\ serverSocket \in {"none", "listening", "closed"}
    /\ clientSocket \in Fds \cup {Invalid}
    /\ fd \in [Fds -> Conns \cup {NoConn}]
    /\ backlog \in Seq(Conns)
    /\ peer \in [Conns -> {"away", "here", "left"}]
    /\ sent \in [Conns -> 0 .. 2 * MaxMessages]
    /\ received \in [Conns -> 0 .. 2 * MaxMessages]
    /\ serverPc \in {"start", "loop", "accept", "store", "copy", "recv", "split",
                    "lost", "ended"}
    /\ newClient \in Fds \cup {Invalid}
    /\ currentClient \in Fds \cup {Invalid}
    /\ recvBuffer \in Seq(Fragment)
    /\ mainPc \in {"idle", "send", "failed", "close_server", "close_client", "join",
                  "joined"}
    /\ sendTo \in Fds \cup {Invalid}
    /\ full \subseteq Conns
    /\ handled \in Seq(Seq(Fragment))

Init ==
    /\ running = TRUE
    /\ serverSocket = "none" /\ clientSocket = Invalid
    /\ fd = [f \in Fds |-> NoConn]
    /\ backlog = << >>
    /\ peer = [c \in Conns |-> "away"]
    /\ sent = [c \in Conns |-> 0] /\ received = [c \in Conns |-> 0]
    /\ serverPc = "start"
    /\ newClient = Invalid /\ currentClient = Invalid
    /\ recvBuffer = << >> /\ handled = << >>
    /\ mainPc = "idle" /\ sendTo = Invalid /\ full = {}

-----------------------------------------------------------------------------
(* Clients, and the system's side of their connections *)

Connect(c) ==
    /\ peer[c] = "away"
    /\ serverSocket = "listening"
    /\ Len(backlog) < Backlog
    /\ peer' = [peer EXCEPT ![c] = "here"]
    /\ backlog' = Append(backlog, c)
    /\ UNCHANGED <<running, socketVars, sent, serverVars, mainVars>>

Send(c) ==
    /\ peer[c] = "here"
    /\ sent[c] < 2 * MaxMessages
    /\ sent' = [sent EXCEPT ![c] = @ + 1]
    /\ UNCHANGED <<running, socketVars, backlog, peer, serverVars, mainVars>>

\* The client closes, crashes or loses its network.
Leave(c) ==
    /\ peer[c] = "here"
    /\ peer' = [peer EXCEPT ![c] = "left"]
    /\ full' = full \ {c}
    /\ UNCHANGED <<running, socketVars, backlog, sent, serverVars, mainPc, sendTo>>

\* The client reads what it has left unread; it need not.
Read(c) ==
    /\ c \in full
    /\ full' = full \ {c}
    /\ UNCHANGED <<running, socketVars, clientVars, serverVars, mainPc, sendTo>>

\* A call on descriptor f may fail: it is closed, or the peer has gone.
Broken(f) == fd[f] # NoConn => peer[fd[f]] = "left"

-----------------------------------------------------------------------------
(* Closing *)

\* An operator whose comment starts with "Fault:" is the operator after it
\* with a programming mistake; no action uses it.

\* Fault: the client's descriptor is forgotten, not closed.
ForgetClient == clientSocket' = Invalid /\ UNCHANGED fd
\* Fault: the descriptor is closed, the variable is not reset.
KeepSocket ==
    /\ fd' = [f \in Fds |-> IF f = clientSocket THEN NoConn ELSE fd[f]]
    /\ UNCHANGED clientSocket
\* Fault: the variable is reset to 0, not to INVALID_SOCKET.
ResetToZero ==
    /\ fd' = [f \in Fds |-> IF f = clientSocket THEN NoConn ELSE fd[f]]
    /\ clientSocket' = 0

\* Under clientMutex: shutdown, close and reset clientSocket; on an invalid
\* one the system calls fail without effect.
CloseClient ==
    /\ clientSocket' = Invalid
    /\ fd' = [f \in Fds |-> IF f = clientSocket THEN NoConn ELSE fd[f]]

\* Fault: sendMessage holds clientMutex until send() has returned.
MutexFreeOfSend == mainPc # "send"

\* clientMutex is only held for a moment: sendMessage sends after the unlock.
MutexFree == TRUE

-----------------------------------------------------------------------------
(* The server thread *)

\* socket(), bind() and listen(), or the failure of one of them.
Listen ==
    /\ serverPc = "start"
    /\ \/ /\ serverSocket' = "listening" /\ serverPc' = "loop"
          /\ UNCHANGED running
       \/ /\ running' = FALSE /\ serverPc' = "ended"
          /\ UNCHANGED serverSocket
    /\ UNCHANGED <<clientSocket, fd, clientVars, newClient, currentClient,
                   recvBuffer, received, handled, mainVars>>

\* The condition of the outer loop.
Loop ==
    /\ serverPc = "loop"
    /\ serverPc' = IF running THEN "accept" ELSE "ended"
    /\ UNCHANGED <<running, socketVars, clientVars, newClient, currentClient,
                   recvBuffer, received, handled, mainVars>>

Accept(f) ==
    /\ serverPc = "accept"
    /\ serverSocket = "listening" /\ backlog # << >>
    /\ fd[f] = NoConn
    /\ fd' = [fd EXCEPT ![f] = Head(backlog)]
    /\ backlog' = Tail(backlog)
    /\ newClient' = f
    /\ serverPc' = "store"
    /\ UNCHANGED <<running, serverSocket, clientSocket, peer, sent, currentClient,
                   recvBuffer, received, handled, mainVars>>

\* accept() fails on the closed listening socket.
AcceptFails ==
    /\ serverPc = "accept"
    /\ serverSocket = "closed"
    /\ serverPc' = IF running THEN "loop" ELSE "ended"
    /\ UNCHANGED <<running, socketVars, clientVars, newClient, currentClient,
                   recvBuffer, received, handled, mainVars>>

\* Fault: the receive buffer outlives the connection.
OldBuffer == UNCHANGED recvBuffer

\* recvBuffer is a variable of the accept loop's body.
FreshBuffer == recvBuffer' = << >>

\* Under clientMutex: turn the newcomer away, or make it the client.
Store ==
    /\ serverPc = "store" /\ MutexFree
    /\ IF clientSocket # Invalid
         THEN /\ fd' = [fd EXCEPT ![newClient] = NoConn]
              /\ serverPc' = "loop"
              /\ UNCHANGED <<clientSocket, recvBuffer>>
         ELSE /\ clientSocket' = newClient
              /\ FreshBuffer
              /\ serverPc' = "copy"
              /\ UNCHANGED fd
    /\ UNCHANGED <<running, serverSocket, clientVars, newClient, currentClient,
                   received, handled, mainVars>>

\* The condition of the inner loop and the copy under clientMutex.
CopyClient ==
    /\ serverPc = "copy" /\ MutexFree
    /\ currentClient' = IF running THEN clientSocket ELSE currentClient
    /\ serverPc' = IF running /\ clientSocket # Invalid THEN "recv" ELSE "loop"
    /\ UNCHANGED <<running, socketVars, clientVars, newClient, recvBuffer, received,
                   handled, mainVars>>

\* recv() returns one or more fragments of the connection.
Recv(c, n) ==
    /\ serverPc = "recv"
    /\ fd[currentClient] = c
    /\ n <= sent[c]
    /\ received[c] < n
    /\ recvBuffer' = recvBuffer \o
         [i \in 1 .. n - received[c] |-> [conn |-> c, k |-> received[c] + i]]
    /\ received' = [received EXCEPT ![c] = n]
    /\ serverPc' = "split"
    /\ UNCHANGED <<running, socketVars, clientVars, newClient, currentClient,
                   handled, mainVars>>

\* recv() returns 0 or an error: the peer left or the descriptor was closed.
RecvFails ==
    /\ serverPc = "recv"
    /\ Broken(currentClient)
    /\ serverPc' = "lost"
    /\ UNCHANGED <<running, socketVars, clientVars, newClient, currentClient,
                   recvBuffer, received, handled, mainVars>>

Newlines == {i \in 1 .. Len(recvBuffer) : EndsLine(recvBuffer[i])}

\* recvBuffer.find('\n')
LineEnd == CHOOSE i \in Newlines : \A j \in Newlines : i <= j

\* Cut the first line off and give it to onMessage.
SplitLine ==
    /\ serverPc = "split"
    /\ Newlines # {}
    /\ handled' = Append(handled, SubSeq(recvBuffer, 1, LineEnd))
    /\ recvBuffer' = SubSeq(recvBuffer, LineEnd + 1, Len(recvBuffer))
    /\ UNCHANGED <<running, socketVars, clientVars, serverPc, newClient,
                   currentClient, received, mainVars>>

NoMoreLines ==
    /\ serverPc = "split"
    /\ Newlines = {}
    /\ serverPc' = "copy"
    /\ UNCHANGED <<running, socketVars, clientVars, newClient, currentClient,
                   recvBuffer, received, handled, mainVars>>

LoseClient ==
    /\ serverPc = "lost" /\ MutexFree
    /\ CloseClient
    /\ serverPc' = "loop"
    /\ UNCHANGED <<running, serverSocket, clientVars, newClient, currentClient,
                   recvBuffer, received, handled, mainVars>>

-----------------------------------------------------------------------------
(* The main thread *)

\* sendMessage copies the socket under clientMutex; without one it returns.
SendMessage ==
    /\ mainPc = "idle"
    /\ clientSocket # Invalid
    /\ sendTo' = clientSocket
    /\ mainPc' = "send"
    /\ UNCHANGED <<running, socketVars, clientVars, serverVars, full>>

\* send() blocks as long as the buffers are full.
SendSucceeds ==
    /\ mainPc = "send"
    /\ \E c \in Conns \ full :
         /\ fd[sendTo] = c
         /\ full' = full \/ (peer[c] = "here" /\ full' = full \cup {c})
    /\ mainPc' = "idle"
    /\ UNCHANGED <<running, socketVars, clientVars, serverVars, sendTo>>

\* Fault: what could not be sent is sent again.
TryAgain == "send"

\* The client is dropped.
GiveUp == "failed"

SendFails ==
    /\ mainPc = "send"
    /\ Broken(sendTo)
    /\ mainPc' = GiveUp
    /\ UNCHANGED <<running, socketVars, clientVars, serverVars, sendTo, full>>

\* sendMessage's error path: close whatever is the client now.
DropClient ==
    /\ mainPc = "failed"
    /\ CloseClient
    /\ mainPc' = "idle"
    /\ UNCHANGED <<running, serverSocket, clientVars, serverVars, sendTo, full>>

Stop ==
    /\ mainPc = "idle"
    /\ running' = FALSE
    /\ mainPc' = "close_server"
    /\ UNCHANGED <<socketVars, clientVars, serverVars, sendTo, full>>

StopServer ==
    /\ mainPc = "close_server"
    /\ serverSocket' = IF serverSocket = "listening" THEN "closed" ELSE serverSocket
    /\ mainPc' = "close_client"
    /\ UNCHANGED <<running, clientSocket, fd, clientVars, serverVars, sendTo, full>>

StopClient ==
    /\ mainPc = "close_client"
    /\ CloseClient
    /\ mainPc' = "join"
    /\ UNCHANGED <<running, serverSocket, clientVars, serverVars, sendTo, full>>

Join ==
    /\ mainPc = "join"
    /\ serverPc = "ended"
    /\ mainPc' = "joined"
    /\ UNCHANGED <<running, socketVars, clientVars, serverVars, sendTo, full>>

-----------------------------------------------------------------------------

Clients == \E c \in Conns : Connect(c) \/ Send(c) \/ Read(c) \/ Leave(c)

ServerThread ==
    \/ Listen \/ Loop \/ AcceptFails \/ Store \/ CopyClient
    \/ \E f \in Fds : Accept(f)
    \/ \E c \in Conns, n \in 1 .. 2 * MaxMessages : Recv(c, n)
    \/ RecvFails \/ SplitLine \/ NoMoreLines \/ LoseClient

Sending == SendMessage \/ SendSucceeds \/ SendFails \/ DropClient
Stopping == StopServer \/ StopClient \/ Join

\* The main thread has joined the server thread.
Terminated == mainPc = "joined" /\ UNCHANGED vars

Next == Clients \/ ServerThread \/ Sending \/ Stop \/ Stopping \/ Terminated

Spec == Init /\ [][Next]_vars

(* The server thread is scheduled and its calls return once they can; the   *)
(* main thread finishes a send, when there is room for it, and a stop it    *)
(* has begun.  The client need not read.                                    *)
Fairness ==
    /\ WF_vars(ServerThread)
    /\ WF_vars(SendSucceeds \/ SendFails \/ DropClient)
    /\ WF_vars(Stopping)

FairSpec == Spec /\ Fairness

-----------------------------------------------------------------------------
(* Properties *)

\* accept() is only called while there is no client, so the branch that turns
\* a second client away never runs: it waits in the backlog instead.
AcceptFindsNoClient == serverPc \in {"accept", "store"} => clientSocket = Invalid

\* The m-th command a client sends on connection c.
CommandOf(c, m) == << [conn |-> c, k |-> 2 * m - 1], [conn |-> c, k |-> 2 * m] >>

\* Every line handled is one whole command of one connection, and each
\* connection's commands are handled in the order sent, none twice and none
\* left out: whatever way the stream was cut, whoever closed the sockets
\* meanwhile.
CommandsWholeAndInOrder ==
    \A i \in 1 .. Len(handled) : \E c \in Conns, m \in 1 .. MaxMessages :
        /\ handled[i] = CommandOf(c, m)
        /\ \A n \in 1 .. m - 1 : \E j \in 1 .. i - 1 : handled[j] = CommandOf(c, n)
        /\ \A n \in 1 .. MaxMessages, j \in 1 .. i - 1 : handled[j] = CommandOf(c, n) => n < m

\* When every other client is gone, one that waits in the backlog becomes the
\* client, unless the server stops: the loss of a connection, noticed by
\* either thread at any point, makes the engine wait for a new one.
IsClient(c) == clientSocket # Invalid /\ fd[clientSocket] = c
OthersHere(c) == \E d \in Conns \ {c} : peer[d] = "here"
Waiting(c) == \E i \in 1 .. Len(backlog) : backlog[i] = c
WaitingClientIsServed ==
    \A c \in Conns :
        Waiting(c) /\ ~OthersHere(c) ~> IsClient(c) \/ ~running \/ OthersHere(c)

\* What a client sends is received as long as it is the client, even while the
\* main thread waits for it in send(): only the main loop stands still then.
CommandsAreReceived ==
    \A c \in Conns :
        IsClient(c) /\ received[c] < sent[c] ~>
            received[c] = sent[c] \/ ~IsClient(c) \/ ~running

\* The main thread comes out of send() again, whoever closes the descriptor
\* meanwhile, unless the client it sends to stays and never reads again.
ClientNeverReads == mainPc = "send" /\ fd[sendTo] \in full
SendReturns == []<>(mainPc # "send") \/ <>[]ClientNeverReads

\* stop() comes to its end: the server thread leaves accept() and recv().
StopEnds == mainPc = "close_server" ~> mainPc = "joined"

\* The open descriptors are the client's and the one just accepted: whichever
\* thread notices the loss of a client, and however often, its descriptor is
\* closed, and clientSocket never names one that is closed already.
OpenDescriptorsAreKnown ==
    {f \in Fds : fd[f] # NoConn} =
        {f \in Fds : f = clientSocket \/ (serverPc = "store" /\ f = newClient)}

\* When stop() waits for the server thread, nothing is left for that one to
\* wait for: accept() has a closed socket to fail on, recv() a closed
\* descriptor, although stop() took no notice of what the thread was doing.
StopLeavesNoWait ==
    mainPc = "join" =>
        /\ serverPc = "accept" => serverSocket = "closed"
        /\ serverPc = "recv" => fd[currentClient] = NoConn

\* JSON.md: a network disconnection makes the engine wait for a new client.
\* Here: the engine closes a connection only if the client at its other end
\* has gone, or the server is being stopped.
OnlyLostClientsAreClosed ==
    [][\A f \in Fds : fd[f] # NoConn /\ fd'[f] = NoConn =>
            peer[fd[f]] = "left" \/ ~running]_vars

=============================================================================
