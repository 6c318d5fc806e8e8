--------------------------- MODULE TcpServerProofs ---------------------------
(* Theorems about TcpServer for any number of connections, descriptors and  *)
(* messages.                                                                *)
EXTENDS TcpServer, SequenceTheorems, TLAPS

(* The strengthening: the accept loop is only entered without a client.     *)
(* Back at the loop's condition a client may still be stored, when the      *)
(* inner loop ended because the server is stopping, but then the condition  *)
(* is false.                                                                *)
NoClientAhead ==
    /\ serverPc \in {"start", "accept", "store"} => clientSocket = Invalid
    /\ serverPc = "loop" => clientSocket = Invalid \/ ~running

\* The main thread's steps leave the server thread where it is, never set
\* running, and change clientSocket only by resetting it.
LEMMA MainThreadSteps ==
    ASSUME NoClientAhead, Sending \/ Stop \/ Stopping
    PROVE  NoClientAhead'
<1>1. serverPc' = serverPc
  BY DEF Sending, Stop, Stopping, SendMessage, SendSucceeds, SendFails,
         DropClient, StopServer, StopClient, Join, serverVars
<1>2. clientSocket' = clientSocket \/ clientSocket' = Invalid
  BY DEF Sending, Stop, Stopping, SendMessage, SendSucceeds, SendFails,
         DropClient, StopServer, StopClient, Join, socketVars, CloseClient
<1>3. running' => running
  BY DEF Sending, Stop, Stopping, SendMessage, SendSucceeds, SendFails,
         DropClient, StopServer, StopClient, Join
<1> QED
  BY <1>1, <1>2, <1>3 DEF NoClientAhead

\* The server thread's steps.
LEMMA ServerThreadSteps ==
    ASSUME NoClientAhead, ServerThread
    PROVE  NoClientAhead'
<1>1. CASE Listen
  BY <1>1 DEF NoClientAhead, Listen
<1>2. CASE Loop
  BY <1>2 DEF NoClientAhead, Loop, socketVars
<1>3. CASE \E f \in Fds : Accept(f)
  BY <1>3 DEF NoClientAhead, Accept
<1>4. CASE AcceptFails
  BY <1>4 DEF NoClientAhead, AcceptFails, socketVars
<1>5. CASE Store
  <2>1. clientSocket = Invalid
    BY <1>5 DEF NoClientAhead, Store
  <2>2. serverPc' = "copy"
    BY <1>5, <2>1 DEF Store
  <2> QED
    BY <2>2 DEF NoClientAhead
<1>6. CASE CopyClient
  BY <1>6 DEF NoClientAhead, CopyClient, socketVars
<1>7. CASE \E c \in Conns, n \in 1 .. 2 * MaxMessages : Recv(c, n)
  BY <1>7 DEF NoClientAhead, Recv
<1>8. CASE RecvFails
  BY <1>8 DEF NoClientAhead, RecvFails
<1>9. CASE SplitLine
  BY <1>9 DEF NoClientAhead, SplitLine
<1>10. CASE NoMoreLines
  BY <1>10 DEF NoClientAhead, NoMoreLines
<1>11. CASE LoseClient
  BY <1>11 DEF NoClientAhead, LoseClient, CloseClient
<1> QED
  BY <1>1, <1>2, <1>3, <1>4, <1>5, <1>6, <1>7, <1>8, <1>9, <1>10, <1>11
  DEF ServerThread

LEMMA ClientSteps ==
    ASSUME NoClientAhead, Clients
    PROVE  NoClientAhead'
BY DEF NoClientAhead, Clients, Connect, Send, Read, Leave, socketVars, serverVars

LEMMA NoClientAheadInvariant == Spec => []NoClientAhead
<1>1. Init => NoClientAhead
  BY DEF Init, NoClientAhead
<1>2. NoClientAhead /\ [Next]_vars => NoClientAhead'
  <2> SUFFICES ASSUME NoClientAhead, [Next]_vars
               PROVE  NoClientAhead'
    OBVIOUS
  <2>1. CASE Clients
    BY <2>1, ClientSteps
  <2>2. CASE ServerThread
    BY <2>2, ServerThreadSteps
  <2>3. CASE Sending \/ Stop \/ Stopping
    BY <2>3, MainThreadSteps
  <2>4. CASE Terminated \/ UNCHANGED vars
    BY <2>4 DEF Terminated, NoClientAhead, vars, socketVars, serverVars
  <2> QED
    BY <2>1, <2>2, <2>3, <2>4 DEF Next
<1> QED
  BY <1>1, <1>2, PTL DEF Spec

\* Whatever the two threads do to clientSocket, accept() is only called while
\* there is no client: run()'s branch "already connected" is dead code.
THEOREM AcceptWithoutClient == Spec => []AcceptFindsNoClient
<1>1. NoClientAhead => AcceptFindsNoClient
  BY DEF NoClientAhead, AcceptFindsNoClient
<1> QED
  BY <1>1, NoClientAheadInvariant, PTL

-----------------------------------------------------------------------------
(* Types, and the commands of a connection *)

\* A connection that accept() has not returned is unknown to the server.
Unknown(c) == received[c] = 0 /\ \A f \in Fds : fd[f] # c

\* The system's side: a connection waits once, before it is known.
BacklogInv ==
    /\ \A i, j \in 1 .. Len(backlog) : backlog[i] = backlog[j] => i = j
    /\ \A i \in 1 .. Len(backlog) : Unknown(backlog[i]) /\ peer[backlog[i]] # "away"
    /\ \A c \in Conns : peer[c] = "away" => Unknown(c)

HandledAt(j, c, m) == j \in 1 .. Len(handled) /\ handled[j] = CommandOf(c, m)

\* The first n commands of c, and no others of it, have been handled.
HandledUpTo(c, n) ==
    /\ \A m \in 1 .. n : \E j \in 1 .. Len(handled) : HandledAt(j, c, m)
    /\ \A j \in 1 .. Len(handled), m \in 1 .. MaxMessages : HandledAt(j, c, m) => m <= n

InLoop == serverPc \in {"copy", "recv", "split", "lost"}

\* The buffer holds what c sent after its first n commands.
BufferHolds(c, n) ==
    /\ received[c] = 2 * n + Len(recvBuffer)
    /\ \A i \in 1 .. Len(recvBuffer) : recvBuffer[i] = [conn |-> c, k |-> 2 * n + i]

\* In the inner loop the server thread is busy with one connection, whose
\* descriptor is the client's until it is closed.
SessionInv ==
    /\ serverPc = "store" => newClient \in Fds /\ fd[newClient] \in Conns
                             /\ received[fd[newClient]] = 0
    /\ InLoop => newClient \in Fds /\ clientSocket \in {newClient, Invalid}
    /\ serverPc \in {"recv", "split", "lost"} => currentClient = newClient
    /\ InLoop => \E c \in Conns, n \in Nat :
          fd[newClient] \in {c, NoConn} /\ BufferHolds(c, n) /\ HandledUpTo(c, n)

\* Nothing is handled before it has been received.
HandledInv ==
    \A c \in Conns, m \in 1 .. MaxMessages, j \in 1 .. Len(handled) :
        HandledAt(j, c, m) => received[c] > 0

IInv ==
    /\ TypeOK /\ NoClientAhead /\ BacklogInv /\ SessionInv /\ HandledInv
    /\ CommandsWholeAndInOrder

-----------------------------------------------------------------------------

USE NoneAssumption, NumberAssumption

\* Even fragments end a line.
LEMMA Parity == \A n \in Nat : (2 * n + 1) % 2 = 1 /\ (2 * n + 2) % 2 = 0
  OBVIOUS

\* Commands of different connections or numbers are different.
LEMMA DifferentCommands ==
    ASSUME NEW c, NEW d, NEW m \in Nat, NEW n \in Nat, CommandOf(c, m) = CommandOf(d, n)
    PROVE  c = d /\ m = n
<1>1. CommandOf(c, m)[2] = [conn |-> c, k |-> 2 * m] /\ CommandOf(d, n)[2] = [conn |-> d, k |-> 2 * n]
  BY DEF CommandOf
<1>2. [conn |-> c, k |-> 2 * m].conn = c /\ [conn |-> d, k |-> 2 * n].conn = d
  OBVIOUS
<1>3. [conn |-> c, k |-> 2 * m].k = 2 * m /\ [conn |-> d, k |-> 2 * n].k = 2 * n
  OBVIOUS
<1>4. c = d /\ 2 * m = 2 * n
  BY <1>1, <1>2, <1>3
<1>5. QED BY <1>4

\* Of a buffer with two fragments or more the first two are the next command;
\* one that is shorter has no whole one.
LEMMA FirstLine ==
    ASSUME TypeOK, NEW c \in Conns, NEW n \in Nat, BufferHolds(c, n)
    PROVE  /\ Newlines # {} <=> 2 <= Len(recvBuffer)
           /\ Newlines # {} =>
                 /\ LineEnd = 2
                 /\ SubSeq(recvBuffer, 1, LineEnd) = CommandOf(c, n + 1)
<1>1. recvBuffer \in Seq(Fragment) /\ Len(recvBuffer) \in Nat
  BY DEF TypeOK
<1>2. \A i \in 1 .. Len(recvBuffer) : recvBuffer[i].k = 2 * n + i
  <2>1. \A i : [conn |-> c, k |-> 2 * n + i].k = 2 * n + i
    OBVIOUS
  <2>2. QED BY <2>1 DEF BufferHolds
<1>3. 1 \notin Newlines
  BY <1>2, Parity DEF Newlines, EndsLine
<1>4. 2 <= Len(recvBuffer) => 2 \in Newlines
  BY <1>1, <1>2, Parity DEF Newlines, EndsLine
<1>5. \A i \in Newlines : i \in 1 .. Len(recvBuffer) /\ 2 <= i
  BY <1>1, <1>3 DEF Newlines
<1>6. Newlines # {} <=> 2 <= Len(recvBuffer)
  BY <1>1, <1>4, <1>5
<1>7. ASSUME Newlines # {} PROVE LineEnd = 2
  <2>1. 2 \in Newlines /\ \A j \in Newlines : 2 <= j
    BY <1>4, <1>5, <1>6, <1>7
  <2>2. \A i \in Newlines : (\A j \in Newlines : i <= j) => i = 2
    BY <1>1, <1>5, <2>1
  <2>3. QED BY <2>1, <2>2 DEF LineEnd
<1>8. ASSUME Newlines # {} PROVE SubSeq(recvBuffer, 1, 2) = CommandOf(c, n + 1)
  <2>1. recvBuffer[1] = [conn |-> c, k |-> 2 * n + 1] /\ recvBuffer[2] = [conn |-> c, k |-> 2 * n + 2]
    BY <1>1, <1>6, <1>8 DEF BufferHolds
  <2>2. SubSeq(recvBuffer, 1, 2) = << recvBuffer[1], recvBuffer[2] >>
    <3>1. \A i \in 1 .. 2 : recvBuffer[i] \in Fragment
      BY <1>1, <1>6, <1>8
    <3> DEFINE line == SubSeq(recvBuffer, 1, 2)
    <3>2. /\ line \in Seq(Fragment) /\ Len(line) = 2
          /\ line[1] = recvBuffer[1] /\ line[2] = recvBuffer[2]
      BY <3>1, SubSeqProperties
    <3> HIDE DEF line
    <3> DEFINE pair == << recvBuffer[1], recvBuffer[2] >>
    <3>3. /\ pair \in Seq(Fragment) /\ Len(pair) = 2
          /\ pair[1] = recvBuffer[1] /\ pair[2] = recvBuffer[2]
      BY <3>1
    <3> HIDE DEF pair
    <3>4. \A i \in 1 .. Len(line) : line[i] = pair[i]
      BY <3>2, <3>3
    <3>5. line = pair
      BY <3>2, <3>3, <3>4, SeqEqual
    <3>6. QED BY <3>5 DEF line, pair
  <2>3. 2 * (n + 1) - 1 = 2 * n + 1 /\ 2 * (n + 1) = 2 * n + 2
    OBVIOUS
  <2>4. QED BY <2>1, <2>2, <2>3 DEF CommandOf
<1>9. QED BY <1>6, <1>7, <1>8

-----------------------------------------------------------------------------
(* The main thread and the clients.  Of what the server thread relies on,   *)
(* they change the descriptors and the connections only.                    *)

\* A step that gives no line to onMessage.
LEMMA NothingHandled ==
    ASSUME CommandsWholeAndInOrder, handled' = handled
    PROVE  CommandsWholeAndInOrder'
<1> SUFFICES ASSUME NEW i \in 1 .. Len(handled)
             PROVE  \E c \in Conns, m \in 1 .. MaxMessages :
                /\ handled'[i] = CommandOf(c, m)
                /\ \A n \in 1 .. m - 1 : \E j \in 1 .. i - 1 : handled'[j] = CommandOf(c, n)
                /\ \A n \in 1 .. MaxMessages, j \in 1 .. i - 1 :
                      handled'[j] = CommandOf(c, n) => n < m
  BY DEF CommandsWholeAndInOrder
<1>1. PICK c \in Conns, m \in 1 .. MaxMessages :
                /\ handled[i] = CommandOf(c, m)
                /\ \A n \in 1 .. m - 1 : \E j \in 1 .. i - 1 : handled[j] = CommandOf(c, n)
                /\ \A n \in 1 .. MaxMessages, j \in 1 .. i - 1 :
                      handled[j] = CommandOf(c, n) => n < m
  BY DEF CommandsWholeAndInOrder
<1>2. QED BY <1>1

\* Closing resets the client's descriptor, and no other.
LEMMA Closing ==
    ASSUME TypeOK, CloseClient
    PROVE  /\ clientSocket' = Invalid
           /\ fd' \in [Fds -> Conns \cup {NoConn}]
           /\ \A f \in Fds : fd'[f] \in {fd[f], NoConn}
           /\ \A f \in Fds : f # clientSocket => fd'[f] = fd[f]
  BY DEF TypeOK, CloseClient

\* What the server thread knows stays true while descriptors are closed.
LEMMA ClosedBehindIt ==
    ASSUME TypeOK, NoClientAhead, BacklogInv, SessionInv, HandledInv, CommandsWholeAndInOrder,
           UNCHANGED <<backlog, peer, serverPc, newClient, currentClient, recvBuffer, received, handled>>,
           \/ UNCHANGED <<clientSocket, fd>>
           \/ CloseClient
    PROVE  BacklogInv' /\ SessionInv' /\ HandledInv' /\ CommandsWholeAndInOrder'
<1>1. /\ clientSocket' \in {clientSocket, Invalid}
      /\ \A f \in Fds : fd'[f] \in {fd[f], NoConn}
      /\ \A f \in Fds : f # clientSocket => fd'[f] = fd[f]
  BY Closing
<1>2. BacklogInv'
  <2>1. \A c \in Conns : Unknown(c) => Unknown(c)'
    BY <1>1 DEF Unknown
  <2>2. \A i \in 1 .. Len(backlog) : backlog[i] \in Conns
    BY DEF TypeOK
  <2>3. QED BY <2>1, <2>2 DEF BacklogInv
<1>3. SessionInv'
  <2>1. serverPc = "store" => clientSocket = Invalid
    BY DEF NoClientAhead
  <2>2. serverPc = "store" => fd'[newClient] = fd[newClient]
    BY <1>1, <2>1 DEF SessionInv
  <2>3. InLoop' <=> InLoop
    BY DEF InLoop
  <2>4. \A c, n : (BufferHolds(c, n)' <=> BufferHolds(c, n)) /\ (HandledUpTo(c, n)' <=> HandledUpTo(c, n))
    BY DEF BufferHolds, HandledUpTo, HandledAt
  <2>5. InLoop => newClient \in Fds /\ fd'[newClient] \in {fd[newClient], NoConn}
    BY <1>1 DEF SessionInv
  <2>6. QED BY <1>1, <2>2, <2>3, <2>4, <2>5 DEF SessionInv
<1>4. HandledInv' /\ CommandsWholeAndInOrder'
  BY DEF HandledInv, HandledAt, CommandsWholeAndInOrder
<1>5. QED BY <1>2, <1>3, <1>4

\* The main thread keeps the invariant.
LEMMA MainThreadKeeps ==
    ASSUME IInv, Sending \/ Stop \/ Stopping
    PROVE  IInv'
<1> USE DEF IInv
<1>1. NoClientAhead'
  BY MainThreadSteps
<1>2. /\ UNCHANGED <<backlog, peer, sent, serverPc, newClient, currentClient, recvBuffer, received,
                     handled>>
      /\ UNCHANGED <<clientSocket, fd>> \/ CloseClient
  BY DEF Sending, Stop, Stopping, SendMessage, SendSucceeds, SendFails, DropClient,
         StopServer, StopClient, Join, serverVars, clientVars, socketVars
<1>3. /\ running' \in BOOLEAN /\ serverSocket' \in {"none", "listening", "closed"}
      /\ mainPc' \in {"idle", "send", "failed", "close_server", "close_client", "join", "joined"}
      /\ sendTo' \in Fds \cup {Invalid}
  BY DEF TypeOK, Sending, Stop, Stopping, SendMessage, SendSucceeds, SendFails, GiveUp, DropClient,
         StopServer, StopClient, Join, socketVars
<1>4. clientSocket' \in Fds \cup {Invalid} /\ fd' \in [Fds -> Conns \cup {NoConn}]
  BY <1>2, Closing DEF TypeOK
<1>5. full' \subseteq Conns
  <2>1. CASE SendSucceeds
    BY <2>1 DEF SendSucceeds, TypeOK
  <2>2. CASE ~SendSucceeds
    BY <2>2 DEF TypeOK, Sending, Stop, Stopping, SendMessage, SendFails, DropClient, StopServer,
                StopClient, Join
  <2>3. QED BY <2>1, <2>2
<1>6. TypeOK'
  BY <1>2, <1>3, <1>4, <1>5 DEF TypeOK
<1>7. QED BY <1>1, <1>2, <1>6, ClosedBehindIt

\* A client that connects has not been known before.
LEMMA ClientsKeep ==
    ASSUME IInv, Clients
    PROVE  IInv'
<1> USE DEF IInv
<1>1. NoClientAhead'
  BY ClientSteps
<1>2. /\ UNCHANGED <<running, socketVars, serverVars, mainPc, sendTo>>
      /\ full' \subseteq full
  BY DEF Clients, Connect, Send, Read, Leave, mainVars
<1>3. SessionInv' /\ HandledInv' /\ CommandsWholeAndInOrder'
  BY <1>2 DEF SessionInv, HandledInv, CommandsWholeAndInOrder, InLoop, BufferHolds, HandledUpTo,
              HandledAt, socketVars, serverVars
<1>4. \A c \in Conns : Unknown(c)' <=> Unknown(c)
  BY <1>2 DEF Unknown, socketVars, serverVars
<1>5. ASSUME NEW c \in Conns, Connect(c) PROVE TypeOK' /\ BacklogInv'
  <2>1. /\ peer[c] = "away" /\ peer' = [peer EXCEPT ![c] = "here"]
        /\ backlog' = Append(backlog, c) /\ backlog \in Seq(Conns)
    BY <1>5 DEF Connect, TypeOK
  <2>2. TypeOK'
    BY <1>2, <1>5, <2>1 DEF TypeOK, Connect, socketVars, serverVars, mainVars
  <2>3. /\ Len(backlog') = Len(backlog) + 1 /\ Len(backlog) \in Nat
        /\ backlog'[Len(backlog) + 1] = c
        /\ \A i \in 1 .. Len(backlog) : backlog'[i] = backlog[i] /\ backlog[i] \in Conns
    BY <2>1
  <2>4. \A i \in 1 .. Len(backlog') : i = Len(backlog) + 1 \/ i \in 1 .. Len(backlog)
    BY <2>3
  <2>5. \A i \in 1 .. Len(backlog) : backlog[i] # c
    BY <2>1 DEF BacklogInv
  <2>6. \A d \in Conns : d # c => peer'[d] = peer[d]
    BY <2>1 DEF TypeOK
  <2>7. Unknown(c) /\ peer'[c] = "here"
    BY <2>1 DEF BacklogInv, TypeOK
  <2>8. BacklogInv'
    BY <1>4, <2>3, <2>4, <2>5, <2>6, <2>7 DEF BacklogInv
  <2>9. QED BY <2>2, <2>8
<1>6. ASSUME NEW c \in Conns, Send(c) \/ Read(c) \/ Leave(c) PROVE TypeOK' /\ BacklogInv'
  <2>1. backlog' = backlog /\ \A d \in Conns : peer'[d] = "away" <=> peer[d] = "away"
    BY <1>6 DEF Send, Read, Leave, clientVars, TypeOK
  <2>2. sent' \in [Conns -> 0 .. 2 * MaxMessages]
    <3>1. sent[c] \in 0 .. 2 * MaxMessages
      BY DEF TypeOK
    <3>2. sent[c] < 2 * MaxMessages => sent[c] + 1 \in 0 .. 2 * MaxMessages
      BY <3>1
    <3>3. QED BY <1>6, <3>2 DEF Send, Read, Leave, clientVars, TypeOK
  <2>3. peer' \in [Conns -> {"away", "here", "left"}]
    BY <1>6 DEF Send, Read, Leave, clientVars, TypeOK
  <2>4. \A i \in 1 .. Len(backlog) : backlog[i] \in Conns
    BY DEF TypeOK
  <2>5. TypeOK'
    BY <1>2, <2>1, <2>2, <2>3 DEF TypeOK, socketVars, serverVars, mainVars
  <2>6. BacklogInv'
    BY <1>4, <2>1, <2>4 DEF BacklogInv
  <2>7. QED BY <2>5, <2>6
<1>7. QED BY <1>1, <1>3, <1>5, <1>6 DEF Clients

-----------------------------------------------------------------------------
(* The server thread *)

\* Steps that neither accept nor read.
LEMMA QuietSteps ==
    ASSUME IInv,
           \/ Listen \/ Loop \/ AcceptFails \/ CopyClient \/ RecvFails \/ NoMoreLines
           \/ LoseClient
    PROVE  TypeOK' /\ BacklogInv' /\ SessionInv' /\ HandledInv' /\ CommandsWholeAndInOrder'
<1> USE DEF IInv
<1>1. /\ UNCHANGED <<backlog, peer, sent, newClient, recvBuffer, received, handled, mainPc, sendTo,
                     full>>
      /\ UNCHANGED <<clientSocket, fd>> \/ CloseClient
  BY DEF Listen, Loop, AcceptFails, CopyClient, RecvFails, NoMoreLines, LoseClient,
         socketVars, clientVars, mainVars
<1>2. /\ running' \in BOOLEAN /\ serverSocket' \in {"none", "listening", "closed"}
      /\ currentClient' \in Fds \cup {Invalid}
      /\ serverPc' \in {"loop", "accept", "copy", "recv", "lost", "ended"}
  BY DEF TypeOK, Listen, Loop, AcceptFails, CopyClient, RecvFails, NoMoreLines, LoseClient,
         socketVars
<1>3. /\ clientSocket' \in {clientSocket, Invalid}
      /\ \A f \in Fds : fd'[f] \in {fd[f], NoConn}
      /\ fd' \in [Fds -> Conns \cup {NoConn}]
  BY <1>1, Closing DEF TypeOK
<1>4. TypeOK'
  BY <1>1, <1>2, <1>3 DEF TypeOK
<1>5. BacklogInv'
  <2>1. \A c \in Conns : Unknown(c) => Unknown(c)'
    BY <1>1, <1>3 DEF Unknown
  <2>2. \A i \in 1 .. Len(backlog) : backlog[i] \in Conns
    BY DEF TypeOK
  <2>3. QED BY <1>1, <2>1, <2>2 DEF BacklogInv
<1>6. /\ InLoop' => InLoop
      /\ serverPc' \in {"recv", "split", "lost"} => currentClient' = newClient
  BY DEF Listen, Loop, AcceptFails, CopyClient, RecvFails, NoMoreLines, LoseClient,
         InLoop, SessionInv
<1>7. SessionInv'
  <2>1. \A c, n : (BufferHolds(c, n)' <=> BufferHolds(c, n)) /\ (HandledUpTo(c, n)' <=> HandledUpTo(c, n))
    BY <1>1 DEF BufferHolds, HandledUpTo, HandledAt
  <2>2. InLoop => newClient \in Fds /\ fd'[newClient] \in {fd[newClient], NoConn}
    BY <1>3 DEF SessionInv
  <2>3. QED BY <1>1, <1>2, <1>3, <1>6, <2>1, <2>2 DEF SessionInv
<1>8. HandledInv' /\ CommandsWholeAndInOrder'
  BY <1>1 DEF HandledInv, HandledAt, CommandsWholeAndInOrder
<1>9. QED BY <1>4, <1>5, <1>7, <1>8

\* accept() takes the first of those waiting, of whom nothing is known.
LEMMA AcceptKeeps ==
    ASSUME IInv, NEW f \in Fds, Accept(f)
    PROVE  TypeOK' /\ BacklogInv' /\ SessionInv' /\ HandledInv' /\ CommandsWholeAndInOrder'
<1> USE DEF IInv
<1> DEFINE c == Head(backlog)
<1>1. /\ backlog \in Seq(Conns) /\ backlog # << >> /\ backlog' = Tail(backlog)
      /\ fd' = [fd EXCEPT ![f] = c] /\ newClient' = f /\ serverPc' = "store"
      /\ UNCHANGED <<peer, received, recvBuffer, handled>>
  BY DEF Accept, TypeOK
<1>2. /\ c \in Conns /\ c = backlog[1] /\ 1 \in 1 .. Len(backlog) /\ Len(backlog) \in Nat
      /\ Len(backlog') = Len(backlog) - 1
      /\ \A i \in 1 .. Len(backlog') : /\ i + 1 \in 1 .. Len(backlog) /\ i + 1 # 1
                                       /\ backlog'[i] = backlog[i + 1]
  BY <1>1
<1>3. TypeOK'
  BY <1>1, <1>2 DEF TypeOK, Accept, mainVars
<1>4. fd'[f] = c /\ received'[c] = 0 /\ peer[c] # "away"
  BY <1>1, <1>2 DEF BacklogInv, Unknown, TypeOK
<1>5. \A d \in Conns : d # c /\ Unknown(d) => Unknown(d)'
  BY <1>1 DEF Unknown, TypeOK
<1>6. BacklogInv'
  <2>1. \A i \in 1 .. Len(backlog') : backlog'[i] # c /\ backlog'[i] \in Conns
    BY <1>1, <1>2 DEF BacklogInv
  <2>2. \A i, j \in 1 .. Len(backlog') : backlog'[i] = backlog'[j] => i = j
    <3>1. \A i, j \in 1 .. Len(backlog') : backlog'[i] = backlog'[j] => i + 1 = j + 1
      BY <1>2 DEF BacklogInv
    <3>2. QED BY <3>1
  <2>3. QED BY <1>1, <1>2, <1>4, <1>5, <2>1, <2>2 DEF BacklogInv
<1>7. SessionInv'
  BY <1>1, <1>2, <1>4 DEF SessionInv, InLoop
<1>8. HandledInv' /\ CommandsWholeAndInOrder'
  BY <1>1 DEF HandledInv, HandledAt, CommandsWholeAndInOrder
<1>9. QED BY <1>3, <1>6, <1>7, <1>8

\* The newcomer becomes the client; nothing of it has been read or handled.
LEMMA StoreKeeps ==
    ASSUME IInv, Store
    PROVE  TypeOK' /\ BacklogInv' /\ SessionInv' /\ HandledInv' /\ CommandsWholeAndInOrder'
<1> USE DEF IInv
<1>1. clientSocket = Invalid /\ newClient \in Fds
  BY DEF NoClientAhead, Store, SessionInv
<1>2. /\ clientSocket' = newClient /\ recvBuffer' = << >> /\ serverPc' = "copy"
      /\ UNCHANGED <<running, serverSocket, fd, backlog, peer, sent, newClient, currentClient,
                     received, handled, mainPc, sendTo, full>>
  BY <1>1 DEF Store, FreshBuffer, clientVars, mainVars
<1>3. TypeOK'
  BY <1>1, <1>2 DEF TypeOK
<1>4. BacklogInv' /\ HandledInv' /\ CommandsWholeAndInOrder'
  BY <1>2 DEF BacklogInv, Unknown, HandledInv, HandledAt, CommandsWholeAndInOrder
<1>5. SessionInv'
  <2>1. PICK c \in Conns : c = fd[newClient] /\ received[c] = 0
    BY DEF SessionInv, Store
  <2>2. BufferHolds(c, 0)'
    BY <1>2, <2>1 DEF BufferHolds
  <2>3. HandledUpTo(c, 0)'
    <3>1. \A j \in 1 .. Len(handled), m \in 1 .. MaxMessages : ~HandledAt(j, c, m)
      BY <2>1 DEF HandledInv
    <3>2. QED BY <1>2, <3>1 DEF HandledUpTo, HandledAt
  <2>4. newClient' \in Fds /\ clientSocket' = newClient' /\ fd'[newClient'] \in {c, NoConn}
    BY <1>1, <1>2, <2>1
  <2>5. \E e \in Conns, m \in Nat :
           fd'[newClient'] \in {e, NoConn} /\ BufferHolds(e, m)' /\ HandledUpTo(e, m)'
    BY <2>2, <2>3, <2>4
  <2>6. QED BY <1>2, <2>4, <2>5 DEF SessionInv
<1>6. QED BY <1>3, <1>4, <1>5

\* What is read continues what the buffer holds.
LEMMA RecvKeeps ==
    ASSUME IInv, NEW d \in Conns, NEW k \in 1 .. 2 * MaxMessages, Recv(d, k)
    PROVE  TypeOK' /\ BacklogInv' /\ SessionInv' /\ HandledInv' /\ CommandsWholeAndInOrder'
<1> USE DEF IInv
<1>1. /\ serverPc = "recv" /\ fd[currentClient] = d /\ received[d] < k
      /\ received' = [received EXCEPT ![d] = k]
      /\ serverPc' = "split"
      /\ UNCHANGED <<running, serverSocket, clientSocket, fd, backlog, peer, sent, newClient,
                     currentClient, handled, mainPc, sendTo, full>>
  BY DEF Recv, socketVars, clientVars, mainVars
<1>2. PICK c \in Conns, n \in Nat :
          fd[newClient] \in {c, NoConn} /\ BufferHolds(c, n) /\ HandledUpTo(c, n)
  BY <1>1 DEF SessionInv, InLoop
<1>3. newClient \in Fds /\ currentClient = newClient /\ clientSocket \in {newClient, Invalid}
  BY <1>1 DEF SessionInv, InLoop
<1>4. d = c
  BY <1>1, <1>2, <1>3
<1> DEFINE more == [i \in 1 .. k - received[d] |-> [conn |-> d, k |-> received[d] + i]]
<1>5. /\ received[d] \in 0 .. 2 * MaxMessages /\ received'[d] = k
      /\ received' \in [Conns -> 0 .. 2 * MaxMessages]
      /\ \A e \in Conns : e # d => received'[e] = received[e]
  BY <1>1 DEF TypeOK
<1>6. k - received[d] \in Nat
  BY <1>1, <1>5
<1>7. \A i \in 1 .. k - received[d] : [conn |-> d, k |-> received[d] + i] \in Fragment
  BY <1>5 DEF Fragment
<1>8. more \in Seq(Fragment) /\ Len(more) = k - received[d]
  BY <1>6, <1>7
<1>9. recvBuffer' = recvBuffer \o more
  BY DEF Recv
<1>10. \A i \in 1 .. k - received[d] : more[i] = [conn |-> d, k |-> received[d] + i]
  OBVIOUS
<1> HIDE DEF more
<1>11. recvBuffer \in Seq(Fragment) /\ Len(recvBuffer) \in Nat
  BY DEF TypeOK
<1>12. /\ recvBuffer' \in Seq(Fragment) /\ Len(recvBuffer') = Len(recvBuffer) + (k - received[d])
       /\ \A i \in 1 .. Len(recvBuffer') :
             recvBuffer'[i] = IF i <= Len(recvBuffer) THEN recvBuffer[i] ELSE more[i - Len(recvBuffer)]
  BY <1>8, <1>9, <1>11, ConcatProperties
<1>13. TypeOK'
  BY <1>1, <1>5, <1>12 DEF TypeOK
<1>14. \A e \in Conns : Unknown(e) => e # d
  BY <1>1, <1>3 DEF Unknown
<1>15. BacklogInv'
  <2>1. \A e \in Conns : Unknown(e) => Unknown(e)'
    BY <1>1, <1>5, <1>14 DEF Unknown
  <2>2. \A i \in 1 .. Len(backlog) : backlog[i] \in Conns
    BY DEF TypeOK
  <2>3. QED BY <1>1, <2>1, <2>2 DEF BacklogInv
<1>16. BufferHolds(c, n)'
  <2>1. received[d] = 2 * n + Len(recvBuffer)
    BY <1>2, <1>4 DEF BufferHolds
  <2>2. received'[c] = 2 * n + Len(recvBuffer')
    BY <1>4, <1>5, <1>11, <1>12, <2>1
  <2>3. ASSUME NEW i \in 1 .. Len(recvBuffer') PROVE recvBuffer'[i] = [conn |-> c, k |-> 2 * n + i]
    <3>1. CASE i <= Len(recvBuffer)
      <4>1. i \in 1 .. Len(recvBuffer) /\ recvBuffer'[i] = recvBuffer[i]
        BY <1>11, <1>12, <3>1
      <4>2. QED BY <1>2, <4>1 DEF BufferHolds
    <3>2. CASE ~(i <= Len(recvBuffer))
      <4>1. /\ i - Len(recvBuffer) \in 1 .. k - received[d]
            /\ recvBuffer'[i] = more[i - Len(recvBuffer)]
            /\ received[d] + (i - Len(recvBuffer)) = 2 * n + i
        BY <1>5, <1>11, <1>12, <2>1, <3>2
      <4>2. QED BY <1>4, <1>10, <4>1
    <3>3. QED BY <3>1, <3>2
  <2>4. QED BY <2>2, <2>3 DEF BufferHolds
<1>17. SessionInv'
  <2>1. HandledUpTo(c, n)'
    BY <1>1, <1>2 DEF HandledUpTo, HandledAt
  <2>2. QED BY <1>1, <1>2, <1>3, <1>16, <2>1 DEF SessionInv
<1>18. HandledInv' /\ CommandsWholeAndInOrder'
  <2>1. \A e \in Conns : received[e] > 0 => received'[e] > 0
    BY <1>5
  <2>2. HandledInv'
    <3>1. \A j, e, m : HandledAt(j, e, m)' <=> HandledAt(j, e, m)
      BY <1>1 DEF HandledAt
    <3>2. QED BY <1>1, <2>1, <3>1 DEF HandledInv
  <2>3. CommandsWholeAndInOrder'
    <3>1. CommandsWholeAndInOrder /\ handled' = handled
      BY <1>1
    <3>2. QED BY <3>1, NothingHandled
  <2>4. QED BY <2>2, <2>3
<1>19. QED BY <1>13, <1>15, <1>17, <1>18

\* The line cut off the buffer is the connection's next command.
LEMMA SplitKeeps ==
    ASSUME IInv, SplitLine
    PROVE  TypeOK' /\ BacklogInv' /\ SessionInv' /\ HandledInv' /\ CommandsWholeAndInOrder'
<1> USE DEF IInv
<1>1. /\ serverPc = "split" /\ Newlines # {}
      /\ UNCHANGED <<running, serverSocket, clientSocket, fd, backlog, peer, sent, newClient,
                     currentClient, received, serverPc, mainPc, sendTo, full>>
  BY DEF SplitLine, socketVars, clientVars, mainVars
<1>2. PICK c \in Conns, n \in Nat :
          fd[newClient] \in {c, NoConn} /\ BufferHolds(c, n) /\ HandledUpTo(c, n)
  BY <1>1 DEF SessionInv, InLoop
<1>3. 2 <= Len(recvBuffer) /\ recvBuffer \in Seq(Fragment) /\ Len(recvBuffer) \in Nat
  BY <1>1, <1>2, FirstLine DEF TypeOK
<1>4. /\ handled' = Append(handled, CommandOf(c, n + 1))
      /\ recvBuffer' = SubSeq(recvBuffer, 3, Len(recvBuffer))
  <2>1. LineEnd = 2 /\ SubSeq(recvBuffer, 1, LineEnd) = CommandOf(c, n + 1)
    BY <1>1, <1>2, FirstLine
  <2>2. /\ handled' = Append(handled, SubSeq(recvBuffer, 1, LineEnd))
        /\ recvBuffer' = SubSeq(recvBuffer, LineEnd + 1, Len(recvBuffer))
    BY DEF SplitLine
  <2>3. LineEnd + 1 = 3
    BY <2>1
  <2>4. QED BY <2>1, <2>2, <2>3
<1>5. n + 1 \in 1 .. MaxMessages /\ received[c] > 0
  BY <1>2, <1>3 DEF TypeOK, BufferHolds
<1>6. /\ recvBuffer' \in Seq(Fragment) /\ Len(recvBuffer') = Len(recvBuffer) - 2
      /\ \A i \in 1 .. Len(recvBuffer') :
            i + 2 \in 1 .. Len(recvBuffer) /\ recvBuffer'[i] = recvBuffer[i + 2]
  <2>1. \A i \in 3 .. Len(recvBuffer) : recvBuffer[i] \in Fragment
    BY <1>3
  <2>2. /\ recvBuffer' \in Seq(Fragment)
        /\ Len(recvBuffer') = IF 3 <= Len(recvBuffer) THEN Len(recvBuffer) - 3 + 1 ELSE 0
        /\ \A i \in 1 .. Len(recvBuffer) - 3 + 1 : recvBuffer'[i] = recvBuffer[3 + i - 1]
    BY <1>3, <1>4, <2>1, SubSeqProperties
  <2>3. Len(recvBuffer') = Len(recvBuffer) - 2
    <3>1. 3 <= Len(recvBuffer) \/ Len(recvBuffer) = 2
      <4>1. 2 <= Len(recvBuffer) /\ Len(recvBuffer) \in Nat
        BY <1>3
      <4>2. \A l \in Nat : 2 <= l => 3 <= l \/ l = 2
        OBVIOUS
      <4>3. QED BY <4>1, <4>2
    <3>2. CASE 3 <= Len(recvBuffer)
      BY <1>3, <2>2, <3>2
    <3>3. CASE Len(recvBuffer) = 2
      BY <2>2, <3>3
    <3>4. QED BY <3>1, <3>2, <3>3
  <2>4. ASSUME NEW i \in 1 .. Len(recvBuffer')
        PROVE  i + 2 \in 1 .. Len(recvBuffer) /\ recvBuffer'[i] = recvBuffer[i + 2]
    <3>1. i \in 1 .. Len(recvBuffer) - 3 + 1 /\ 3 + i - 1 = i + 2
      BY <1>3, <2>3
    <3>2. QED BY <1>3, <2>2, <3>1
  <2>5. QED BY <2>2, <2>3, <2>4
<1>7. CommandOf(c, n + 1) \in Seq(Fragment)
  <2>1. /\ [conn |-> c, k |-> 2 * (n + 1) - 1] \in Fragment
        /\ [conn |-> c, k |-> 2 * (n + 1)] \in Fragment
    BY <1>5 DEF Fragment
  <2>2. QED BY <2>1 DEF CommandOf
<1>8. handled \in Seq(Seq(Fragment)) /\ Len(handled) \in Nat
  BY DEF TypeOK
<1>9. /\ handled' \in Seq(Seq(Fragment)) /\ Len(handled') = Len(handled) + 1
      /\ \A j \in 1 .. Len(handled) : handled'[j] = handled[j]
      /\ handled'[Len(handled) + 1] = CommandOf(c, n + 1)
  BY <1>4, <1>7, <1>8, AppendProperties
<1>10. TypeOK'
  BY <1>1, <1>6, <1>9 DEF TypeOK
<1>11. \A j \in 1 .. Len(handled') : j = Len(handled) + 1 \/ j \in 1 .. Len(handled)
  BY <1>8, <1>9
<1>12. /\ \A j \in 1 .. Len(handled) : \A e, m : HandledAt(j, e, m)' <=> HandledAt(j, e, m)
       /\ \A j \in 1 .. Len(handled') : \A e \in Conns, m \in 1 .. MaxMessages :
             j = Len(handled) + 1 /\ HandledAt(j, e, m)' => e = c /\ m = n + 1
       /\ \A j \in 1 .. Len(handled') : j = Len(handled) + 1 => HandledAt(j, c, n + 1)'
  <2>1. \A j \in 1 .. Len(handled) : j \in 1 .. Len(handled')
    BY <1>8, <1>9
  <2>2. \A e \in Conns, m \in 1 .. MaxMessages :
           CommandOf(c, n + 1) = CommandOf(e, m) => e = c /\ m = n + 1
    BY DifferentCommands
  <2>3. \A j \in 1 .. Len(handled) : \A e, m : HandledAt(j, e, m)' <=> HandledAt(j, e, m)
    BY <1>9, <2>1 DEF HandledAt, CommandOf
  <2>4. \A j \in 1 .. Len(handled') : j = Len(handled) + 1 => handled'[j] = CommandOf(c, n + 1)
    BY <1>9
  <2>5. QED BY <2>2, <2>3, <2>4 DEF HandledAt
<1>13. HandledUpTo(c, n + 1)'
  <2>1. ASSUME NEW m \in 1 .. n + 1 PROVE \E j \in 1 .. Len(handled') : HandledAt(j, c, m)'
    <3>1. CASE m = n + 1
      <4>1. Len(handled) + 1 \in 1 .. Len(handled')
        BY <1>8, <1>9
      <4>2. QED BY <1>12, <3>1, <4>1
    <3>2. CASE m # n + 1
      <4>1. m \in 1 .. n
        BY <3>2
      <4>2. PICK j \in 1 .. Len(handled) : HandledAt(j, c, m)
        BY <1>2, <4>1 DEF HandledUpTo
      <4>3. j \in 1 .. Len(handled') /\ HandledAt(j, c, m)'
        BY <1>8, <1>9, <1>12, <4>2
      <4>4. QED BY <4>3
    <3>3. QED BY <3>1, <3>2
  <2>2. ASSUME NEW j \in 1 .. Len(handled'), NEW m \in 1 .. MaxMessages, HandledAt(j, c, m)'
        PROVE  m <= n + 1
    <3>1. CASE j = Len(handled) + 1
      BY <1>12, <2>2, <3>1
    <3>2. CASE j \in 1 .. Len(handled)
      <4>1. m <= n
        BY <1>2, <1>12, <2>2, <3>2 DEF HandledUpTo
      <4>2. QED BY <4>1
    <3>3. QED BY <1>11, <3>1, <3>2
  <2>3. QED BY <2>1, <2>2 DEF HandledUpTo
<1>14. BufferHolds(c, n + 1)'
  <2>1. received'[c] = 2 * (n + 1) + Len(recvBuffer')
    BY <1>1, <1>2, <1>3, <1>6 DEF BufferHolds
  <2>2. ASSUME NEW i \in 1 .. Len(recvBuffer')
        PROVE  recvBuffer'[i] = [conn |-> c, k |-> 2 * (n + 1) + i]
    <3>1. recvBuffer'[i] = [conn |-> c, k |-> 2 * n + (i + 2)]
      BY <1>2, <1>6 DEF BufferHolds
    <3>2. 2 * n + (i + 2) = 2 * (n + 1) + i
      OBVIOUS
    <3>3. QED BY <3>1, <3>2
  <2>3. QED BY <2>1, <2>2 DEF BufferHolds
<1>15. SessionInv'
  <2>1. n + 1 \in Nat /\ fd'[newClient'] \in {c, NoConn}
    BY <1>1, <1>2
  <2>2. \E d \in Conns, m \in Nat :
           fd'[newClient'] \in {d, NoConn} /\ BufferHolds(d, m)' /\ HandledUpTo(d, m)'
    BY <1>13, <1>14, <2>1
  <2>3. QED BY <1>1, <2>2 DEF SessionInv, InLoop
<1>16. HandledInv'
  BY <1>1, <1>5, <1>11, <1>12 DEF HandledInv
<1>17. CommandsWholeAndInOrder'
  <2>1. ASSUME NEW i \in 1 .. Len(handled)
        PROVE  \E e \in Conns, m \in 1 .. MaxMessages :
                  /\ handled'[i] = CommandOf(e, m)
                  /\ \A l \in 1 .. m - 1 : \E j \in 1 .. i - 1 : handled'[j] = CommandOf(e, l)
                  /\ \A l \in 1 .. MaxMessages, j \in 1 .. i - 1 :
                        handled'[j] = CommandOf(e, l) => l < m
    <3>1. \A j \in 1 .. i - 1 : j \in 1 .. Len(handled)
      BY <1>8
    <3>2. handled'[i] = handled[i] /\ \A j \in 1 .. i - 1 : handled'[j] = handled[j]
      BY <1>9, <3>1
    <3>3. PICK e \in Conns, m \in 1 .. MaxMessages :
             /\ handled[i] = CommandOf(e, m)
             /\ \A l \in 1 .. m - 1 : \E j \in 1 .. i - 1 : handled[j] = CommandOf(e, l)
             /\ \A l \in 1 .. MaxMessages, j \in 1 .. i - 1 :
                   handled[j] = CommandOf(e, l) => l < m
      BY DEF CommandsWholeAndInOrder
    <3>4. QED BY <3>2, <3>3
  <2>2. ASSUME NEW i \in 1 .. Len(handled'), i = Len(handled) + 1
        PROVE  /\ handled'[i] = CommandOf(c, n + 1)
               /\ \A l \in 1 .. (n + 1) - 1 : \E j \in 1 .. i - 1 : handled'[j] = CommandOf(c, l)
               /\ \A l \in 1 .. MaxMessages, j \in 1 .. i - 1 :
                     handled'[j] = CommandOf(c, l) => l < n + 1
    <3>1. 1 .. i - 1 = 1 .. Len(handled) /\ 1 .. (n + 1) - 1 = 1 .. n
      BY <1>8, <2>2
    <3>2. handled'[i] = CommandOf(c, n + 1)
      BY <1>9, <2>2
    <3>3. \A l \in 1 .. n : \E j \in 1 .. Len(handled) : handled'[j] = CommandOf(c, l)
      BY <1>2, <1>9 DEF HandledUpTo, HandledAt
    <3>4. \A l \in 1 .. MaxMessages, j \in 1 .. Len(handled) :
             handled'[j] = CommandOf(c, l) => l < n + 1
      <4>1. \A l \in 1 .. MaxMessages, j \in 1 .. Len(handled) :
               handled[j] = CommandOf(c, l) => l <= n
        BY <1>2 DEF HandledUpTo, HandledAt
      <4>2. \A l \in 1 .. MaxMessages : l <= n => l < n + 1
        OBVIOUS
      <4>3. QED BY <1>9, <4>1, <4>2
    <3>5. QED BY <3>1, <3>2, <3>3, <3>4
  <2>3. QED BY <1>5, <1>11, <2>1, <2>2 DEF CommandsWholeAndInOrder
<1>18. BacklogInv'
  BY <1>1 DEF BacklogInv, Unknown
<1>19. QED BY <1>10, <1>15, <1>16, <1>17, <1>18

-----------------------------------------------------------------------------
(* Theorems *)

\* The invariant holds when the server has been started, and from then on.
THEOREM Invariance == Spec => []IInv
<1>1. Init => IInv
  <2> SUFFICES ASSUME Init PROVE IInv
    OBVIOUS
  <2>1. TypeOK /\ NoClientAhead
    BY DEF Init, TypeOK, NoClientAhead
  <2>2. BacklogInv /\ SessionInv /\ HandledInv /\ CommandsWholeAndInOrder
    BY DEF Init, BacklogInv, Unknown, SessionInv, InLoop, HandledInv, CommandsWholeAndInOrder
  <2>3. QED BY <2>1, <2>2 DEF IInv
<1>2. IInv /\ [Next]_vars => IInv'
  <2> SUFFICES ASSUME IInv, [Next]_vars PROVE IInv'
    OBVIOUS
  <2>1. CASE Clients
    BY <2>1, ClientsKeep
  <2>2. CASE ServerThread
    <3>1. NoClientAhead'
      BY <2>2, ServerThreadSteps DEF IInv
    <3>2. TypeOK' /\ BacklogInv' /\ SessionInv' /\ HandledInv' /\ CommandsWholeAndInOrder'
      BY <2>2, QuietSteps, AcceptKeeps, StoreKeeps, RecvKeeps, SplitKeeps DEF ServerThread
    <3>3. QED BY <3>1, <3>2 DEF IInv
  <2>3. CASE Sending \/ Stop \/ Stopping
    BY <2>3, MainThreadKeeps
  <2>4. CASE Terminated \/ UNCHANGED vars
    <3>1. UNCHANGED <<running, serverSocket, clientSocket, fd, backlog, peer, sent, serverPc,
                      newClient, currentClient, recvBuffer, received, handled, mainPc, sendTo, full>>
      BY <2>4 DEF Terminated, vars, socketVars, clientVars, serverVars, mainVars
    <3>2. TypeOK' /\ NoClientAhead'
      BY <3>1 DEF IInv, TypeOK, NoClientAhead
    <3>3. BacklogInv'
      BY <3>1 DEF IInv, BacklogInv, Unknown
    <3>4. SessionInv'
      <4>1. \A c, n : (BufferHolds(c, n)' <=> BufferHolds(c, n))
                      /\ (HandledUpTo(c, n)' <=> HandledUpTo(c, n))
        BY <3>1 DEF BufferHolds, HandledUpTo, HandledAt
      <4>2. QED BY <3>1, <4>1 DEF IInv, SessionInv, InLoop
    <3>5. HandledInv'
      <4>1. \A j, c, m : HandledAt(j, c, m)' <=> HandledAt(j, c, m)
        BY <3>1 DEF HandledAt
      <4>2. QED BY <3>1, <4>1 DEF IInv, HandledInv
    <3>6. CommandsWholeAndInOrder'
      <4>1. CommandsWholeAndInOrder /\ handled' = handled
        BY <3>1 DEF IInv
      <4>2. QED BY <4>1, NothingHandled
    <3>7. QED BY <3>2, <3>3, <3>4, <3>5, <3>6 DEF IInv
  <2>5. QED BY <2>1, <2>2, <2>3, <2>4 DEF Next
<1>3. QED BY <1>1, <1>2, PTL DEF Spec

\* All variables of the server keep their types.
THEOREM TypeCorrect == Spec => []TypeOK
<1>1. IInv => TypeOK
  BY DEF IInv
<1>2. QED BY <1>1, Invariance, PTL

\* However the stream of a connection is cut, whichever thread closes its
\* descriptor at whatever moment, and whatever connection gets the descriptor
\* next: what goes to onMessage are the commands sent, whole and in order.
THEOREM CommandsArriveWhole == Spec => []CommandsWholeAndInOrder
<1>1. IInv => CommandsWholeAndInOrder
  BY DEF IInv
<1>2. QED BY <1>1, Invariance, PTL

-----------------------------------------------------------------------------
(* Descriptors, and the end of the server thread *)

\* The client's descriptor, and the newcomer's before it is stored.
Known(f) == f = clientSocket \/ (serverPc = "store" /\ f = newClient)
DescriptorInv == \A f \in Fds : fd[f] # NoConn <=> Known(f)

\* How far stop() has come, and what the server thread can then not be in.
StopInv ==
    /\ mainPc \in {"close_server", "close_client", "join", "joined"} => ~running
    /\ serverPc \in {"loop", "accept", "store"} \/ InLoop => serverSocket # "none"
    /\ mainPc \in {"close_client", "join", "joined"} /\ serverPc = "accept" =>
          serverSocket = "closed"
    /\ mainPc \in {"join", "joined"} /\ serverPc = "recv" => clientSocket = Invalid

\* Whoever closes the client's descriptor also forgets it.
LEMMA ClosedIsForgotten ==
    ASSUME IInv, DescriptorInv, CloseClient, newClient' = newClient,
           serverPc' = serverPc \/ (serverPc' # "store" /\ serverPc # "store")
    PROVE  DescriptorInv'
<1>1. fd \in [Fds -> Conns \cup {NoConn}] /\ Invalid \notin Fds
  BY DEF IInv, TypeOK
<1>2. /\ clientSocket' = Invalid
      /\ \A f \in Fds : fd'[f] = IF f = clientSocket THEN NoConn ELSE fd[f]
  BY <1>1 DEF CloseClient
<1>3. serverPc = "store" => clientSocket = Invalid
  BY DEF IInv, NoClientAhead
<1>4. QED BY <1>1, <1>2, <1>3 DEF DescriptorInv, Known

\* accept() opens a descriptor and Store makes it the client's: there is no
\* client whose descriptor it could be forgotten for.
LEMMA ServerThreadDescriptors ==
    ASSUME IInv, DescriptorInv, ServerThread
    PROVE  DescriptorInv'
<1>1. /\ fd \in [Fds -> Conns \cup {NoConn}] /\ backlog \in Seq(Conns)
      /\ newClient \in Fds \cup {Invalid} /\ Invalid \notin Fds /\ NoConn \notin Conns
  BY DEF IInv, TypeOK
<1>2. ASSUME NEW f \in Fds, Accept(f) PROVE DescriptorInv'
  <2>1. /\ backlog # << >> /\ fd' = [fd EXCEPT ![f] = Head(backlog)] /\ newClient' = f
        /\ serverPc' = "store" /\ serverPc = "accept" /\ clientSocket' = clientSocket
    BY <1>2 DEF Accept
  <2>2. Head(backlog) \in Conns
    BY <1>1, <2>1, HeadTailProperties
  <2>3. clientSocket = Invalid
    BY <2>1 DEF IInv, NoClientAhead
  <2>4. \A g \in Fds : fd'[g] = IF g = f THEN Head(backlog) ELSE fd[g]
    BY <1>1, <2>1
  <2>5. QED BY <1>1, <2>1, <2>2, <2>3, <2>4 DEF DescriptorInv, Known
<1>3. CASE Store
  <2>1. clientSocket = Invalid /\ serverPc = "store"
    BY <1>3 DEF IInv, NoClientAhead, Store
  <2>2. clientSocket' = newClient /\ serverPc' = "copy" /\ fd' = fd
    BY <1>3, <2>1 DEF Store
  <2>3. QED BY <1>1, <2>1, <2>2 DEF DescriptorInv, Known
<1>4. CASE LoseClient
  <2>1. CloseClient /\ newClient' = newClient /\ serverPc' = "loop" /\ serverPc = "lost"
    BY <1>4 DEF LoseClient
  <2>2. QED BY <2>1, ClosedIsForgotten
<1>5. CASE Listen \/ Loop \/ AcceptFails \/ CopyClient \/ RecvFails \/ SplitLine \/ NoMoreLines
  <2>1. /\ UNCHANGED <<fd, clientSocket, newClient>> /\ serverPc # "store"
        /\ serverPc' # "store"
    BY <1>5 DEF Listen, Loop, AcceptFails, CopyClient, RecvFails, SplitLine, NoMoreLines,
                socketVars
  <2>2. QED BY <2>1 DEF DescriptorInv, Known
<1>6. ASSUME NEW c \in Conns, NEW n \in 1 .. 2 * MaxMessages, Recv(c, n) PROVE DescriptorInv'
  <2>1. /\ UNCHANGED <<fd, clientSocket, newClient>> /\ serverPc = "recv" /\ serverPc' = "split"
    BY <1>6 DEF Recv, socketVars
  <2>2. QED BY <2>1 DEF DescriptorInv, Known
<1>7. QED BY <1>2, <1>3, <1>4, <1>5, <1>6 DEF ServerThread

\* The server thread enters accept() and recv() only while running.
LEMMA ServerThreadStops ==
    ASSUME IInv, StopInv, ServerThread
    PROVE  StopInv'
<1>1. CASE Listen
  BY <1>1 DEF StopInv, Listen, InLoop, mainVars
<1>2. CASE Loop
  BY <1>2 DEF StopInv, Loop, InLoop, mainVars, socketVars
<1>3. CASE \E f \in Fds : Accept(f)
  BY <1>3 DEF StopInv, Accept, InLoop, mainVars
<1>4. CASE AcceptFails
  BY <1>4 DEF StopInv, AcceptFails, InLoop, mainVars, socketVars
<1>5. CASE Store
  <2>1. /\ serverPc = "store" /\ serverPc' \in {"loop", "copy"}
        /\ UNCHANGED <<running, serverSocket, mainPc>>
    BY <1>5 DEF Store, mainVars
  <2>2. QED BY <2>1 DEF StopInv, InLoop
<1>6. CASE CopyClient
  BY <1>6 DEF StopInv, CopyClient, InLoop, mainVars, socketVars
<1>7. CASE (\E c \in Conns, n \in 1 .. 2 * MaxMessages : Recv(c, n)) \/ RecvFails
  <2>1. /\ serverPc = "recv" /\ serverPc' \in {"split", "lost"}
        /\ UNCHANGED <<running, serverSocket, mainPc>>
    BY <1>7 DEF Recv, RecvFails, mainVars, socketVars
  <2>2. QED BY <2>1 DEF StopInv, InLoop
<1>8. CASE SplitLine \/ NoMoreLines
  <2>1. /\ serverPc = "split" /\ serverPc' \in {"split", "copy"}
        /\ UNCHANGED <<running, serverSocket, mainPc>>
    BY <1>8 DEF SplitLine, NoMoreLines, mainVars, socketVars
  <2>2. QED BY <2>1 DEF StopInv, InLoop
<1>9. CASE LoseClient
  <2>1. /\ serverPc = "lost" /\ serverPc' = "loop"
        /\ UNCHANGED <<running, serverSocket, mainPc>>
    BY <1>9 DEF LoseClient, mainVars
  <2>2. QED BY <2>1 DEF StopInv, InLoop
<1>10. QED BY <1>1, <1>2, <1>3, <1>4, <1>5, <1>6, <1>7, <1>8, <1>9 DEF ServerThread

\* The main thread closes the server's socket, then the client's.
LEMMA MainThreadStops ==
    ASSUME IInv, DescriptorInv, StopInv, Sending \/ Stop \/ Stopping
    PROVE  DescriptorInv' /\ StopInv'
<1>1. /\ UNCHANGED <<serverPc, newClient>>
      /\ UNCHANGED <<clientSocket, fd>> \/ CloseClient
  BY DEF Sending, Stop, Stopping, SendMessage, SendSucceeds, SendFails, DropClient,
         StopServer, StopClient, Join, serverVars, socketVars
<1>2. DescriptorInv'
  <2>1. CASE UNCHANGED <<clientSocket, fd>>
    BY <1>1, <2>1 DEF DescriptorInv, Known
  <2>2. CASE CloseClient
    BY <1>1, <2>2, ClosedIsForgotten
  <2>3. QED BY <1>1, <2>1, <2>2
<1>3. CASE Sending
  <2>1. /\ mainPc \in {"idle", "send", "failed"} /\ mainPc' \in {"idle", "send", "failed"}
        /\ UNCHANGED <<running, serverSocket>>
    BY <1>3 DEF Sending, SendMessage, SendSucceeds, SendFails, DropClient, GiveUp, socketVars
  <2>2. QED BY <1>1, <1>2, <2>1 DEF StopInv, InLoop
<1>4. CASE Stop
  <2>1. mainPc' = "close_server" /\ ~running' /\ serverSocket' = serverSocket
    BY <1>4 DEF Stop, socketVars
  <2>2. QED BY <1>1, <1>2, <2>1 DEF StopInv, InLoop
<1>5. CASE StopServer
  <2>1. /\ mainPc = "close_server" /\ mainPc' = "close_client" /\ running' = running
        /\ serverSocket' = IF serverSocket = "listening" THEN "closed" ELSE serverSocket
    BY <1>5 DEF StopServer
  <2>2. serverSocket \in {"none", "listening", "closed"}
    BY DEF IInv, TypeOK
  <2>3. QED BY <1>1, <1>2, <2>1, <2>2 DEF StopInv, InLoop
<1>6. CASE StopClient
  <2>1. /\ mainPc = "close_client" /\ mainPc' = "join" /\ clientSocket' = Invalid
        /\ UNCHANGED <<running, serverSocket>>
    BY <1>6 DEF StopClient, CloseClient
  <2>2. QED BY <1>1, <1>2, <2>1 DEF StopInv, InLoop
<1>7. CASE Join
  <2>1. /\ mainPc = "join" /\ mainPc' = "joined"
        /\ UNCHANGED <<running, serverSocket, clientSocket>>
    BY <1>7 DEF Join, socketVars
  <2>2. QED BY <1>1, <1>2, <2>1 DEF StopInv, InLoop
<1>8. QED BY <1>3, <1>4, <1>5, <1>6, <1>7 DEF Stopping

LEMMA StoppingInvariance == Spec => [](IInv /\ DescriptorInv /\ StopInv)
<1>1. Init => DescriptorInv /\ StopInv
  BY DEF Init, DescriptorInv, Known, StopInv, InLoop
<1>2. IInv /\ DescriptorInv /\ StopInv /\ [Next]_vars => DescriptorInv' /\ StopInv'
  <2> SUFFICES ASSUME IInv, DescriptorInv, StopInv, [Next]_vars
               PROVE  DescriptorInv' /\ StopInv'
    OBVIOUS
  <2>1. CASE ServerThread
    BY <2>1, ServerThreadDescriptors, ServerThreadStops
  <2>2. CASE Sending \/ Stop \/ Stopping
    BY <2>2, MainThreadStops
  <2>3. CASE Clients \/ Terminated \/ UNCHANGED vars
    <3>1. UNCHANGED <<fd, clientSocket, serverPc, newClient, running, serverSocket, mainPc>>
      BY <2>3 DEF Clients, Connect, Send, Read, Leave, Terminated, vars, socketVars, serverVars,
                  mainVars
    <3>2. QED BY <3>1 DEF DescriptorInv, Known, StopInv, InLoop
  <2>4. QED BY <2>1, <2>2, <2>3 DEF Next
<1>3. QED BY <1>1, <1>2, Invariance, PTL DEF Spec

\* A lost client's descriptor is closed, once, by whichever thread comes
\* first, and clientSocket names an open descriptor or none.
THEOREM NoDescriptorLeaks == Spec => []OpenDescriptorsAreKnown
<1>1. DescriptorInv => OpenDescriptorsAreKnown
  BY DEF DescriptorInv, Known, OpenDescriptorsAreKnown
<1>2. QED BY <1>1, StoppingInvariance, PTL

\* When stop() comes to join(), the server thread is in no call that could
\* block for ever: the safety half of StopEnds.
THEOREM StopFreesServerThread == Spec => []StopLeavesNoWait
<1>1. IInv /\ DescriptorInv /\ StopInv => StopLeavesNoWait
  <2> SUFFICES ASSUME IInv, DescriptorInv, StopInv, mainPc = "join"
               PROVE  /\ serverPc = "accept" => serverSocket = "closed"
                      /\ serverPc = "recv" => fd[currentClient] = NoConn
    BY DEF StopLeavesNoWait
  <2>1. ASSUME serverPc = "recv" PROVE fd[currentClient] = NoConn
    <3>1. clientSocket = Invalid /\ Invalid \notin Fds
      BY <2>1 DEF StopInv
    <3>2. currentClient \in Fds
      BY <2>1 DEF IInv, SessionInv, InLoop
    <3>3. QED BY <2>1, <3>1, <3>2 DEF DescriptorInv, Known
  <2>2. QED BY <2>1 DEF StopInv
<1>2. QED BY <1>1, StoppingInvariance, PTL

=============================================================================
